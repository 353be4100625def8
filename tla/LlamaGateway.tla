---------------------------- MODULE LlamaGateway ----------------------------
(***************************************************************************)
(* One call of LlamaServerGateway (llama_server_gateway.py): the payload   *)
(* it sends, the full answer of ask_llm_sync and generate_text_sync, and   *)
(* the streamed one of stream_llm, where a collector thread runs           *)
(* stream_llm_sync and hands its tokens to the reader through a queue.     *)
(***************************************************************************)
EXTENDS ThinkFilter

CONSTANTS
  Texts,         \* what the model may answer
  Calls,         \* the calls: their messages, mode and own parameters
  Profiles,      \* model_profiles.yml, by name
  SettingsModel, \* LLAMA_SERVER_MODEL_NAME
  NoValue        \* None

(* What _parse_profile and load_model_profiles let through.                 *)
ProfileOK(profile) ==
  /\ profile.control \in {"/think", "/no_think"}
  /\ \A p \in DOMAIN profile : profile[p] \notin {NoValue, ""}

ProfilesOK == "default" \in DOMAIN Profiles /\ \A name \in DOMAIN Profiles : ProfileOK(Profiles[name])

Messages == Seq([role : STRING, lines : Seq(STRING)])

ASSUME GatewayAssumption ==
  /\ ProfilesOK
  /\ Texts \subseteq Seq(STRING) \ {<<>>}
  /\ \A call \in Calls : call.messages \in Messages

VARIABLES
  kind,      \* "stream", "text" or "json"
  payload,   \* what is sent, until it is
  pc,        \* where the caller's thread is in the call
  text,      \* what the model answers
  sent,      \* how much of it the server has sent
  terminal,  \* saw_terminal_event
  filter,    \* the stream filter: inside a block, characters held back
  swallowed, \* history: positions of the feeds that ended within a block
  error,     \* what stream_llm_sync raised
  queue,     \* the items on their way to the reader
  reader     \* the caller: where it is, the positions it got, the error

stream == <<text, sent, terminal, filter, swallowed, error>>
vars == <<kind, payload, pc, text, sent, terminal, filter, swallowed, error, queue, reader>>

Errors == {"timeout", "unavailable", "failed", "malformed", "interrupted"}

Init ==
  /\ kind \in {"stream", "text", "json"}
  /\ payload = NoValue
  /\ pc = "build"
  /\ text = <<>> /\ sent = 0 /\ terminal = FALSE
  /\ filter = [inside |-> FALSE, held |-> 0]
  /\ swallowed = {}
  /\ error = "none"
  /\ queue = <<>>
  /\ reader = [pc |-> "waiting", got |-> <<>>, error |-> "none"]

-----------------------------------------------------------------------------
(* The payload                                                              *)

Select(mode) == Profiles[IF mode \in DOMAIN Profiles THEN mode ELSE "default"]

(* A text is a sequence of lines. Mutant: the line is added once more.      *)
WithControl_Always(lines, control) == Append(lines, control)

WithControl(lines, control) ==
  CASE control \in Range(lines) -> lines
    [] control \notin Range(lines) /\ lines = <<>> -> <<control>>
    [] control \notin Range(lines) /\ lines # <<>> -> lines \o <<"", control>>

(* _apply_prompt_control: the line goes to the first system message, which  *)
(* is added when there is none.                                             *)
ApplyPromptControl(messages, control) ==
  LET system == {i \in DOMAIN messages : messages[i].role = "system"}
  IN  IF system = {}
      THEN <<[role |-> "system", lines |-> <<control>>]>> \o messages
      ELSE [messages EXCEPT ![Min(system)].lines = WithControl(@, control)]

(* _merge_generation_parameters: what the call gives, then what the profile *)
(* gives; an empty model name falls back to the settings.                   *)
MergeParameters(profile, given) ==
  LET merged == [p \in DOMAIN given |-> IF given[p] = NoValue THEN profile[p] ELSE given[p]]
  IN  [merged EXCEPT !.model = IF @ = "" THEN SettingsModel ELSE @]

BuildPayload ==
  /\ pc = "build"
  /\ \E call \in Calls :
       LET profile == Select(call.mode)
       IN  payload' = [call |-> call,
                       messages |-> ApplyPromptControl(call.messages, profile.control),
                       parameters |-> MergeParameters(profile, call.given),
                       stream |-> kind = "stream"]
  /\ pc' = "send"
  /\ UNCHANGED <<kind, stream, queue, reader>>

-----------------------------------------------------------------------------
(* ask_llm_sync and generate_text_sync                                      *)

(* _post_json and _extract_message_content: the request fails, its status   *)
(* is not 200 or its JSON has no text; and the text of a structured answer  *)
(* is not JSON.                                                             *)
FullFails ==
  /\ pc = "send" /\ kind # "stream"
  /\ \E e \in Errors \ {"interrupted"} :
       reader' = [reader EXCEPT !.pc = "failed", !.error = e]
  /\ pc' = "ended" /\ payload' = NoValue
  /\ UNCHANGED <<kind, stream, queue>>

FullAnswer ==
  /\ pc = "send" /\ kind # "stream"
  /\ \E t \in Texts :
       /\ text' = t /\ sent' = Len(t)
       /\ reader' = [reader EXCEPT !.pc = "complete", !.got = MessageContent(t)]
  /\ pc' = "ended" /\ payload' = NoValue
  /\ UNCHANGED <<kind, terminal, filter, swallowed, error, queue>>

-----------------------------------------------------------------------------
(* stream_llm_sync, in the collector thread                                 *)

Put(items) == queue' = queue \o items
Token(positions) == IF positions = <<>> THEN <<>>
                    ELSE <<[item |-> "token", got |-> positions]>>

StreamOpens ==
  /\ pc = "send" /\ kind = "stream"
  /\ text' \in Texts
  /\ pc' = "reading" /\ payload' = NoValue
  /\ UNCHANGED <<kind, sent, terminal, filter, swallowed, error, queue, reader>>

(* An event with a finish_reason, a token, or both. The server finishes     *)
(* when its text is sent. Other events and lines are passed over.           *)
StreamEvent ==
  /\ pc = "reading"
  /\ \E n \in 0..(Len(text) - sent), finish \in BOOLEAN :
       LET hi == sent + n
           fed == Feed(text, sent + 1 - filter.held, hi, filter.inside)
       IN  /\ n > 0 \/ finish
           /\ finish => hi = Len(text)
           /\ terminal' = (terminal \/ finish)
           /\ sent' = hi
           /\ IF n = 0 THEN UNCHANGED <<filter, swallowed, queue>>
              ELSE /\ filter' = [inside |-> fed.inside, held |-> fed.held]
                   /\ swallowed' = IF InBlock(text)[hi] /\ InBlock(text)[hi + 1]
                                   THEN swallowed \cup (sent + 1 - filter.held)..hi
                                   ELSE swallowed
                   /\ Put(Token(fed.visible))
  /\ UNCHANGED <<kind, payload, pc, text, error, reader>>

(* "[DONE]" ends the loop, and so does the end of the response.             *)
StreamDone ==
  /\ pc = "reading" /\ sent = Len(text)
  /\ terminal' = TRUE
  /\ pc' = "closing"
  /\ UNCHANGED <<kind, payload, text, sent, filter, swallowed, error, queue, reader>>

StreamEof ==
  /\ pc = "reading"
  /\ pc' = "closing"
  /\ UNCHANGED <<kind, payload, stream, queue, reader>>

Raise(e) ==
  /\ error' = e
  /\ Put(<<[item |-> "error", got |-> <<>>]>>)
  /\ pc' = "finally"
  /\ UNCHANGED <<kind, payload, text, sent, terminal, filter, swallowed, reader>>

(* The connection fails, the status is not 200, a line is no JSON or has no *)
(* choices, or a read times out.                                            *)
StreamFails ==
  /\ pc \in {"send", "reading"} /\ kind = "stream"
  /\ \E e \in Errors \ {"interrupted"} : Raise(e)

StreamInterrupted ==
  /\ pc = "closing" /\ ~terminal
  /\ Raise("interrupted")

(* Mutant: the end of the response is taken for the end of the answer.      *)
StreamFlush_Unchecked ==
  /\ pc = "closing"
  /\ Put(Token(Flush(sent, filter.held, filter.inside)))
  /\ filter' = [filter EXCEPT !.held = 0]
  /\ pc' = "finally"
  /\ UNCHANGED <<kind, payload, text, sent, terminal, swallowed, error, reader>>

StreamFlush ==
  /\ pc = "closing" /\ terminal
  /\ Put(Token(Flush(sent, filter.held, filter.inside)))
  /\ filter' = [filter EXCEPT !.held = 0]
  /\ pc' = "finally"
  /\ UNCHANGED <<kind, payload, text, sent, terminal, swallowed, error, reader>>

(* Mutant: the last item is not sent after an answer without an error.      *)
Finally_OnError ==
  /\ pc = "finally"
  /\ IF error = "none" THEN UNCHANGED queue ELSE Put(<<[item |-> "done", got |-> <<>>]>>)
  /\ pc' = "ended"
  /\ UNCHANGED <<kind, payload, stream, reader>>

Finally ==
  /\ pc = "finally"
  /\ Put(<<[item |-> "done", got |-> <<>>]>>)
  /\ pc' = "ended"
  /\ UNCHANGED <<kind, payload, stream, reader>>

Collector ==
  \/ BuildPayload \/ FullFails \/ FullAnswer
  \/ StreamOpens \/ StreamEvent \/ StreamDone \/ StreamEof \/ StreamFails
  \/ StreamInterrupted \/ StreamFlush \/ Finally

-----------------------------------------------------------------------------
(* The reader of stream_llm                                                 *)

(* Mutant: a token that waits behind another one is given first.            *)
ReadToken_Newest ==
  /\ reader.pc = "waiting" /\ queue # <<>>
  /\ LET i == Max({i \in DOMAIN queue : queue[i].item = "token"} \cup {1})
     IN  /\ queue[i].item = "token"
         /\ reader' = [reader EXCEPT !.got = @ \o queue[i].got]
         /\ queue' = RemoveAt(queue, i)
  /\ UNCHANGED <<kind, payload, pc, stream>>

ReadToken ==
  /\ reader.pc = "waiting" /\ queue # <<>> /\ Head(queue).item = "token"
  /\ reader' = [reader EXCEPT !.got = @ \o Head(queue).got]
  /\ queue' = Tail(queue)
  /\ UNCHANGED <<kind, payload, pc, stream>>

(* An error or the last item: the thread is waited for.                     *)
ReadEnd ==
  /\ reader.pc = "waiting" /\ queue # <<>> /\ Head(queue).item # "token"
  /\ reader' = [reader EXCEPT !.pc = "joining",
                  !.error = IF Head(queue).item = "error" THEN error ELSE "none"]
  /\ queue' = Tail(queue)
  /\ UNCHANGED <<kind, payload, pc, stream>>

Join ==
  /\ reader.pc = "joining" /\ pc = "ended"
  /\ reader' = [reader EXCEPT !.pc = IF reader.error = "none" THEN "complete" ELSE "failed"]
  /\ UNCHANGED <<kind, payload, pc, stream, queue>>

(* The generator is closed; the thread goes on to the end of the stream.    *)
Leave ==
  /\ kind = "stream" /\ pc # "build" /\ reader.pc \in {"waiting", "joining"}
  /\ reader' = [reader EXCEPT !.pc = "left"]
  /\ UNCHANGED <<kind, payload, pc, stream, queue>>

Reader == ReadToken \/ ReadEnd \/ Join

Next == Collector \/ Reader \/ Leave

(* Every read of the response returns or times out, and both sides run.     *)
Spec == Init /\ [][Next]_vars /\ WF_vars(Collector) /\ WF_vars(Reader)

-----------------------------------------------------------------------------
TypeOK ==
  /\ kind \in {"stream", "text", "json"}
  /\ payload = NoValue \/ payload.call \in Calls
  /\ pc \in {"build", "send", "reading", "closing", "finally", "ended"}
  /\ text = <<>> \/ text \in Texts
  /\ sent \in 0..Len(text)
  /\ terminal \in BOOLEAN
  /\ filter \in [inside : BOOLEAN, held : 0..(TagLen - 1)]
  /\ swallowed \subseteq DOMAIN text
  /\ error \in Errors \cup {"none"}
  /\ \A i \in DOMAIN queue : queue[i].item \in {"token", "error", "done"}
  /\ reader.pc \in {"waiting", "joining", "complete", "failed", "left"}
  /\ reader.error \in Errors \cup {"none"}

(* What the reader has, and what is in the items on their way to it.        *)
Part(i) == IF i = 0 THEN reader.got ELSE queue[i].got

(* However the server cuts its text, tags included, nothing the model wrote *)
(* in a think block leaves the filter, and what leaves it leaves it once    *)
(* and in order. A full answer shows nothing of a block that is closed.     *)
HiddenStaysHidden ==
  \A i \in 0..Len(queue) :
    /\ kind = "stream" => Range(Part(i)) \subseteq Visible(text)
    /\ Range(Part(i)) \cap ClosedBlocks(text) = {}
    /\ \A j \in i..Len(queue) : \A k \in DOMAIN Part(i), l \in DOMAIN Part(j) :
         i < j \/ k < l => Part(i)[k] < Part(j)[l]

(* A stream that completes has shown everything outside the blocks, but for *)
(* what came in one feed with the first characters of a block: feed returns *)
(* "" for those.                                                            *)
NothingElseIsLost ==
  kind = "stream" /\ reader.pc = "complete" =>
    Visible(text) \ swallowed \subseteq Range(reader.got)

(* The two filters agree: a stream that completes, of a text whose tags     *)
(* match and no chunk of which ends in a block, shows what the full answer  *)
(* with this text would have shown, unless a tag comes together only where  *)
(* a block was taken out; but for the whitespace at its ends, as before the *)
(* answer that follows a block, which only the full answer has taken off.   *)
StreamAgreesWithFull ==
  /\ kind = "stream" /\ reader.pc = "complete" /\ swallowed = {} /\ Balanced(text)
  /\ \A tag \in {Open, Close} : TagsIn(text, Visible(text), tag) = {}
  => Strip(text, reader.got) = MessageContent(text)

(* The reader takes an answer for complete only if the server sent it all,  *)
(* whether or not it closed the connection properly, and gets the error of  *)
(* the thread otherwise.                                                    *)
CompleteMeansSent ==
  /\ reader.pc = "complete" => sent = Len(text) /\ error = "none" /\ queue = <<>>
  /\ kind = "stream" /\ reader.pc = "failed" => reader.error = error /\ error # "none"

(* The event loop hears of the end of the thread from the queue alone: once *)
(* the thread has ended, a reader that still waits has the last item before *)
(* it, behind every token and the error, if there was one.                  *)
ReaderNeverStranded ==
  reader.pc = "waiting" /\ pc = "ended" =>
    /\ queue # <<>> /\ queue[Len(queue)].item = "done"
    /\ error # "none" => \E i \in DOMAIN queue : queue[i].item = "error"

(* The control line of the profile is in the first system message, added    *)
(* only if the caller did not give it there, whatever the other messages    *)
(* carry in vain, and none of those, the user's in particular, is changed.  *)
ControlGivenOnce ==
  payload # NoValue =>
    LET control == Select(payload.call.mode).control
        given == payload.call.messages
        added == IF \E i \in DOMAIN given : given[i].role = "system" THEN 0 ELSE 1
    IN  \E first \in DOMAIN payload.messages :
          LET places == {k \in DOMAIN payload.messages[first].lines :
                           payload.messages[first].lines[k] = control}
          IN  /\ payload.messages[first].role = "system"
              /\ \A i \in 1..(first - 1) : payload.messages[i].role # "system"
              /\ Cardinality(places) = 1 \/ (places # {} /\ payload.messages = given)
              /\ Len(payload.messages) = Len(given) + added
              /\ \A i \in DOMAIN given :
                   i + added # first => payload.messages[i + added] = given[i]

(* The reader of a stream that it does not leave gets its end.              *)
ReaderEnds == reader.pc = "waiting" ~> reader.pc # "waiting"

=============================================================================
