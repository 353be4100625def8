---------------------------- MODULE ChatUIProofs ----------------------------
(***************************************************************************)
(* Theorems about ChatUI, for every value of its constants: the answer a   *)
(* message of the Web UI gets is what the API sent for it, and the second  *)
(* request for a message is not answered twice.                            *)
(***************************************************************************)
EXTENDS ChatUI, TLAPS

-----------------------------------------------------------------------------
(* The inductive invariant, of each message on its own: u is its handler, n *)
(* its response, a the API at work on it                                    *)

LastEvents == {"done", "cancelled", "error"}
EventKinds == {"status", "token", "answer"} \cup LastEvents \cup Rejections

Handlers ==
  [pc: {"new", "selecting", "streaming", "full", "answered"}, mode: Modes \cup {NoMode},
   visible: SUBSET {"status", "response"}, streamed: Seq(Nat), shown: Seq(Nat),
   buffer: Seq(Nat), done: BOOLEAN, notice: Notices, retry: Modes \cup {NoMode},
   switched: BOOLEAN]

Responses == [state: {"open", "ended", "broken"}, events: Seq(EventKinds)]

ApiStates ==
  [pc: {"streaming", "started", "recording", "closing", "full", "gone"}, sent: Nat,
   outcome: {"none"} \cup LastEvents, turns: Nat, asked: Nat]

(* A message that nobody asked the API about.                               *)
UnaskedOK(u, a) ==
  u.pc \in {"new", "selecting"} =>
    /\ u.streamed = <<>> /\ u.shown = <<>> /\ u.buffer = <<>> /\ ~u.done /\ u.retry = NoMode
    /\ a.pc = "gone" /\ a.sent = 0 /\ a.outcome = "none" /\ a.turns = 0 /\ a.asked = 0

(* The API sends the last event of a stream once, records a turn once, and  *)
(* only of a stream with a text.                                            *)
ApiOK(u, a) ==
  /\ a.outcome # "none" => a.pc \notin {"streaming", "started"}
  /\ a.pc = "recording" => a.sent > 0
  /\ a.turns <= 1 /\ a.asked <= 2
  /\ a.pc # "gone" => a.turns = 0
  /\ a.asked = 2 => u.streamed = <<>> /\ a.sent = 0 /\ a.pc \in {"full", "gone"}

(* What is on its way of a stream: its status, p of its tokens and its last *)
(* event, or what is left of them at the head.                              *)
OnTheWay(events, s, p, l, outcome) ==
  /\ Len(events) = s + p + l
  /\ \A i \in 1..Len(events) :
       events[i] = IF i <= s THEN "status" ELSE IF i <= s + p THEN "token" ELSE outcome

(* The API refused the request: nothing but that is on its way.             *)
Rejected(n, a) ==
  \E failure \in Rejections : n.events = <<failure>> /\ a.sent = 0 /\ a.pc = "gone"

(* The tokens that came and those on their way are the ones the API sent,   *)
(* all of them as long as the connection is not broken, and again once the  *)
(* last event has passed it.                                                *)
Flows(u, n, a) ==
  \E s, l \in {0, 1}, p \in Nat :
    /\ OnTheWay(n.events, s, p, l, a.outcome)
    /\ l = 1 => a.outcome # "none"
    /\ Len(u.streamed) + p <= a.sent
    /\ n.state # "broken" \/ l = 1 => Len(u.streamed) + p = a.sent

StreamOK(u, n, a) ==
  u.pc = "streaming" =>
    /\ a.asked = 1 /\ a.pc # "full"
    /\ a.pc = "streaming" => n.events = <<>> /\ a.sent = 0
    /\ a.pc = "gone" => n.state # "open"
    /\ n.state = "ended" => a.pc = "gone"
    /\ a.turns > 0 => a.sent > 0
    /\ u.done => n.events = <<>> /\ a.outcome = "done" /\ Len(u.streamed) = a.sent
    /\ Rejected(n, a) \/ Flows(u, n, a)

FullOK(u, a) == u.pc = "full" => u.streamed = <<>> /\ a.asked > 0 /\ a.pc \in {"full", "gone"}

(* The text of an answer, and its place in the chat.                        *)
TextOK(u, a) ==
  /\ u.streamed = Prefix(Len(u.streamed)) /\ Len(u.streamed) <= a.sent
  /\ u.pc = "streaming" => u.shown \o u.buffer = u.streamed
  /\ u.pc \notin {"new", "selecting"}
       => u.visible = {IF u.streamed = <<>> THEN "status" ELSE "response"}

WholeOK(u, a) ==
  u.pc = "answered" =>
    /\ u.notice = "none" /\ u.shown # FullText =>
         a.outcome = "done" /\ u.shown = Prefix(a.sent) /\ u.shown # <<>>
    /\ u.notice \in {"cancelled", "error"} => a.outcome = u.notice
    /\ u.notice \in {"interrupted", "incomplete"} => u.shown = u.streamed /\ u.shown # <<>>

(* The mode of the chat is that of a request at work unless it was switched.*)
ModeOK(u, selected) ==
  /\ u.pc \in {"streaming", "full"} /\ u.mode # selected => u.switched
  /\ u.pc = "answered" /\ u.retry \notin {NoMode, u.mode} => u.switched

MessageOK(u, n, a) ==
  /\ UnaskedOK(u, a) /\ ApiOK(u, a) /\ StreamOK(u, n, a) /\ FullOK(u, a) /\ TextOK(u, a)
  /\ WholeOK(u, a)

ChatInv ==
  /\ mode \in Modes
  /\ ui \in [Messages -> Handlers] /\ net \in [Messages -> Responses]
  /\ api \in [Messages -> ApiStates]
  /\ \A m \in Messages : /\ MessageOK(ui[m], net[m], api[m]) /\ ModeOK(ui[m], mode)
                         /\ api[m].sent <= MaxTokens[m]

-----------------------------------------------------------------------------
(* The events on their way                                                  *)

(* Once its outcome is known, a stream has nothing but it to follow.        *)
LEMMA SendToken ==
  ASSUME NEW events \in Seq(EventKinds), NEW s \in {0, 1}, NEW p \in Nat, NEW o, NEW o2,
         OnTheWay(events, s, p, 0, o)
  PROVE  /\ OnTheWay(events, s, p, 0, o2)
         /\ OnTheWay(Append(events, "token"), s, p + 1, 0, o)
         /\ OnTheWay(Append(events, o2), s, p, 1, o2)
<1>1. /\ Len(events) \in Nat /\ Len(events) = s + p
      /\ \A i \in 1..Len(events) : events[i] = IF i <= s THEN "status" ELSE "token"
  BY DEF OnTheWay
<1>2. ASSUME NEW e
      PROVE  /\ Len(Append(events, e)) = Len(events) + 1
             /\ \A i \in 1..Len(events) : Append(events, e)[i] = events[i]
             /\ Append(events, e)[Len(events) + 1] = e
  OBVIOUS
<1>3. OnTheWay(events, s, p, 0, o2)
  BY <1>1 DEF OnTheWay
<1>4. OnTheWay(Append(events, "token"), s, p + 1, 0, o)
  BY <1>1, <1>2 DEF OnTheWay
<1>5. OnTheWay(Append(events, o2), s, p, 1, o2)
  BY <1>1, <1>2 DEF OnTheWay
<1>6. QED
  BY <1>3, <1>4, <1>5

LEMMA SendStatus == \A o : /\ OnTheWay(<<>>, 0, 0, 0, o)
                           /\ OnTheWay(Append(<<>>, "status"), 1, 0, 0, o)
BY DEF OnTheWay

LEMMA NothingOnTheWay ==
  ASSUME NEW s \in {0, 1}, NEW p \in Nat, NEW l \in {0, 1}, NEW o, OnTheWay(<<>>, s, p, l, o)
  PROVE  s = 0 /\ p = 0 /\ l = 0
BY DEF OnTheWay

(* What is taken is the head, and tells what it was.                        *)
LEMMA TakeHead ==
  ASSUME NEW events \in Seq(EventKinds), events # <<>>,
         NEW s \in {0, 1}, NEW p \in Nat, NEW l \in {0, 1}, NEW o,
         OnTheWay(events, s, p, l, o), l = 1 => o \in LastEvents
  PROVE  /\ Head(events) = "status" => s = 1 /\ OnTheWay(Tail(events), 0, p, l, o)
         /\ Head(events) = "token" =>
              s = 0 /\ p - 1 \in Nat /\ OnTheWay(Tail(events), 0, p - 1, l, o)
         /\ Head(events) \notin {"status", "token"} =>
              s = 0 /\ p = 0 /\ l = 1 /\ o = Head(events) /\ Tail(events) = <<>>
<1>1. /\ Len(events) \in Nat /\ Len(events) >= 1 /\ Len(events) = s + p + l
      /\ Head(events) = events[1]
      /\ Len(Tail(events)) = Len(events) - 1
      /\ \A i \in 1..Len(Tail(events)) : Tail(events)[i] = events[i + 1]
  BY DEF OnTheWay
<1>2. \A i \in 1..Len(events) :
        events[i] = IF i <= s THEN "status" ELSE IF i <= s + p THEN "token" ELSE o
  BY DEF OnTheWay
<1>3. events[1] = IF 1 <= s THEN "status" ELSE IF 1 <= s + p THEN "token" ELSE o
  BY <1>1, <1>2
<1>4. o = "status" \/ o = "token" => l = 0
  BY DEF LastEvents
<1>5. Head(events) = "status" => s = 1 /\ OnTheWay(Tail(events), 0, p, l, o)
  <2> SUFFICES ASSUME Head(events) = "status"
               PROVE  s = 1 /\ OnTheWay(Tail(events), 0, p, l, o)
    OBVIOUS
  <2>1. s = 1
    BY <1>1, <1>3, <1>4
  <2>2. \A i \in 1..Len(Tail(events)) :
          Tail(events)[i] = IF i <= 0 THEN "status" ELSE IF i <= 0 + p THEN "token" ELSE o
    BY <1>1, <1>2, <2>1
  <2>3. QED
    BY <1>1, <2>1, <2>2 DEF OnTheWay
<1>6. Head(events) = "token" => s = 0 /\ p - 1 \in Nat /\ OnTheWay(Tail(events), 0, p - 1, l, o)
  <2> SUFFICES ASSUME Head(events) = "token"
               PROVE  s = 0 /\ p - 1 \in Nat /\ OnTheWay(Tail(events), 0, p - 1, l, o)
    OBVIOUS
  <2>1. s = 0 /\ p - 1 \in Nat
    BY <1>1, <1>3, <1>4
  <2>2. \A i \in 1..Len(Tail(events)) :
          Tail(events)[i] = IF i <= 0 THEN "status" ELSE IF i <= 0 + (p - 1) THEN "token" ELSE o
    BY <1>1, <1>2, <2>1
  <2>3. QED
    BY <1>1, <2>1, <2>2 DEF OnTheWay
<1>7. Head(events) \notin {"status", "token"} =>
        s = 0 /\ p = 0 /\ l = 1 /\ o = Head(events) /\ Tail(events) = <<>>
  BY <1>1, <1>3
<1>8. QED
  BY <1>5, <1>6, <1>7

LEMMA AppendPrefix ==
  ASSUME NEW n \in Nat
  PROVE  /\ Prefix(n) \in Seq(Nat) /\ Len(Prefix(n)) = n
         /\ Append(Prefix(n), n + 1) = Prefix(n + 1)
         /\ Prefix(0) = <<>>
BY DEF Prefix

-----------------------------------------------------------------------------
(* The API and the connection                                               *)

(* A step that concerns one message leaves the others as they are.          *)
LEMMA OneMessage ==
  ASSUME ChatInv, NEW m \in Messages, UNCHANGED mode,
         NEW u \in Handlers, NEW n \in Responses, NEW a \in ApiStates,
         ui' = [ui EXCEPT ![m] = u], net' = [net EXCEPT ![m] = n], api' = [api EXCEPT ![m] = a],
         MessageOK(u, n, a), ModeOK(u, mode), a.sent <= MaxTokens[m]
  PROVE  ChatInv'
BY DEF ChatInv

(* The same, when the handler of the message is not concerned either.       *)
LEMMA ApiMessage ==
  ASSUME ChatInv, NEW m \in Messages, UNCHANGED <<mode, ui>>,
         NEW n \in Responses, NEW a \in ApiStates,
         net' = [net EXCEPT ![m] = n], api' = [api EXCEPT ![m] = a],
         MessageOK(ui[m], n, a), a.sent <= MaxTokens[m]
  PROVE  ChatInv'
BY DEF ChatInv

Sent(n, event, state) ==
  IF n.state = "open" THEN [state |-> state, events |-> Append(n.events, event)] ELSE n

LEMMA PutSends ==
  ASSUME ChatInv, NEW m \in Messages, NEW event \in EventKinds,
         NEW state \in {"open", "ended"}, Put(m, event, state)
  PROVE  /\ net' = [net EXCEPT ![m] = Sent(net[m], event, state)]
         /\ Sent(net[m], event, state) \in Responses
<1>1. net[m] \in Responses /\ net[m].events \in Seq(EventKinds)
  BY DEF ChatInv, Responses
<1>2. net' = [net EXCEPT ![m] = Sent(net[m], event, state)]
  BY DEF Put, Sent, ChatInv
<1>3. Append(net[m].events, event) \in Seq(EventKinds)
  BY <1>1
<1>4. Sent(net[m], event, state) \in Responses
  BY <1>1, <1>3 DEF Sent, Responses
<1>5. QED
  BY <1>2, <1>4

(* What the stream of a message the API refuses becomes.                    *)
LEMMA ApiRejectsOK ==
  ASSUME ChatInv, NEW m \in Messages, ApiRejects(m)
  PROVE  ChatInv'
<1> DEFINE u == ui[m]
           a == api[m]
           a2 == [a EXCEPT !.pc = "gone"]
<1>0. /\ u \in Handlers /\ net[m] \in Responses /\ a \in ApiStates
      /\ MessageOK(u, net[m], a) /\ a.sent <= MaxTokens[m]
      /\ a.pc \in {"streaming", "full"} /\ a.sent = 0 /\ UNCHANGED <<mode, ui>>
      /\ api' = [api EXCEPT ![m] = a2]
  BY DEF ChatInv, ApiRejects
<1>1. PICK failure \in Rejections : Put(m, failure, "ended")
  BY DEF ApiRejects
<1> DEFINE n2 == Sent(net[m], failure, "ended")
<1>2. net' = [net EXCEPT ![m] = n2] /\ n2 \in Responses
  BY <1>1, PutSends DEF EventKinds
<1>3. /\ a2 \in ApiStates /\ a2.pc = "gone" /\ a2.sent = a.sent /\ a2.turns = a.turns
      /\ a2.asked = a.asked /\ a2.outcome = a.outcome
  BY <1>0 DEF ApiStates
<1>4. StreamOK(u, n2, a2)
  <2> SUFFICES ASSUME u.pc = "streaming" PROVE StreamOK(u, n2, a2)
    BY DEF StreamOK
  <2>1. /\ a.asked = 1 /\ net[m].events = <<>> /\ net[m].state # "ended"
        /\ a.turns > 0 => a.sent > 0
        /\ ~u.done
        /\ Flows(u, net[m], a)
    BY <1>0 DEF MessageOK, StreamOK, Rejected, ApiOK
  <2>2. CASE net[m].state = "open"
    <3>1. n2.events = <<failure>> /\ n2.state = "ended"
      BY <2>1, <2>2 DEF Sent
    <3>2. Rejected(n2, a2)
      BY <1>0, <1>3, <3>1 DEF Rejected
    <3>3. QED
      BY <1>0, <1>3, <2>1, <3>1, <3>2 DEF StreamOK
  <2>3. CASE net[m].state # "open"
    <3>1. n2 = net[m] /\ n2.state = "broken"
      BY <1>0, <2>1, <2>3 DEF Sent, Responses
    <3>2. Flows(u, n2, a2)
      BY <1>3, <2>1, <3>1 DEF Flows
    <3>3. QED
      BY <1>0, <1>3, <2>1, <3>1, <3>2 DEF StreamOK
  <2>4. QED
    BY <2>2, <2>3
<1>5. UnaskedOK(u, a2) /\ ApiOK(u, a2) /\ FullOK(u, a2) /\ TextOK(u, a2) /\ WholeOK(u, a2)
  BY <1>0, <1>3 DEF MessageOK, UnaskedOK, ApiOK, FullOK, TextOK, WholeOK
<1>6. MessageOK(u, n2, a2) /\ a2.sent <= MaxTokens[m]
  BY <1>0, <1>3, <1>4, <1>5 DEF MessageOK
<1> HIDE DEF n2, a2
<1>7. QED
  BY <1>0, <1>2, <1>3, <1>6, ApiMessage

LEMMA ApiStatusOK ==
  ASSUME ChatInv, NEW m \in Messages, ApiStatus(m)
  PROVE  ChatInv'
<1> DEFINE u == ui[m]
           a == api[m]
           a2 == [a EXCEPT !.pc = "started"]
           n2 == Sent(net[m], "status", "open")
<1>0. /\ u \in Handlers /\ net[m] \in Responses /\ a \in ApiStates
      /\ MessageOK(u, net[m], a) /\ a.sent <= MaxTokens[m]
      /\ a.pc = "streaming" /\ UNCHANGED <<mode, ui>>
      /\ api' = [api EXCEPT ![m] = a2]
  BY DEF ChatInv, ApiStatus
<1>2. /\ net' = [net EXCEPT ![m] = n2] /\ n2 \in Responses
      /\ n2 = Sent(net[m], "status", "open")
  BY PutSends DEF EventKinds, ApiStatus
<1>3. /\ a2 \in ApiStates /\ a2.pc = "started" /\ a2.sent = a.sent /\ a2.turns = a.turns
      /\ a2.asked = a.asked /\ a2.outcome = a.outcome
  BY <1>0 DEF ApiStates
<1> HIDE DEF n2, a2
<1>4. StreamOK(u, n2, a2)
  <2> SUFFICES ASSUME u.pc = "streaming" PROVE StreamOK(u, n2, a2)
    BY DEF StreamOK
  <2>1. /\ a.asked = 1 /\ net[m].events = <<>> /\ net[m].state # "ended"
        /\ a.turns = 0 /\ a.sent = 0 /\ ~u.done
        /\ Flows(u, net[m], a)
    BY <1>0 DEF MessageOK, StreamOK, Rejected, ApiOK
  <2>2. CASE net[m].state = "open"
    <3>1. n2.events = Append(<<>>, "status") /\ n2.state = "open"
      BY <1>2, <2>1, <2>2 DEF Sent
    <3>2. PICK s, l \in {0, 1}, p \in Nat :
            OnTheWay(<<>>, s, p, l, a.outcome) /\ Len(u.streamed) + p = a.sent
      BY <2>1, <2>2 DEF Flows
    <3>3. p = 0
      BY <3>2, NothingOnTheWay
    <3>4. OnTheWay(n2.events, 1, 0, 0, a2.outcome)
      BY <3>1, SendStatus
    <3>5. Len(u.streamed) + 0 = a2.sent /\ Len(u.streamed) + 0 <= a2.sent
      BY <1>0, <1>3, <2>1, <3>2, <3>3 DEF ApiStates
    <3>6. Flows(u, n2, a2)
      BY <3>4, <3>5 DEF Flows
    <3>7. QED
      BY <1>3, <2>1, <3>1, <3>6 DEF StreamOK
  <2>3. CASE net[m].state # "open"
    <3>1. n2 = net[m] /\ n2.state = "broken"
      BY <1>0, <1>2, <2>1, <2>3 DEF Sent, Responses
    <3>2. Flows(u, n2, a2)
      BY <1>3, <2>1, <3>1 DEF Flows
    <3>3. QED
      BY <1>3, <2>1, <3>1, <3>2 DEF StreamOK
  <2>4. QED
    BY <2>2, <2>3
<1>5. UnaskedOK(u, a2) /\ ApiOK(u, a2) /\ FullOK(u, a2) /\ TextOK(u, a2) /\ WholeOK(u, a2)
  BY <1>0, <1>3 DEF MessageOK, UnaskedOK, ApiOK, FullOK, TextOK, WholeOK
<1>6. MessageOK(u, n2, a2) /\ a2.sent <= MaxTokens[m]
  BY <1>0, <1>3, <1>4, <1>5 DEF MessageOK
<1>7. QED
  BY <1>0, <1>2, <1>3, <1>6, ApiMessage

LEMMA ApiTokenOK ==
  ASSUME ChatInv, NEW m \in Messages, ApiToken(m)
  PROVE  ChatInv'
<1> DEFINE u == ui[m]
           a == api[m]
           a2 == [a EXCEPT !.sent = @ + 1]
           n2 == Sent(net[m], "token", "open")
<1>0. /\ u \in Handlers /\ net[m] \in Responses /\ a \in ApiStates
      /\ MessageOK(u, net[m], a) /\ a.sent < MaxTokens[m]
      /\ a.pc = "started" /\ UNCHANGED <<mode, ui>>
      /\ api' = [api EXCEPT ![m] = a2]
  BY DEF ChatInv, ApiToken
<1>2. /\ net' = [net EXCEPT ![m] = n2] /\ n2 \in Responses
      /\ n2 = Sent(net[m], "token", "open")
  BY PutSends DEF EventKinds, ApiToken
<1>3. /\ a2 \in ApiStates /\ a2.pc = "started" /\ a2.sent = a.sent + 1 /\ a2.turns = a.turns
      /\ a2.asked = a.asked /\ a2.outcome = a.outcome
  BY <1>0 DEF ApiStates
<1>8. a.sent \in Nat /\ Len(u.streamed) \in Nat /\ MaxTokens[m] \in Nat
  <2>1. u.streamed \in Seq(Nat) /\ a.sent \in Nat
    BY <1>0 DEF ApiStates, Handlers
  <2>2. QED
    BY <2>1, ChatAssumption
<1> HIDE DEF n2, a2
<1>9. a.outcome = "none" /\ a.turns = 0
  BY <1>0 DEF MessageOK, ApiOK
<1>4. StreamOK(u, n2, a2)
  <2> SUFFICES ASSUME u.pc = "streaming" PROVE StreamOK(u, n2, a2)
    BY DEF StreamOK
  <2>1. /\ a.asked = 1 /\ net[m].state # "ended" /\ ~u.done
        /\ Flows(u, net[m], a)
    BY <1>0, <1>9 DEF MessageOK, StreamOK, Rejected, ApiOK
  <2>2. PICK s, l \in {0, 1}, p \in Nat :
          /\ OnTheWay(net[m].events, s, p, l, a.outcome)
          /\ l = 1 => a.outcome # "none"
          /\ Len(u.streamed) + p <= a.sent
          /\ net[m].state # "broken" \/ l = 1 => Len(u.streamed) + p = a.sent
    BY <2>1 DEF Flows
  <2>3. l = 0
    BY <1>9, <2>2
  <2>4. CASE net[m].state = "open"
    <3>1. n2.events = Append(net[m].events, "token") /\ n2.state = "open"
      BY <1>2, <2>4 DEF Sent
    <3>2. net[m].events \in Seq(EventKinds)
      BY <1>0 DEF Responses
    <3>3. OnTheWay(n2.events, s, p + 1, 0, a2.outcome)
      BY <1>3, <2>2, <2>3, <3>1, <3>2, SendToken
    <3>4. PICK k \in Nat, c \in Nat : k = Len(u.streamed) /\ c = a.sent
      BY <1>8
    <3>5. k + p = c /\ a2.sent = c + 1
      BY <1>3, <2>2, <2>4, <3>4
    <3>6. p + 1 \in Nat /\ k + (p + 1) = c + 1
      BY <3>5
    <3>7. Flows(u, n2, a2)
      BY <3>3, <3>4, <3>5, <3>6 DEF Flows
    <3>8. QED
      BY <1>3, <1>9, <2>1, <3>1, <3>7 DEF StreamOK
  <2>5. CASE net[m].state # "open"
    <3>1. n2 = net[m] /\ n2.state = "broken"
      BY <1>0, <1>2, <2>1, <2>5 DEF Sent, Responses
    <3>2. OnTheWay(n2.events, s, p, 0, a2.outcome) /\ Len(u.streamed) + p <= a2.sent
      BY <1>3, <1>8, <2>2, <2>3, <3>1
    <3>3. Flows(u, n2, a2)
      BY <3>1, <3>2 DEF Flows
    <3>4. QED
      BY <1>3, <1>9, <2>1, <3>1, <3>3 DEF StreamOK
  <2>6. QED
    BY <2>4, <2>5
<1>5. UnaskedOK(u, a2) /\ ApiOK(u, a2) /\ FullOK(u, a2) /\ TextOK(u, a2) /\ WholeOK(u, a2)
  <2>1. UnaskedOK(u, a2) /\ ApiOK(u, a2) /\ FullOK(u, a2)
    BY <1>0, <1>3, <1>9 DEF MessageOK, UnaskedOK, ApiOK, FullOK
  <2>2. TextOK(u, a2)
    <3>1. TextOK(u, a) /\ a2.sent = a.sent + 1
      BY <1>0, <1>3 DEF MessageOK
    <3>2. Len(u.streamed) <= a2.sent
      BY <1>8, <3>1 DEF TextOK
    <3>3. QED
      BY <3>1, <3>2 DEF TextOK
  <2>3. WholeOK(u, a2)
    BY <1>0, <1>3, <1>9 DEF MessageOK, WholeOK
  <2>4. QED
    BY <2>1, <2>2, <2>3
<1>6. MessageOK(u, n2, a2) /\ a2.sent <= MaxTokens[m]
  <2>1. a2.sent = a.sent + 1
    BY <1>3
  <2>2. a2.sent <= MaxTokens[m]
    BY <1>0, <1>8, <2>1
  <2>3. QED
    BY <1>4, <1>5, <2>2 DEF MessageOK
<1>7. QED
  BY <1>0, <1>2, <1>3, <1>6, ApiMessage

LEMMA ApiLastEventOK ==
  ASSUME ChatInv, NEW m \in Messages, ApiLastEvent(m)
  PROVE  ChatInv'
<1> DEFINE u == ui[m]
           a == api[m]
<1>0. /\ u \in Handlers /\ net[m] \in Responses /\ a \in ApiStates
      /\ MessageOK(u, net[m], a) /\ a.sent <= MaxTokens[m]
      /\ a.pc = "started" /\ UNCHANGED <<mode, ui>>
  BY DEF ChatInv, ApiLastEvent
<1>1. PICK last \in LastEvents, pc \in {"closing", "recording"} :
        /\ Put(m, last, "open")
        /\ pc = "recording" => a.sent # 0
        /\ api' = [api EXCEPT ![m].outcome = last, ![m].pc = pc]
  <2>1. PICK last \in {"done", "cancelled", "error"}, raised \in BOOLEAN :
          /\ Put(m, last, "open")
          /\ api' = [api EXCEPT ![m].outcome = last,
                       ![m].pc = IF raised \/ api[m].sent = 0 THEN "closing" ELSE "recording"]
    BY DEF ApiLastEvent
  <2>2. CASE raised \/ a.sent = 0
    BY <2>1, <2>2 DEF LastEvents
  <2>3. CASE ~(raised \/ a.sent = 0)
    BY <2>1, <2>3 DEF LastEvents
  <2>4. QED
    BY <2>2, <2>3
<1> DEFINE n2 == Sent(net[m], last, "open")
           a2 == [a EXCEPT !.outcome = last, !.pc = pc]
<1>2. /\ net' = [net EXCEPT ![m] = n2] /\ n2 \in Responses /\ api' = [api EXCEPT ![m] = a2]
      /\ n2 = Sent(net[m], last, "open")
  BY <1>1, PutSends DEF EventKinds, ChatInv
<1>3. /\ a2 \in ApiStates /\ a2.pc = pc /\ a2.sent = a.sent /\ a2.turns = a.turns
      /\ a2.asked = a.asked /\ a2.outcome = last /\ last # "none"
  BY <1>0 DEF ApiStates, LastEvents
<1>8. a.sent \in Nat /\ Len(u.streamed) \in Nat
  <2>1. u.streamed \in Seq(Nat) /\ a.sent \in Nat
    BY <1>0 DEF ApiStates, Handlers
  <2>2. QED
    BY <2>1
<1> HIDE DEF n2, a2
<1>9. a.outcome = "none" /\ a.turns = 0 /\ a.asked # 2
  BY <1>0 DEF MessageOK, ApiOK
<1>4. StreamOK(u, n2, a2)
  <2> SUFFICES ASSUME u.pc = "streaming" PROVE StreamOK(u, n2, a2)
    BY DEF StreamOK
  <2>1. /\ a.asked = 1 /\ net[m].state # "ended" /\ ~u.done
        /\ Flows(u, net[m], a)
    BY <1>0, <1>9 DEF MessageOK, StreamOK, Rejected, ApiOK
  <2>2. PICK s, l \in {0, 1}, p \in Nat :
          /\ OnTheWay(net[m].events, s, p, l, a.outcome)
          /\ l = 1 => a.outcome # "none"
          /\ Len(u.streamed) + p <= a.sent
          /\ net[m].state # "broken" \/ l = 1 => Len(u.streamed) + p = a.sent
    BY <2>1 DEF Flows
  <2>3. l = 0 /\ net[m].events \in Seq(EventKinds)
    BY <1>0, <1>9, <2>2 DEF Responses
  <2>4. /\ OnTheWay(net[m].events, s, p, 0, a2.outcome)
        /\ OnTheWay(Append(net[m].events, last), s, p, 1, a2.outcome)
    BY <1>3, <2>2, <2>3, SendToken
  <2>5. CASE net[m].state = "open"
    <3>1. n2.events = Append(net[m].events, last) /\ n2.state = "open"
      BY <1>2, <2>5 DEF Sent
    <3>2. Len(u.streamed) + p = a2.sent /\ Len(u.streamed) + p <= a2.sent
      BY <1>3, <2>2, <2>5
    <3>3. Flows(u, n2, a2)
      BY <1>3, <2>4, <3>1, <3>2 DEF Flows
    <3>4. QED
      BY <1>3, <1>9, <2>1, <3>1, <3>3 DEF StreamOK
  <2>6. CASE net[m].state # "open"
    <3>1. n2 = net[m] /\ n2.state = "broken"
      BY <1>0, <1>2, <2>1, <2>6 DEF Sent, Responses
    <3>2. Flows(u, n2, a2)
      BY <1>3, <2>2, <2>4, <3>1 DEF Flows
    <3>3. QED
      BY <1>3, <1>9, <2>1, <3>1, <3>2 DEF StreamOK
  <2>7. QED
    BY <2>5, <2>6
<1>5. UnaskedOK(u, a2) /\ ApiOK(u, a2) /\ FullOK(u, a2) /\ TextOK(u, a2) /\ WholeOK(u, a2)
  <2>1. UnaskedOK(u, a2) /\ FullOK(u, a2)
    BY <1>0, <1>3 DEF MessageOK, UnaskedOK, FullOK
  <2>5. ApiOK(u, a2)
    <3>1. pc = "recording" => a.sent > 0
      BY <1>1, <1>8
    <3>2. ApiOK(u, a)
      BY <1>0 DEF MessageOK
    <3>3. QED
      BY <1>3, <1>9, <3>1, <3>2 DEF ApiOK
  <2>2. TextOK(u, a2)
    BY <1>0, <1>3, <1>8 DEF MessageOK, TextOK
  <2>3. WholeOK(u, a2)
    BY <1>0, <1>3, <1>9 DEF MessageOK, WholeOK
  <2>4. QED
    BY <2>1, <2>2, <2>3, <2>5
<1>6. MessageOK(u, n2, a2) /\ a2.sent <= MaxTokens[m]
  BY <1>0, <1>3, <1>4, <1>5 DEF MessageOK
<1>7. QED
  BY <1>0, <1>2, <1>3, <1>6, ApiMessage

LEMMA ApiClosesOK ==
  ASSUME ChatInv, NEW m \in Messages, ApiCloses(m)
  PROVE  ChatInv'
<1> DEFINE u == ui[m]
           n == net[m]
           a == api[m]
           n2 == [n EXCEPT !.state = IF @ = "open" THEN "ended" ELSE @]
           a2 == [a EXCEPT !.pc = "gone", !.turns = IF a.pc = "recording" THEN @ + 1 ELSE @]
<1>0. /\ u \in Handlers /\ n \in Responses /\ a \in ApiStates
      /\ MessageOK(u, n, a) /\ a.sent <= MaxTokens[m]
      /\ a.pc \in {"recording", "closing"} /\ UNCHANGED <<mode, ui>>
  BY DEF ChatInv, ApiCloses
<1>1. net' = [net EXCEPT ![m] = n2] /\ api' = [api EXCEPT ![m] = a2]
  BY DEF ApiCloses, ChatInv
<1>2. /\ n2 \in Responses /\ n2.events = n.events
      /\ n2.state # "open" /\ (n.state = "broken" <=> n2.state = "broken")
  BY <1>0 DEF Responses
<1>3. a.turns = 0 /\ a.asked # 2
  BY <1>0 DEF MessageOK, ApiOK
<1>4. /\ a2 \in ApiStates /\ a2.pc = "gone" /\ a2.sent = a.sent
      /\ a2.asked = a.asked /\ a2.outcome = a.outcome
      /\ a2.turns = IF a.pc = "recording" THEN 1 ELSE 0
  <2>1. CASE a.pc = "recording"
    <3> DEFINE recorded == [a EXCEPT !.pc = "gone", !.turns = 1]
    <3>1. a2 = recorded
      BY <1>3, <2>1
    <3>2. /\ recorded \in ApiStates /\ recorded.pc = "gone" /\ recorded.sent = a.sent
          /\ recorded.asked = a.asked /\ recorded.outcome = a.outcome /\ recorded.turns = 1
      BY <1>0 DEF ApiStates
    <3> HIDE DEF recorded, a2
    <3>3. QED
      BY <2>1, <3>1, <3>2
  <2>2. CASE a.pc # "recording"
    BY <1>0, <1>3, <2>2 DEF ApiStates
  <2>3. QED
    BY <2>1, <2>2
<1> HIDE DEF n2, a2
<1>5. a2.turns <= 1 /\ (a2.turns > 0 => a2.sent > 0)
  BY <1>0, <1>4 DEF MessageOK, ApiOK
<1>6. StreamOK(u, n2, a2)
  <2> SUFFICES ASSUME u.pc = "streaming" PROVE StreamOK(u, n2, a2)
    BY DEF StreamOK
  <2>1. /\ a.asked = 1
        /\ u.done => n.events = <<>> /\ a.outcome = "done" /\ Len(u.streamed) = a.sent
        /\ Flows(u, n, a)
    BY <1>0 DEF MessageOK, StreamOK, Rejected
  <2>2. Flows(u, n2, a2)
    BY <1>2, <1>4, <2>1 DEF Flows
  <2>3. QED
    BY <1>2, <1>4, <1>5, <2>1, <2>2 DEF StreamOK
<1>7. UnaskedOK(u, a2) /\ ApiOK(u, a2) /\ FullOK(u, a2) /\ TextOK(u, a2) /\ WholeOK(u, a2)
  BY <1>0, <1>3, <1>4, <1>5 DEF MessageOK, UnaskedOK, ApiOK, FullOK, TextOK, WholeOK
<1>8. QED
  BY <1>0, <1>1, <1>2, <1>4, <1>6, <1>7, ApiMessage DEF MessageOK

LEMMA ApiCancelledOK ==
  ASSUME ChatInv, NEW m \in Messages, ApiCancelled(m)
  PROVE  ChatInv'
<1> DEFINE u == ui[m]
           n == net[m]
           a == api[m]
           a2 == [a EXCEPT !.pc = "gone"]
<1>0. /\ u \in Handlers /\ n \in Responses /\ a \in ApiStates
      /\ MessageOK(u, n, a) /\ a.sent <= MaxTokens[m]
      /\ a.pc \notin {"gone", "full"} /\ n.state = "broken" /\ UNCHANGED <<mode, ui>>
      /\ api' = [api EXCEPT ![m] = a2] /\ net' = [net EXCEPT ![m] = n]
  BY DEF ChatInv, ApiCancelled
<1>1. /\ a2 \in ApiStates /\ a2.pc = "gone" /\ a2.sent = a.sent /\ a2.turns = a.turns
      /\ a2.asked = a.asked /\ a2.outcome = a.outcome
  BY <1>0 DEF ApiStates
<1> HIDE DEF a2
<1>2. StreamOK(u, n, a2)
  <2> SUFFICES ASSUME u.pc = "streaming" PROVE StreamOK(u, n, a2)
    BY DEF StreamOK
  <2>1. Flows(u, n, a2)
    BY <1>0, <1>1 DEF MessageOK, StreamOK, Rejected, Flows
  <2>2. QED
    BY <1>0, <1>1, <2>1 DEF MessageOK, StreamOK
<1>3. UnaskedOK(u, a2) /\ ApiOK(u, a2) /\ FullOK(u, a2) /\ TextOK(u, a2) /\ WholeOK(u, a2)
  BY <1>0, <1>1 DEF MessageOK, UnaskedOK, ApiOK, FullOK, TextOK, WholeOK
<1>4. QED
  BY <1>0, <1>1, <1>2, <1>3, ApiMessage DEF MessageOK

LEMMA ApiAnswersOK ==
  ASSUME ChatInv, NEW m \in Messages, ApiAnswers(m)
  PROVE  ChatInv'
<1> DEFINE u == ui[m]
           a == api[m]
           a2 == [a EXCEPT !.pc = "gone", !.turns = @ + 1]
<1>0. /\ u \in Handlers /\ net[m] \in Responses /\ a \in ApiStates
      /\ MessageOK(u, net[m], a) /\ a.sent <= MaxTokens[m]
      /\ a.pc = "full" /\ UNCHANGED <<mode, ui>>
      /\ api' = [api EXCEPT ![m] = a2]
  BY DEF ChatInv, ApiAnswers
<1>1. PICK answer \in Answers : Put(m, answer, "ended")
  BY DEF ApiAnswers
<1> DEFINE n2 == Sent(net[m], answer, "ended")
<1>2. net' = [net EXCEPT ![m] = n2] /\ n2 \in Responses
  BY <1>1, PutSends DEF EventKinds, Answers, Rejections
<1>3. a.turns = 0
  BY <1>0 DEF MessageOK, ApiOK
<1>4. /\ a2 \in ApiStates /\ a2.pc = "gone" /\ a2.sent = a.sent /\ a2.turns = 1
      /\ a2.asked = a.asked /\ a2.outcome = a.outcome
  <2> DEFINE recorded == [a EXCEPT !.pc = "gone", !.turns = 1]
  <2>1. a2 = recorded
    BY <1>3
  <2>2. /\ recorded \in ApiStates /\ recorded.pc = "gone" /\ recorded.sent = a.sent
        /\ recorded.asked = a.asked /\ recorded.outcome = a.outcome /\ recorded.turns = 1
    BY <1>0 DEF ApiStates
  <2> HIDE DEF recorded, a2
  <2>3. QED
    BY <2>1, <2>2
<1> HIDE DEF n2, a2
<1>5. u.pc # "streaming"
  BY <1>0 DEF MessageOK, StreamOK
<1>6. UnaskedOK(u, a2) /\ ApiOK(u, a2) /\ FullOK(u, a2) /\ TextOK(u, a2) /\ WholeOK(u, a2)
  <2>1. UnaskedOK(u, a2) /\ FullOK(u, a2) /\ WholeOK(u, a2)
    BY <1>0, <1>4 DEF MessageOK, UnaskedOK, FullOK, WholeOK
  <2>2. ApiOK(u, a2)
    BY <1>0, <1>4 DEF MessageOK, ApiOK
  <2>3. TextOK(u, a2)
    BY <1>0, <1>4 DEF MessageOK, TextOK
  <2>4. QED
    BY <2>1, <2>2, <2>3
<1>7. QED
  BY <1>0, <1>2, <1>4, <1>5, <1>6, ApiMessage DEF MessageOK, StreamOK

LEMMA BreakOK ==
  ASSUME ChatInv, NEW m \in Messages, Break(m)
  PROVE  ChatInv'
<1> DEFINE u == ui[m]
           n == net[m]
           a == api[m]
           n2 == [n EXCEPT !.state = "broken"]
<1>0. /\ u \in Handlers /\ n \in Responses /\ a \in ApiStates
      /\ MessageOK(u, n, a) /\ a.sent <= MaxTokens[m]
      /\ n.state = "open" /\ UNCHANGED <<mode, ui>>
      /\ api' = [api EXCEPT ![m] = a] /\ net' = [net EXCEPT ![m] = n2]
  BY DEF ChatInv, Break
<1>1. n2 \in Responses /\ n2.events = n.events /\ n2.state = "broken"
  BY <1>0 DEF Responses
<1> HIDE DEF n2
<1>2. StreamOK(u, n2, a)
  <2> SUFFICES ASSUME u.pc = "streaming" PROVE StreamOK(u, n2, a)
    BY DEF StreamOK
  <2>1. Flows(u, n2, a)
    BY <1>0, <1>1 DEF MessageOK, StreamOK, Rejected, Flows
  <2>2. QED
    BY <1>0, <1>1, <2>1 DEF MessageOK, StreamOK
<1>3. QED
  BY <1>0, <1>1, <1>2, ApiMessage DEF MessageOK

LEMMA EndEarlyOK ==
  ASSUME ChatInv, NEW m \in Messages, EndEarly(m)
  PROVE  ChatInv'
<1> DEFINE u == ui[m]
           n == net[m]
           a == api[m]
           n2 == [n EXCEPT !.state = "ended"]
           a2 == [a EXCEPT !.pc = "gone"]
<1>0. /\ u \in Handlers /\ n \in Responses /\ a \in ApiStates
      /\ MessageOK(u, n, a) /\ a.sent <= MaxTokens[m]
      /\ n.state = "open" /\ a.pc = "started" /\ UNCHANGED <<mode, ui>>
      /\ api' = [api EXCEPT ![m] = a2] /\ net' = [net EXCEPT ![m] = n2]
  BY DEF ChatInv, EndEarly
<1>1. /\ n2 \in Responses /\ n2.events = n.events /\ n2.state = "ended"
      /\ a2 \in ApiStates /\ a2.pc = "gone" /\ a2.sent = a.sent /\ a2.turns = a.turns
      /\ a2.asked = a.asked /\ a2.outcome = a.outcome
  BY <1>0 DEF Responses, ApiStates
<1> HIDE DEF n2, a2
<1>2. StreamOK(u, n2, a2)
  <2> SUFFICES ASSUME u.pc = "streaming" PROVE StreamOK(u, n2, a2)
    BY DEF StreamOK
  <2>1. Flows(u, n2, a2)
    BY <1>0, <1>1 DEF MessageOK, StreamOK, Rejected, Flows
  <2>2. QED
    BY <1>0, <1>1, <2>1 DEF MessageOK, StreamOK
<1>3. UnaskedOK(u, a2) /\ ApiOK(u, a2) /\ FullOK(u, a2) /\ TextOK(u, a2) /\ WholeOK(u, a2)
  BY <1>0, <1>1 DEF MessageOK, UnaskedOK, ApiOK, FullOK, TextOK, WholeOK
<1>4. QED
  BY <1>0, <1>1, <1>2, <1>3, ApiMessage DEF MessageOK

-----------------------------------------------------------------------------
(* The handler                                                              *)

LEMMA TakenTail ==
  ASSUME ChatInv, NEW m \in Messages, Taken(m), net[m].events # <<>>
  PROVE  \E n \in Responses : /\ net' = [net EXCEPT ![m] = n]
                              /\ n.state = net[m].state /\ n.events = Tail(net[m].events)
<1> DEFINE n == [net[m] EXCEPT !.events = Tail(@)]
<1>1. net[m] \in Responses /\ net[m].events \in Seq(EventKinds)
  BY DEF ChatInv, Responses
<1>2. Tail(net[m].events) \in Seq(EventKinds)
  BY <1>1
<1>3. n \in Responses /\ n.state = net[m].state /\ n.events = Tail(net[m].events)
  BY <1>1, <1>2 DEF Responses
<1>4. net' = [net EXCEPT ![m] = n]
  BY DEF Taken, ChatInv
<1>5. QED
  BY <1>3, <1>4

(* What came of a stream and what is on its way, when its handler takes the *)
(* next event of it.                                                        *)
LEMMA NextEvent ==
  ASSUME ChatInv, NEW m \in Messages, NEW event, Arrives(m, "streaming", event),
         event \notin Rejections
  PROVE  /\ ui[m].pc = "streaming" /\ ~ui[m].done /\ net[m].events # <<>>
         /\ api[m].pc # "streaming" /\ api[m].asked = 1
         /\ \E s, l \in {0, 1}, p \in Nat :
              /\ l = 1 => api[m].outcome \in LastEvents
              /\ Len(ui[m].streamed) + p <= api[m].sent
              /\ net[m].state # "broken" \/ l = 1 => Len(ui[m].streamed) + p = api[m].sent
              /\ event = "status" => OnTheWay(Tail(net[m].events), 0, p, l, api[m].outcome)
              /\ event = "token" =>
                   p - 1 \in Nat /\ OnTheWay(Tail(net[m].events), 0, p - 1, l, api[m].outcome)
              /\ event \notin {"status", "token"} =>
                   p = 0 /\ l = 1 /\ api[m].outcome = event /\ Tail(net[m].events) = <<>>
<1>1. /\ ui[m].pc = "streaming" /\ net[m].events # <<>> /\ Head(net[m].events) = event
      /\ StreamOK(ui[m], net[m], api[m])
      /\ net[m].events \in Seq(EventKinds) /\ api[m].outcome \in {"none"} \cup LastEvents
  BY DEF Arrives, ChatInv, MessageOK, Responses, ApiStates
<1>2. ~Rejected(net[m], api[m])
  BY <1>1 DEF Rejected
<1>3. PICK s, l \in {0, 1}, p \in Nat :
        /\ OnTheWay(net[m].events, s, p, l, api[m].outcome)
        /\ l = 1 => api[m].outcome # "none"
        /\ Len(ui[m].streamed) + p <= api[m].sent
        /\ net[m].state # "broken" \/ l = 1 => Len(ui[m].streamed) + p = api[m].sent
  BY <1>1, <1>2 DEF StreamOK, Flows
<1>4. l = 1 => api[m].outcome \in LastEvents
  BY <1>1, <1>3
<1>5. /\ event = "status" => OnTheWay(Tail(net[m].events), 0, p, l, api[m].outcome)
      /\ event = "token" =>
           p - 1 \in Nat /\ OnTheWay(Tail(net[m].events), 0, p - 1, l, api[m].outcome)
      /\ event \notin {"status", "token"} =>
           p = 0 /\ l = 1 /\ api[m].outcome = event /\ Tail(net[m].events) = <<>>
  BY <1>1, <1>3, <1>4, TakeHead
<1>6. ~ui[m].done /\ api[m].pc # "streaming" /\ api[m].asked = 1
  BY <1>1 DEF StreamOK
<1>7. QED
  BY <1>1, <1>3, <1>4, <1>5, <1>6

LEMMA OnStatusOK ==
  ASSUME ChatInv, NEW m \in Messages, OnStatus(m)
  PROVE  ChatInv'
<1> DEFINE u == ui[m]
           a == api[m]
<1>0. /\ u \in Handlers /\ a \in ApiStates /\ MessageOK(u, net[m], a) /\ a.sent <= MaxTokens[m]
      /\ Arrives(m, "streaming", "status") /\ UNCHANGED <<mode, ui>>
      /\ api' = [api EXCEPT ![m] = a]
  BY DEF ChatInv, OnStatus
<1>1. /\ u.pc = "streaming" /\ ~u.done /\ net[m].events # <<>> /\ a.pc # "streaming"
      /\ \E s, l \in {0, 1}, p \in Nat :
           /\ l = 1 => a.outcome \in LastEvents
           /\ Len(u.streamed) + p <= a.sent
           /\ net[m].state # "broken" \/ l = 1 => Len(u.streamed) + p = a.sent
           /\ OnTheWay(Tail(net[m].events), 0, p, l, a.outcome)
  BY <1>0, NextEvent DEF Rejections
<1>2. PICK n \in Responses : /\ net' = [net EXCEPT ![m] = n]
                             /\ n.state = net[m].state /\ n.events = Tail(net[m].events)
  BY <1>1, TakenTail DEF OnStatus
<1>3. Flows(u, n, a)
  BY <1>1, <1>2 DEF Flows, LastEvents
<1>4. StreamOK(u, n, a)
  BY <1>0, <1>1, <1>2, <1>3 DEF MessageOK, StreamOK
<1>5. QED
  BY <1>0, <1>2, <1>4, ApiMessage DEF MessageOK

LEMMA OnDoneOK ==
  ASSUME ChatInv, NEW m \in Messages, OnDone(m)
  PROVE  ChatInv'
<1> DEFINE u == ui[m]
           a == api[m]
           u2 == [u EXCEPT !.done = TRUE]
<1>0. /\ u \in Handlers /\ a \in ApiStates /\ MessageOK(u, net[m], a) /\ a.sent <= MaxTokens[m]
      /\ ModeOK(u, mode)
      /\ Arrives(m, "streaming", "done") /\ UNCHANGED mode
      /\ api' = [api EXCEPT ![m] = a] /\ ui' = [ui EXCEPT ![m] = u2]
  BY DEF ChatInv, OnDone
<1>1. /\ u.pc = "streaming" /\ net[m].events # <<>> /\ a.pc # "streaming"
      /\ a.outcome = "done" /\ Tail(net[m].events) = <<>> /\ Len(u.streamed) + 0 = a.sent
  BY <1>0, NextEvent DEF Rejections
<1>2. PICK n \in Responses : /\ net' = [net EXCEPT ![m] = n]
                             /\ n.state = net[m].state /\ n.events = Tail(net[m].events)
  BY <1>1, TakenTail DEF OnDone
<1>3. /\ u2 \in Handlers /\ u2.pc = u.pc /\ u2.mode = u.mode /\ u2.streamed = u.streamed
      /\ u2.shown = u.shown /\ u2.buffer = u.buffer /\ u2.visible = u.visible
      /\ u2.notice = u.notice /\ u2.retry = u.retry /\ u2.switched = u.switched
  BY <1>0 DEF Handlers
<1> HIDE DEF u2
<1>4. Len(u.streamed) = a.sent
  <2>1. u.streamed \in Seq(Nat)
    BY <1>0 DEF Handlers
  <2>2. QED
    BY <1>1, <2>1
<1>5. Flows(u2, n, a)
  <2>1. OnTheWay(n.events, 0, 0, 0, a.outcome)
    BY <1>1, <1>2, SendStatus
  <2>2. Len(u2.streamed) + 0 = a.sent /\ Len(u2.streamed) + 0 <= a.sent
    BY <1>0, <1>1, <1>3 DEF ApiStates
  <2>3. QED
    BY <2>1, <2>2 DEF Flows
<1>6. StreamOK(u2, n, a)
  BY <1>0, <1>1, <1>2, <1>3, <1>4, <1>5 DEF MessageOK, StreamOK
<1>7. /\ UnaskedOK(u2, a) /\ ApiOK(u2, a) /\ FullOK(u2, a) /\ TextOK(u2, a) /\ WholeOK(u2, a)
      /\ ModeOK(u2, mode)
  BY <1>0, <1>1, <1>3 DEF MessageOK, UnaskedOK, ApiOK, FullOK, TextOK, WholeOK, ModeOK
<1>8. QED
  BY <1>0, <1>2, <1>3, <1>6, <1>7, OneMessage DEF MessageOK

(* The tokens that were shown and those in the buffer are the ones that     *)
(* came, whether the new one is flushed or not.                             *)
LEMMA BufferToken ==
  ASSUME NEW shown \in Seq(Nat), NEW buffer \in Seq(Nat), NEW t \in Nat
  PROVE  /\ Append(buffer, t) \in Seq(Nat) /\ shown \o Append(buffer, t) \in Seq(Nat)
         /\ shown \o Append(buffer, t) = Append(shown \o buffer, t)
         /\ (shown \o Append(buffer, t)) \o <<>> = Append(shown \o buffer, t)
<1>1. Append(buffer, t) \in Seq(Nat) /\ shown \o Append(buffer, t) \in Seq(Nat)
  OBVIOUS
<1>2. shown \o Append(buffer, t) = Append(shown \o buffer, t)
  OBVIOUS
<1>3. (shown \o Append(buffer, t)) \o <<>> = shown \o Append(buffer, t)
  BY <1>1
<1>4. QED
  BY <1>1, <1>2, <1>3

LEMMA OnTokenOK ==
  ASSUME ChatInv, NEW m \in Messages, OnToken(m)
  PROVE  ChatInv'
<1> DEFINE u == ui[m]
           a == api[m]
           token == Len(u.streamed) + 1
<1>0. /\ u \in Handlers /\ a \in ApiStates /\ MessageOK(u, net[m], a) /\ a.sent <= MaxTokens[m]
      /\ ModeOK(u, mode)
      /\ Arrives(m, "streaming", "token") /\ UNCHANGED mode
      /\ api' = [api EXCEPT ![m] = a]
  BY DEF ChatInv, OnToken
<1>t. /\ u.streamed \in Seq(Nat) /\ u.shown \in Seq(Nat) /\ u.buffer \in Seq(Nat)
      /\ Len(u.streamed) \in Nat /\ token \in Nat /\ a.sent \in Nat
  <2>1. u.streamed \in Seq(Nat) /\ u.shown \in Seq(Nat) /\ u.buffer \in Seq(Nat) /\ a.sent \in Nat
    BY <1>0 DEF Handlers, ApiStates
  <2>2. QED
    BY <2>1
<1>1. /\ u.pc = "streaming" /\ ~u.done /\ net[m].events # <<>> /\ a.pc # "streaming" /\ a.asked = 1
      /\ \E s, l \in {0, 1}, p \in Nat :
           /\ l = 1 => a.outcome \in LastEvents
           /\ Len(u.streamed) + p <= a.sent
           /\ net[m].state # "broken" \/ l = 1 => Len(u.streamed) + p = a.sent
           /\ p - 1 \in Nat /\ OnTheWay(Tail(net[m].events), 0, p - 1, l, a.outcome)
  BY <1>0, NextEvent DEF Rejections
<1>2. PICK n \in Responses : /\ net' = [net EXCEPT ![m] = n]
                             /\ n.state = net[m].state /\ n.events = Tail(net[m].events)
  BY <1>1, TakenTail DEF OnToken
<1>3. PICK flush \in BOOLEAN :
        ui' = [ui EXCEPT ![m].visible = {"response"}, ![m].streamed = Append(@, token),
                 ![m].buffer = IF flush THEN <<>> ELSE Append(u.buffer, token),
                 ![m].shown = IF flush THEN @ \o Append(u.buffer, token) ELSE @]
  BY DEF OnToken, MayFlush
<1> DEFINE streamed == Append(u.streamed, token)
           buffer == IF flush THEN <<>> ELSE Append(u.buffer, token)
           shown == IF flush THEN u.shown \o Append(u.buffer, token) ELSE u.shown
           u2 == [u EXCEPT !.visible = {"response"}, !.streamed = streamed, !.buffer = buffer,
                           !.shown = shown]
<1>4. ui' = [ui EXCEPT ![m] = u2]
  BY <1>3 DEF ChatInv
<1>5. shown \in Seq(Nat) /\ buffer \in Seq(Nat) /\ shown \o buffer = streamed
  <2>1. u.shown \o u.buffer = u.streamed
    BY <1>0, <1>1 DEF MessageOK, TextOK
  <2>2. /\ Append(u.buffer, token) \in Seq(Nat)
        /\ u.shown \o Append(u.buffer, token) \in Seq(Nat)
        /\ u.shown \o Append(u.buffer, token) = Append(u.shown \o u.buffer, token)
        /\ (u.shown \o Append(u.buffer, token)) \o <<>> = Append(u.shown \o u.buffer, token)
    BY <1>t, BufferToken
  <2>3. /\ u.shown \o Append(u.buffer, token) = streamed
        /\ (u.shown \o Append(u.buffer, token)) \o <<>> = streamed
    BY <2>1, <2>2
  <2> HIDE DEF token
  <2>4. CASE flush
    <3>1. buffer = <<>> /\ shown = u.shown \o Append(u.buffer, token)
      BY <2>4
    <3>2. <<>> \in Seq(Nat)
      OBVIOUS
    <3> HIDE DEF buffer, shown, streamed
    <3>3. QED
      BY <2>2, <2>3, <3>1, <3>2
  <2>5. CASE ~flush
    <3>1. buffer = Append(u.buffer, token) /\ shown = u.shown
      BY <2>5
    <3>2. QED
      BY <1>t, <2>2, <2>3, <3>1
  <2>6. QED
    BY <2>4, <2>5
<1>6. /\ streamed \in Seq(Nat) /\ Len(streamed) = token /\ streamed # <<>>
      /\ streamed = Prefix(Len(streamed))
  <2>0. \A r \in Seq(Nat), t \in Nat :
          Append(r, t) \in Seq(Nat) /\ Len(Append(r, t)) = Len(r) + 1 /\ Append(r, t) # <<>>
    OBVIOUS
  <2>1. streamed \in Seq(Nat) /\ Len(streamed) = token /\ streamed # <<>>
    BY <1>t, <2>0, Zenon
  <2>2. u.streamed = Prefix(Len(u.streamed))
    BY <1>0 DEF MessageOK, TextOK
  <2>3. PICK k \in Nat : k = Len(u.streamed)
    BY <1>t
  <2>4. u.streamed = Prefix(k) /\ token = k + 1
    BY <2>2, <2>3
  <2>5. streamed = Append(Prefix(k), k + 1)
    BY <2>4
  <2>6. streamed = Prefix(token)
    BY <2>4, <2>5, AppendPrefix
  <2>7. QED
    BY <2>1, <2>6
<1> HIDE DEF streamed, buffer, shown
<1>7. /\ u2 \in Handlers /\ u2.pc = u.pc /\ u2.mode = u.mode /\ u2.streamed = streamed
      /\ u2.shown = shown /\ u2.buffer = buffer /\ u2.visible = {"response"}
      /\ u2.notice = u.notice /\ u2.retry = u.retry /\ u2.switched = u.switched
      /\ u2.done = u.done
  BY <1>0, <1>5, <1>6 DEF Handlers
<1> HIDE DEF u2
<1>8. Flows(u2, n, a) /\ Len(streamed) <= a.sent
  <2>1. PICK s, l \in {0, 1}, p \in Nat :
          /\ l = 1 => a.outcome \in LastEvents
          /\ Len(u.streamed) + p <= a.sent
          /\ net[m].state # "broken" \/ l = 1 => Len(u.streamed) + p = a.sent
          /\ p - 1 \in Nat /\ OnTheWay(Tail(net[m].events), 0, p - 1, l, a.outcome)
    BY <1>1
  <2>2. PICK k \in Nat, c \in Nat : k = Len(u.streamed) /\ c = a.sent
    BY <1>t
  <2>3. Len(streamed) = k + 1 /\ k + p <= c
    BY <1>6, <2>1, <2>2
  <2>4. (k + 1) + (p - 1) = k + p /\ k + 1 <= c
    BY <2>1, <2>3
  <2>5. /\ OnTheWay(n.events, 0, p - 1, l, a.outcome)
        /\ l = 1 => a.outcome # "none"
        /\ (k + 1) + (p - 1) <= c
        /\ n.state # "broken" \/ l = 1 => (k + 1) + (p - 1) = c
    BY <1>2, <2>1, <2>2, <2>4 DEF LastEvents
  <2>6. Len(u2.streamed) = k + 1
    BY <1>7, <2>3
  <2>7. Flows(u2, n, a)
    BY <2>1, <2>2, <2>5, <2>6 DEF Flows
  <2>8. QED
    BY <2>2, <2>3, <2>4, <2>7
<1>9. StreamOK(u2, n, a)
  BY <1>0, <1>1, <1>2, <1>7, <1>8 DEF MessageOK, StreamOK
<1>10. UnaskedOK(u2, a) /\ ApiOK(u2, a) /\ FullOK(u2, a) /\ WholeOK(u2, a) /\ ModeOK(u2, mode)
  BY <1>0, <1>1, <1>7 DEF MessageOK, UnaskedOK, ApiOK, FullOK, WholeOK, ModeOK
<1>11. TextOK(u2, a)
  BY <1>1, <1>5, <1>6, <1>7, <1>8 DEF TextOK
<1>12. QED
  BY <1>0, <1>2, <1>4, <1>7, <1>9, <1>10, <1>11, OneMessage DEF MessageOK

(* An answer is final: what is left is that it is the one its notice says.  *)
LEMMA FinishOK ==
  ASSUME ChatInv, NEW m \in Messages, NEW shown \in Seq(Nat), NEW notice \in Notices,
         Finish(m, shown, notice), ui[m].pc \in {"streaming", "full"},
         notice = "none" /\ shown # FullText =>
           api[m].outcome = "done" /\ shown = Prefix(api[m].sent) /\ shown # <<>>,
         notice \in {"cancelled", "error"} => api[m].outcome = notice,
         notice \in {"interrupted", "incomplete"} => shown = ui[m].streamed /\ shown # <<>>
  PROVE  ChatInv'
<1> DEFINE u == ui[m]
           a == api[m]
           u2 == [u EXCEPT !.pc = "answered", !.shown = shown, !.notice = notice,
                           !.buffer = <<>>, !.retry = mode]
<1>0. /\ u \in Handlers /\ a \in ApiStates /\ MessageOK(u, net[m], a) /\ a.sent <= MaxTokens[m]
      /\ ModeOK(u, mode) /\ mode \in Modes /\ UNCHANGED mode
      /\ api' = [api EXCEPT ![m] = a] /\ net' = [net EXCEPT ![m] = Broken]
      /\ ui' = [ui EXCEPT ![m] = u2]
  BY DEF ChatInv, Finish
<1>1. /\ u2 \in Handlers /\ u2.pc = "answered" /\ u2.mode = u.mode /\ u2.streamed = u.streamed
      /\ u2.shown = shown /\ u2.visible = u.visible
      /\ u2.notice = notice /\ u2.retry = mode /\ u2.switched = u.switched
  <2>1. <<>> \in Seq(Nat)
    OBVIOUS
  <2>2. QED
    BY <1>0, <2>1 DEF Handlers
<1> HIDE DEF u2
<1>2. Broken \in Responses
  BY DEF Broken, Responses
<1>3. /\ UnaskedOK(u2, a) /\ ApiOK(u2, a) /\ StreamOK(u2, Broken, a) /\ FullOK(u2, a)
      /\ ModeOK(u2, mode)
  BY <1>0, <1>1 DEF MessageOK, UnaskedOK, ApiOK, StreamOK, FullOK, ModeOK
<1>4. TextOK(u2, a) /\ WholeOK(u2, a)
  BY <1>0, <1>1 DEF MessageOK, TextOK, WholeOK
<1>5. QED
  BY <1>0, <1>1, <1>2, <1>3, <1>4, OneMessage DEF MessageOK

LEMMA OnFailedEventOK ==
  ASSUME ChatInv, NEW m \in Messages, OnFailedEvent(m)
  PROVE  ChatInv'
<1>1. PICK event \in {"cancelled", "error"} :
        Arrives(m, "streaming", event) /\ Finish(m, ui[m].streamed, event)
  BY DEF OnFailedEvent
<1>2. ui[m].pc = "streaming" /\ api[m].outcome = event
  BY <1>1, NextEvent DEF Rejections
<1>3. ui[m].streamed \in Seq(Nat) /\ event \in Notices
  BY DEF ChatInv, Handlers, Notices
<1>4. QED
  BY <1>1, <1>2, <1>3, FinishOK

LEMMA OnStreamErrorOK ==
  ASSUME ChatInv, NEW m \in Messages, OnStreamError(m)
  PROVE  ChatInv'
<1>1. /\ ui[m].pc = "streaming"
      /\ Finish(m, ui[m].streamed,
                IF ui[m].streamed = <<>> THEN "streaming error" ELSE "interrupted")
  BY DEF OnStreamError, Arrives
<1>2. ui[m].streamed \in Seq(Nat)
  BY DEF ChatInv, Handlers
<1>3. CASE ui[m].streamed = <<>>
  <2>1. Finish(m, ui[m].streamed, "streaming error")
    BY <1>1, <1>3
  <2>2. "streaming error" \in Notices
    BY DEF Notices
  <2>3. QED
    BY <1>1, <1>2, <2>1, <2>2, FinishOK
<1>4. CASE ui[m].streamed # <<>>
  <2>1. Finish(m, ui[m].streamed, "interrupted")
    BY <1>1, <1>4
  <2>2. "interrupted" \in Notices
    BY DEF Notices
  <2>3. QED
    BY <1>1, <1>2, <1>4, <2>1, <2>2, FinishOK
<1>5. QED
  BY <1>3, <1>4

LEMMA EndOfStreamOK ==
  ASSUME ChatInv, NEW m \in Messages, EndOfStream(m)
  PROVE  ChatInv'
<1> DEFINE u == ui[m]
<1>1. /\ u.pc = "streaming" /\ u.streamed # <<>> /\ u \in Handlers
      /\ u.streamed \in Seq(Nat) /\ u.shown \in Seq(Nat) /\ u.buffer \in Seq(Nat)
      /\ TextOK(u, api[m]) /\ StreamOK(u, net[m], api[m])
  BY DEF EndOfStream, StreamEnded, ChatInv, MessageOK, Handlers
<1>2. CASE u.done
  <2>1. Finish(m, u.shown \o u.buffer, "none")
    BY <1>2 DEF EndOfStream
  <2>2. u.shown \o u.buffer = u.streamed /\ u.streamed = Prefix(api[m].sent)
        /\ api[m].outcome = "done"
    BY <1>1, <1>2 DEF TextOK, StreamOK
  <2>3. Finish(m, u.streamed, "none") /\ "none" \in Notices
    BY <2>1, <2>2 DEF Notices
  <2>4. QED
    BY <1>1, <2>2, <2>3, FinishOK
<1>3. CASE ~u.done
  <2>1. Finish(m, u.streamed, "incomplete") /\ "incomplete" \in Notices
    BY <1>3 DEF EndOfStream, Notices
  <2>2. QED
    BY <1>1, <2>1, FinishOK
<1>4. QED
  BY <1>2, <1>3

(* A stream that has ended without a token was sent none: the second        *)
(* request is for a message the API remembers nothing of.                   *)
LEMMA FallbackOK ==
  ASSUME ChatInv, NEW m \in Messages, Fallback(m)
  PROVE  ChatInv'
<1> DEFINE u == ui[m]
           a == api[m]
           u2 == [u EXCEPT !.pc = "full", !.done = FALSE]
           a2 == [a EXCEPT !.pc = "full", !.asked = @ + 1]
<1>0. /\ u \in Handlers /\ a \in ApiStates /\ MessageOK(u, net[m], a) /\ a.sent <= MaxTokens[m]
      /\ ModeOK(u, mode) /\ UNCHANGED mode
      /\ u.pc = "streaming" /\ net[m] = Ended /\ u.streamed = <<>>
      /\ ui' = [ui EXCEPT ![m] = u2] /\ net' = [net EXCEPT ![m] = NewResponse]
      /\ api' = [api EXCEPT ![m] = a2]
  BY DEF ChatInv, Fallback, StreamEnded, Ask
<1>1. a.pc = "gone" /\ a.asked = 1 /\ (a.turns > 0 => a.sent > 0)
      /\ (Rejected(net[m], a) \/ Flows(u, net[m], a))
  BY <1>0 DEF MessageOK, StreamOK, Ended
<1>2. a.sent = 0 /\ a.turns = 0
  <2>1. net[m].events = <<>> /\ net[m].state = "ended" /\ a.sent \in Nat /\ a.turns \in Nat
    BY <1>0 DEF Ended, ApiStates
  <2>2. ~Rejected(net[m], a)
    BY <2>1 DEF Rejected
  <2>3. PICK s, l \in {0, 1}, p \in Nat :
          OnTheWay(<<>>, s, p, l, a.outcome) /\ Len(u.streamed) + p = a.sent
    BY <1>1, <2>1, <2>2 DEF Flows
  <2>4. p = 0
    BY <2>3, NothingOnTheWay
  <2>5. Len(u.streamed) = 0
    BY <1>0
  <2>6. QED
    BY <1>1, <2>1, <2>3, <2>4, <2>5
<1>3. /\ u2 \in Handlers /\ u2.pc = "full" /\ u2.mode = u.mode /\ u2.streamed = u.streamed
      /\ u2.visible = u.visible /\ u2.switched = u.switched
  BY <1>0 DEF Handlers
<1>4. /\ a2 \in ApiStates /\ a2.pc = "full" /\ a2.sent = 0 /\ a2.turns = 0 /\ a2.asked = 2
      /\ a2.outcome = a.outcome
  <2> DEFINE asked == [a EXCEPT !.pc = "full", !.asked = 2]
  <2>1. a2 = asked
    BY <1>1
  <2>2. /\ asked \in ApiStates /\ asked.pc = "full" /\ asked.sent = 0 /\ asked.turns = 0
        /\ asked.asked = 2 /\ asked.outcome = a.outcome
    BY <1>0, <1>2 DEF ApiStates
  <2> HIDE DEF asked, a2
  <2>3. QED
    BY <2>1, <2>2
<1> HIDE DEF u2, a2
<1>5. NewResponse \in Responses
  BY DEF NewResponse, Responses
<1>6. UnaskedOK(u2, a2) /\ StreamOK(u2, NewResponse, a2) /\ FullOK(u2, a2) /\ WholeOK(u2, a2)
  BY <1>0, <1>3, <1>4 DEF UnaskedOK, StreamOK, FullOK, WholeOK
<1>7. ApiOK(u2, a2)
  BY <1>0, <1>3, <1>4 DEF ApiOK
<1>8. TextOK(u2, a2) /\ ModeOK(u2, mode)
  <2>1. TextOK(u, a) /\ ModeOK(u, mode)
    BY <1>0 DEF MessageOK
  <2>2. TextOK(u2, a2)
    BY <1>0, <1>2, <1>3, <1>4, <2>1 DEF TextOK
  <2>3. ModeOK(u2, mode)
    BY <1>0, <1>3, <2>1 DEF ModeOK
  <2>4. QED
    BY <2>2, <2>3
<1>9. a2.sent <= MaxTokens[m]
  BY <1>0, <1>2, <1>4
<1>10. MessageOK(u2, NewResponse, a2)
  BY <1>6, <1>7, <1>8 DEF MessageOK
<1>11. QED
  BY <1>0, <1>3, <1>4, <1>5, <1>8, <1>9, <1>10, OneMessage

LEMMA OnAnswerOK ==
  ASSUME ChatInv, NEW m \in Messages, OnAnswer(m)
  PROVE  ChatInv'
<1>1. ui[m].pc = "full" /\ Finish(m, FullText, "none")
  BY DEF OnAnswer, Arrives
<1>2. FullText \in Seq(Nat) /\ "none" \in Notices
  BY DEF FullText, Notices
<1>3. QED
  BY <1>1, <1>2, FinishOK

LEMMA OnFullErrorOK ==
  ASSUME ChatInv, NEW m \in Messages, OnFullError(m)
  PROVE  ChatInv'
<1> DEFINE u == ui[m]
           a == api[m]
<1>1. PICK failure \in Failures :
        ui' = [ui EXCEPT ![m].pc = "answered", ![m].notice = failure, ![m].retry = ui[m].mode]
  BY DEF OnFullError
<1> DEFINE u2 == [u EXCEPT !.pc = "answered", !.notice = failure, !.retry = u.mode]
<1>0. /\ u \in Handlers /\ a \in ApiStates /\ MessageOK(u, net[m], a) /\ a.sent <= MaxTokens[m]
      /\ ModeOK(u, mode) /\ UNCHANGED mode /\ u.pc = "full"
      /\ api' = [api EXCEPT ![m] = a] /\ net' = [net EXCEPT ![m] = Broken]
      /\ ui' = [ui EXCEPT ![m] = u2]
  BY <1>1 DEF ChatInv, OnFullError, Arrives
<1>2. /\ u2 \in Handlers /\ u2.pc = "answered" /\ u2.mode = u.mode /\ u2.streamed = u.streamed
      /\ u2.visible = u.visible /\ u2.notice = failure /\ u2.retry = u.mode
  BY <1>0 DEF Handlers, Notices
<1> HIDE DEF u2
<1>3. Broken \in Responses
  BY DEF Broken, Responses
<1>4. /\ UnaskedOK(u2, a) /\ ApiOK(u2, a) /\ StreamOK(u2, Broken, a) /\ FullOK(u2, a)
      /\ ModeOK(u2, mode)
  BY <1>0, <1>2 DEF MessageOK, UnaskedOK, ApiOK, StreamOK, FullOK, ModeOK
<1>5. TextOK(u2, a) /\ WholeOK(u2, a)
  BY <1>0, <1>2 DEF MessageOK, TextOK, WholeOK, Failures, Rejections
<1>6. QED
  BY <1>0, <1>2, <1>3, <1>4, <1>5, OneMessage DEF MessageOK


-----------------------------------------------------------------------------
(* The user                                                                 *)

(* The first request for a message: the mode is the chat's of this moment.  *)
LEMMA HandleUserTextOK ==
  ASSUME ChatInv, NEW m \in Messages, ui[m].pc \in {"new", "selecting"}, HandleUserText(m)
  PROVE  ChatInv'
<1> DEFINE u == ui[m]
           a == api[m]
           pc == IF ShouldStream(ApiModeValue(mode)) THEN "streaming" ELSE "full"
           u2 == [u EXCEPT !.pc = pc, !.mode = mode, !.visible = {"status"}]
           a2 == [a EXCEPT !.pc = pc, !.asked = @ + 1]
<1>0. /\ u \in Handlers /\ a \in ApiStates /\ mode \in Modes /\ UNCHANGED mode
      /\ UnaskedOK(u, a) /\ TextOK(u, a) /\ a.sent <= MaxTokens[m] /\ u.pc \in {"new", "selecting"}
      /\ ui' = [ui EXCEPT ![m] = u2] /\ net' = [net EXCEPT ![m] = NewResponse]
      /\ api' = [api EXCEPT ![m] = a2]
  BY DEF ChatInv, MessageOK, HandleUserText, Ask
<1>1. pc \in {"streaming", "full"}
  OBVIOUS
<1> HIDE DEF pc
<1>2. /\ u.streamed = <<>> /\ u.shown = <<>> /\ u.buffer = <<>> /\ ~u.done
      /\ a.sent = 0 /\ a.outcome = "none" /\ a.turns = 0 /\ a.asked = 0
  BY <1>0 DEF UnaskedOK
<1>3. /\ u2 \in Handlers /\ u2.pc = pc /\ u2.mode = mode /\ u2.visible = {"status"}
      /\ u2.streamed = <<>> /\ u2.shown = <<>> /\ u2.buffer = <<>> /\ ~u2.done
  BY <1>0, <1>1, <1>2 DEF Handlers
<1>4. /\ a2 \in ApiStates /\ a2.pc = pc /\ a2.sent = 0 /\ a2.outcome = "none" /\ a2.turns = 0
      /\ a2.asked = 1
  <2> DEFINE asked == [a EXCEPT !.pc = pc, !.asked = 1]
  <2>1. a2 = asked
    BY <1>2
  <2>2. /\ asked \in ApiStates /\ asked.pc = pc /\ asked.sent = 0 /\ asked.outcome = "none"
        /\ asked.turns = 0 /\ asked.asked = 1
    BY <1>0, <1>1, <1>2 DEF ApiStates
  <2> HIDE DEF asked, a2
  <2>3. QED
    BY <2>1, <2>2
<1> HIDE DEF u2, a2
<1>5. /\ NewResponse \in Responses /\ NewResponse.events = <<>> /\ NewResponse.state = "open"
  BY DEF NewResponse, Responses
<1>6. Flows(u2, NewResponse, a2)
  <2>1. OnTheWay(NewResponse.events, 0, 0, 0, a2.outcome)
    BY <1>5, SendStatus
  <2>2. Len(u2.streamed) + 0 = a2.sent /\ Len(u2.streamed) + 0 <= a2.sent
    BY <1>3, <1>4
  <2>3. QED
    BY <2>1, <2>2 DEF Flows
<1>7. StreamOK(u2, NewResponse, a2)
  BY <1>3, <1>4, <1>5, <1>6 DEF StreamOK
<1>8. /\ UnaskedOK(u2, a2) /\ ApiOK(u2, a2) /\ FullOK(u2, a2) /\ WholeOK(u2, a2)
      /\ ModeOK(u2, mode)
  BY <1>1, <1>3, <1>4 DEF UnaskedOK, ApiOK, FullOK, WholeOK, ModeOK
<1>9. TextOK(u2, a2)
  <2>1. Len(u2.streamed) = 0 /\ u2.streamed = Prefix(0)
    BY <1>3, AppendPrefix
  <2>2. u2.shown \o u2.buffer = <<>>
    BY <1>3
  <2>3. QED
    BY <1>3, <1>4, <2>1, <2>2 DEF TextOK
<1>10. a2.sent <= MaxTokens[m]
  BY <1>0, <1>2, <1>4
<1>11. QED
  BY <1>0, <1>3, <1>4, <1>5, <1>7, <1>8, <1>9, <1>10, OneMessage DEF MessageOK

(* The handlers that `selected` may be chosen with: all as they are, or one *)
(* just called, and one whose retry was taken from it.                      *)
Selecting(handlers) ==
  /\ handlers \in [Messages -> Handlers]
  /\ \A m \in Messages :
       /\ MessageOK(handlers[m], net[m], api[m]) /\ ModeOK(handlers[m], mode)
       /\ handlers[m].pc \in {"streaming", "full"} => ui[m].pc \in {"streaming", "full"}

(* Every request at work is told that the mode has changed under it.        *)
LEMMA SelectOK ==
  ASSUME ChatInv, NEW handlers, Selecting(handlers), NEW selected \in Modes,
         Select(handlers, selected), UNCHANGED <<net, api>>
  PROVE  ChatInv'
<1> DEFINE u2(m) == [handlers[m] EXCEPT !.switched =
                       @ \/ (selected # mode /\ ui[m].pc \in {"streaming", "full"})]
<1>1. mode' = selected /\ ui' = [m \in Messages |-> u2(m)]
  BY DEF Select
<1>2. ASSUME NEW m \in Messages
      PROVE  /\ u2(m) \in Handlers
             /\ MessageOK(u2(m), net[m], api[m]) /\ ModeOK(u2(m), selected)
  <2> DEFINE u == handlers[m]
             switched == u.switched \/ (selected # mode /\ ui[m].pc \in {"streaming", "full"})
             v == [u EXCEPT !.switched = switched]
  <2>0. /\ u \in Handlers /\ MessageOK(u, net[m], api[m]) /\ ModeOK(u, mode)
        /\ u.pc \in {"streaming", "full"} => ui[m].pc \in {"streaming", "full"}
    BY DEF Selecting
  <2>1. switched \in BOOLEAN /\ u2(m) = v
    BY <2>0 DEF Handlers
  <2>2. /\ u.switched => switched
        /\ selected # mode /\ u.pc \in {"streaming", "full"} => switched
    BY <2>0
  <2> HIDE DEF switched, u2
  <2>3. /\ v \in Handlers /\ v.pc = u.pc /\ v.mode = u.mode /\ v.visible = u.visible
        /\ v.streamed = u.streamed /\ v.shown = u.shown /\ v.buffer = u.buffer
        /\ v.done = u.done /\ v.notice = u.notice /\ v.retry = u.retry /\ v.switched = switched
    BY <2>0, <2>1 DEF Handlers
  <2> HIDE DEF v
  <2>4. /\ UnaskedOK(v, api[m]) /\ ApiOK(v, api[m]) /\ FullOK(v, api[m]) /\ TextOK(v, api[m])
        /\ WholeOK(v, api[m])
    BY <2>0, <2>3 DEF MessageOK, UnaskedOK, ApiOK, FullOK, TextOK, WholeOK
  <2>5. StreamOK(v, net[m], api[m])
    BY <2>0, <2>3 DEF MessageOK, StreamOK, Flows
  <2>6. ModeOK(v, selected)
    BY <2>0, <2>2, <2>3 DEF ModeOK
  <2>7. QED
    BY <2>1, <2>3, <2>4, <2>5, <2>6 DEF MessageOK
<1> HIDE DEF u2
<1>3. QED
  BY <1>1, <1>2 DEF ChatInv

(* A handler that was called has asked nothing yet.                         *)
LEMMA CalledOK ==
  ASSUME ChatInv, NEW m \in Messages, ui[m].pc = "new"
  PROVE  Selecting([ui EXCEPT ![m].pc = "selecting"])
<1> DEFINE u == ui[m]
           v == [u EXCEPT !.pc = "selecting"]
<1>0. /\ u \in Handlers /\ MessageOK(u, net[m], api[m]) /\ ModeOK(u, mode)
      /\ [ui EXCEPT ![m].pc = "selecting"] = [ui EXCEPT ![m] = v]
  BY DEF ChatInv
<1>1. /\ v \in Handlers /\ v.pc = "selecting" /\ v.streamed = u.streamed /\ v.shown = u.shown
      /\ v.buffer = u.buffer /\ v.done = u.done /\ v.retry = u.retry
  BY <1>0 DEF Handlers
<1> HIDE DEF v
<1>2. MessageOK(v, net[m], api[m]) /\ ModeOK(v, mode)
  BY <1>0, <1>1 DEF MessageOK, UnaskedOK, ApiOK, StreamOK, FullOK, TextOK, WholeOK, ModeOK
<1>3. [ui EXCEPT ![m] = v] \in [Messages -> Handlers]
  BY <1>1 DEF ChatInv
<1>4. ASSUME NEW k \in Messages
      PROVE  /\ MessageOK([ui EXCEPT ![m] = v][k], net[k], api[k])
             /\ ModeOK([ui EXCEPT ![m] = v][k], mode)
             /\ [ui EXCEPT ![m] = v][k].pc \in {"streaming", "full"}
                  => ui[k].pc \in {"streaming", "full"}
  <2>1. CASE k = m
    BY <1>1, <1>2, <2>1 DEF ChatInv
  <2>2. CASE k # m
    BY <2>2 DEF ChatInv
  <2>3. QED
    BY <2>1, <2>2
<1>5. QED
  BY <1>0, <1>3, <1>4 DEF Selecting

(* A retry that is taken leaves the answer it was offered with.             *)
LEMMA RetryTakenOK ==
  ASSUME ChatInv, NEW handlers, Selecting(handlers), NEW answered \in Messages
  PROVE  Selecting([handlers EXCEPT ![answered].retry = NoMode])
<1> DEFINE u == handlers[answered]
           v == [u EXCEPT !.retry = NoMode]
<1>0. /\ u \in Handlers /\ MessageOK(u, net[answered], api[answered]) /\ ModeOK(u, mode)
      /\ handlers \in [Messages -> Handlers]
      /\ u.pc \in {"streaming", "full"} => ui[answered].pc \in {"streaming", "full"}
      /\ [handlers EXCEPT ![answered].retry = NoMode] = [handlers EXCEPT ![answered] = v]
  BY DEF Selecting
<1>1. /\ v \in Handlers /\ v.pc = u.pc /\ v.mode = u.mode /\ v.visible = u.visible
      /\ v.streamed = u.streamed /\ v.shown = u.shown /\ v.buffer = u.buffer
      /\ v.done = u.done /\ v.notice = u.notice /\ v.retry = NoMode /\ v.switched = u.switched
  BY <1>0 DEF Handlers
<1> HIDE DEF v
<1>2. /\ UnaskedOK(v, api[answered]) /\ ApiOK(v, api[answered]) /\ FullOK(v, api[answered])
      /\ TextOK(v, api[answered]) /\ WholeOK(v, api[answered]) /\ ModeOK(v, mode)
  <2>1. /\ UnaskedOK(u, api[answered]) /\ ApiOK(u, api[answered]) /\ FullOK(u, api[answered])
        /\ TextOK(u, api[answered]) /\ WholeOK(u, api[answered])
    BY <1>0 DEF MessageOK
  <2>2. UnaskedOK(v, api[answered])
    BY <1>1, <2>1 DEF UnaskedOK
  <2>3. ApiOK(v, api[answered]) /\ FullOK(v, api[answered])
    BY <1>1, <2>1 DEF ApiOK, FullOK
  <2>4. TextOK(v, api[answered])
    BY <1>1, <2>1 DEF TextOK
  <2>5. WholeOK(v, api[answered])
    BY <1>1, <2>1 DEF WholeOK
  <2>6. ModeOK(v, mode)
    BY <1>0, <1>1 DEF ModeOK
  <2> HIDE DEF u
  <2>7. QED
    BY <2>2, <2>3, <2>4, <2>5, <2>6
<1>3. StreamOK(v, net[answered], api[answered])
  BY <1>0, <1>1 DEF MessageOK, StreamOK, Flows
<1>4. MessageOK(v, net[answered], api[answered])
  BY <1>2, <1>3 DEF MessageOK
<1>5. QED
  BY <1>0, <1>1, <1>2, <1>4 DEF Selecting

LEMMA OnMessageOK ==
  ASSUME ChatInv, NEW m \in Messages, OnMessage(m)
  PROVE  ChatInv'
<1>1. CASE HandleUserText(m)
  BY <1>1, HandleUserTextOK DEF OnMessage
<1>2. ASSUME NEW starter \in StarterModes, Select([ui EXCEPT ![m].pc = "selecting"], starter),
             UNCHANGED <<net, api>>
      PROVE  ChatInv'
  <2>1. starter \in Modes
    BY ChatAssumption DEF StarterModes
  <2>2. ui[m].pc = "new"
    BY DEF OnMessage
  <2> DEFINE handlers == [ui EXCEPT ![m].pc = "selecting"]
  <2>3. Selecting(handlers) /\ Select(handlers, starter)
    BY <1>2, <2>2, CalledOK
  <2> HIDE DEF handlers
  <2>4. QED
    BY <1>2, <2>1, <2>3, SelectOK
<1>3. QED
  BY <1>1, <1>2 DEF OnMessage

LEMMA OnRetryOK ==
  ASSUME ChatInv, NEW m \in Messages, NEW answered \in Messages, OnRetry(m, answered)
  PROVE  ChatInv'
<1> DEFINE called == [ui EXCEPT ![m].pc = "selecting"]
           handlers == [called EXCEPT ![answered].retry = NoMode]
<1>1. /\ ui[m].pc = "new" /\ ui[answered].retry # NoMode /\ ui[answered].retry \in Modes
      /\ UNCHANGED <<net, api>>
  BY DEF OnRetry, ChatInv, Handlers
<1>2. Selecting(called)
  BY <1>1, CalledOK
<1>3. Select(handlers, ui[answered].retry)
  BY DEF OnRetry
<1> HIDE DEF called
<1>4. Selecting(handlers)
  BY <1>2, RetryTakenOK
<1> HIDE DEF handlers
<1>5. QED
  BY <1>1, <1>3, <1>4, SelectOK

LEMMA SwitchModeOK ==
  ASSUME ChatInv, NEW selected \in Modes, SwitchMode(selected)
  PROVE  ChatInv'
<1>1. Selecting(ui)
  BY DEF Selecting, ChatInv
<1>2. Select(ui, selected) /\ UNCHANGED <<net, api>>
  BY DEF SwitchMode
<1>3. QED
  BY <1>1, <1>2, SelectOK

-----------------------------------------------------------------------------
LEMMA ChatInit == Init => ChatInv
<1> SUFFICES ASSUME Init PROVE ChatInv
  OBVIOUS
<1> DEFINE a == [pc |-> "gone", sent |-> 0, outcome |-> "none", turns |-> 0, asked |-> 0]
<1>1. NewHandler \in Handlers /\ Broken \in Responses /\ a \in ApiStates
  <2>1. <<>> \in Seq(Nat) /\ <<>> \in Seq(EventKinds)
    OBVIOUS
  <2>2. QED
    BY <2>1 DEF NewHandler, Handlers, Broken, Responses, ApiStates, Notices
<1>2. /\ NewHandler.pc = "new" /\ NewHandler.streamed = <<>> /\ NewHandler.shown = <<>>
      /\ NewHandler.buffer = <<>> /\ ~NewHandler.done /\ NewHandler.retry = NoMode
  BY DEF NewHandler
<1>3. /\ UnaskedOK(NewHandler, a) /\ ApiOK(NewHandler, a) /\ StreamOK(NewHandler, Broken, a)
      /\ FullOK(NewHandler, a) /\ WholeOK(NewHandler, a) /\ ModeOK(NewHandler, mode)
  BY <1>2 DEF UnaskedOK, ApiOK, StreamOK, FullOK, WholeOK, ModeOK
<1>4. TextOK(NewHandler, a)
  <2>1. Len(NewHandler.streamed) = 0 /\ NewHandler.streamed = Prefix(0)
    BY <1>2, AppendPrefix
  <2>2. QED
    BY <1>2, <2>1 DEF TextOK
<1>5. \A m \in Messages : ui[m] = NewHandler /\ net[m] = Broken /\ api[m] = a
  BY DEF Init
<1>6. /\ ui \in [Messages -> Handlers] /\ net \in [Messages -> Responses]
      /\ api \in [Messages -> ApiStates]
  BY <1>1 DEF Init
<1>7. mode \in Modes /\ \A m \in Messages : a.sent <= MaxTokens[m]
  BY ChatAssumption DEF Init
<1> HIDE DEF a
<1>8. QED
  BY <1>3, <1>4, <1>5, <1>6, <1>7 DEF ChatInv, MessageOK

LEMMA ChatStep == ChatInv /\ [Next]_vars => ChatInv'
<1> SUFFICES ASSUME ChatInv, [Next]_vars PROVE ChatInv'
  OBVIOUS
<1>1. CASE User
  BY <1>1, OnMessageOK, OnRetryOK, SwitchModeOK DEF User
<1>2. ASSUME NEW m \in Messages, Api(m) PROVE ChatInv'
  BY <1>2, ApiRejectsOK, ApiStatusOK, ApiTokenOK, ApiLastEventOK, ApiClosesOK, ApiCancelledOK,
     ApiAnswersOK DEF Api
<1>3. ASSUME NEW m \in Messages, Handler(m) PROVE ChatInv'
  <2>1. CASE OnSelected(m)
    BY <2>1, HandleUserTextOK DEF OnSelected
  <2>2. QED
    BY <1>3, <2>1, OnStatusOK, OnTokenOK, OnDoneOK, OnFailedEventOK, OnStreamErrorOK,
       EndOfStreamOK, FallbackOK, OnAnswerOK, OnFullErrorOK DEF Handler
<1>4. ASSUME NEW m \in Messages, Break(m) \/ EndEarly(m) PROVE ChatInv'
  BY <1>4, BreakOK, EndEarlyOK
<1>5. CASE UNCHANGED vars
  BY <1>5 DEF ChatInv, vars
<1>6. QED
  BY <1>1, <1>2, <1>3, <1>4, <1>5 DEF Next

LEMMA ChatAlways == Spec => []ChatInv
BY ChatInit, ChatStep, PTL DEF Spec

-----------------------------------------------------------------------------
(* The variables of a chat keep their types: no handler leaves the states   *)
(* it has, and the mode and the retry of an answer are modes of the UI.     *)
THEOREM ChatTypeCorrect == Spec => []TypeOK
<1>1. ChatInv => TypeOK
  <2> SUFFICES ASSUME ChatInv PROVE TypeOK
    OBVIOUS
  <2>1. ASSUME NEW m \in Messages
        PROVE  /\ ui[m] \in Handlers /\ net[m] \in Responses /\ api[m] \in ApiStates
               /\ api[m].sent \in 0..MaxTokens[m]
    BY ChatAssumption DEF ChatInv, ApiStates
  <2>2. QED
    BY <2>1 DEF TypeOK, ChatInv, Handlers, Responses, ApiStates, LastEvents
<1>2. QED
  BY <1>1, ChatAlways, PTL

(* stream_backend_response: the tokens that came are the first ones the API *)
(* sent, each once and in order, and while the stream is read what was      *)
(* shown and what waits in the buffer are all of them.                      *)
THEOREM TextAsReceivedAlways == Spec => []TextAsReceived
<1>1. ChatInv => TextAsReceived
  BY DEF ChatInv, MessageOK, TextOK, TextAsReceived
<1>2. QED
  BY <1>1, ChatAlways, PTL

(* An answer shown without a notice is the whole of what the API completed, *)
(* and a notice of a cancelled or failed answer tells the truth, wherever   *)
(* the connection broke on the way.                                         *)
THEOREM AnswerIsWholeAlways == Spec => []AnswerIsWhole
<1>1. ChatInv => AnswerIsWhole
  BY DEF ChatInv, MessageOK, WholeOK, AnswerIsWhole
<1>2. QED
  BY <1>1, ChatAlways, PTL

(* A message of the user has one message of the chat for its answer, and a  *)
(* retry in another mode only when the mode was switched during the request.*)
THEOREM OneAnswerAlways == Spec => []OneAnswer
<1>1. ChatInv => OneAnswer
  BY DEF ChatInv, MessageOK, ModeOK, TextOK, OneAnswer
<1>2. QED
  BY <1>1, ChatAlways, PTL

(* The full request that follows an empty stream asks for a message the API *)
(* has sent nothing for, and never makes it remember a second turn.         *)
THEOREM AskedAgainOnlyUnansweredAlways == Spec => []AskedAgainOnlyUnanswered
<1>1. ChatInv => AskedAgainOnlyUnanswered
  BY DEF ChatInv, MessageOK, ApiOK, AskedAgainOnlyUnanswered
<1>2. QED
  BY <1>1, ChatAlways, PTL

-----------------------------------------------------------------------------
(* What a handler waits for                                                 *)

(* The response to a full request: nothing yet, the one thing it can carry, *)
(* or nothing any more.                                                     *)
AwaitsFull(n, a) ==
  \/ a.pc = "full" /\ n.events = <<>> /\ n.state \in {"open", "broken"}
  \/ a.pc = "gone" /\ n.events = <<>> /\ n.state = "broken"
  \/ a.pc = "gone" /\ n.state = "ended" /\ \E e \in Answers \cup Rejections : n.events = <<e>>

FullInv == \A m \in Messages : ui[m].pc = "full" => AwaitsFull(net[m], api[m])

AskedNow(m) == net'[m] = NewResponse /\ (ui'[m].pc = "full" => api'[m].pc = "full")

LEMMA AskedNowAwaits ==
  ASSUME NEW m \in Messages, AskedNow(m), ui'[m].pc = "full"
  PROVE  AwaitsFull(net'[m], api'[m])
BY DEF AskedNow, AwaitsFull, NewResponse

(* What leaves a message alone.                                             *)
LeftAlone(m) == net'[m] = net[m] /\ api'[m] = api[m] /\ (ui'[m].pc = "full" => ui[m].pc = "full")

LEMMA LeftAloneAwaits ==
  ASSUME FullInv, NEW m \in Messages, LeftAlone(m), ui'[m].pc = "full"
  PROVE  AwaitsFull(net'[m], api'[m])
BY DEF FullInv, LeftAlone

(* The first request of a message.                                          *)
LEMMA HandleUserTextAsks ==
  ASSUME ChatInv, NEW m \in Messages, HandleUserText(m)
  PROVE  AskedNow(m) /\ \A k \in Messages \ {m} : LeftAlone(k)
<1> DEFINE pc == IF ShouldStream(ApiModeValue(mode)) THEN "streaming" ELSE "full"
<1>1. /\ ui[m] \in Handlers /\ api[m] \in ApiStates
      /\ ui \in [Messages -> Handlers] /\ net \in [Messages -> Responses]
      /\ api \in [Messages -> ApiStates]
  BY DEF ChatInv
<1>2. /\ ui' = [ui EXCEPT ![m].pc = pc, ![m].mode = mode, ![m].visible = {"status"}]
      /\ net' = [net EXCEPT ![m] = NewResponse]
      /\ api' = [api EXCEPT ![m].pc = pc, ![m].asked = @ + 1]
  BY DEF HandleUserText, Ask
<1> HIDE DEF pc
<1>3. ui'[m].pc = pc /\ net'[m] = NewResponse /\ api'[m].pc = pc
  BY <1>1, <1>2 DEF Handlers, ApiStates
<1>4. \A k \in Messages \ {m} : ui'[k] = ui[k] /\ net'[k] = net[k] /\ api'[k] = api[k]
  BY <1>1, <1>2
<1>5. QED
  BY <1>3, <1>4 DEF AskedNow, LeftAlone

LEMMA FallbackAsks ==
  ASSUME ChatInv, NEW m \in Messages, Fallback(m)
  PROVE  AskedNow(m) /\ \A k \in Messages \ {m} : LeftAlone(k)
<1>1. /\ ui[m] \in Handlers /\ api[m] \in ApiStates
      /\ ui \in [Messages -> Handlers] /\ net \in [Messages -> Responses]
      /\ api \in [Messages -> ApiStates]
  BY DEF ChatInv
<1>2. /\ ui' = [ui EXCEPT ![m].pc = "full", ![m].done = FALSE]
      /\ net' = [net EXCEPT ![m] = NewResponse]
      /\ api' = [api EXCEPT ![m].pc = "full", ![m].asked = @ + 1]
  BY DEF Fallback, Ask
<1>3. net'[m] = NewResponse /\ api'[m].pc = "full"
  BY <1>1, <1>2 DEF ApiStates
<1>4. \A k \in Messages \ {m} : ui'[k] = ui[k] /\ net'[k] = net[k] /\ api'[k] = api[k]
  BY <1>1, <1>2
<1>5. QED
  BY <1>3, <1>4 DEF AskedNow, LeftAlone

(* A change of the mode moves no handler to a full request.                 *)
LEMMA UserAwaits ==
  ASSUME ChatInv, FullInv, User
  PROVE  FullInv'
<1> SUFFICES ASSUME NEW k \in Messages, ui'[k].pc = "full"
             PROVE  AwaitsFull(net'[k], api'[k])
  BY DEF FullInv
<1>1. ASSUME NEW m \in Messages, HandleUserText(m)
      PROVE  AwaitsFull(net'[k], api'[k])
  BY <1>1, HandleUserTextAsks, AskedNowAwaits, LeftAloneAwaits
<1>2. ASSUME NEW handlers, NEW selected, Select(handlers, selected), UNCHANGED <<net, api>>,
             handlers[k] \in Handlers, handlers[k].pc = "full" => ui[k].pc = "full"
      PROVE  AwaitsFull(net'[k], api'[k])
  <2>1. ui'[k].pc = handlers[k].pc
    <3> DEFINE switched == handlers[k].switched \/ (selected # mode /\ ui[k].pc \in {"streaming", "full"})
               v == [handlers[k] EXCEPT !.switched = switched]
    <3>1. ui'[k] = v
      BY <1>2 DEF Select
    <3>2. v.pc = handlers[k].pc
      BY <1>2 DEF Handlers
    <3> HIDE DEF v
    <3>3. QED
      BY <3>1, <3>2
  <2>2. LeftAlone(k)
    BY <1>2, <2>1 DEF LeftAlone
  <2>3. QED
    BY <2>2, LeftAloneAwaits
<1>3. ASSUME NEW m \in Messages
      PROVE  /\ [ui EXCEPT ![m].pc = "selecting"][k] \in Handlers
             /\ [ui EXCEPT ![m].pc = "selecting"][k].pc = "full" => ui[k].pc = "full"
  <2>1. ui \in [Messages -> Handlers] /\ ui[k] \in Handlers
    BY DEF ChatInv
  <2>2. CASE k = m
    BY <2>1, <2>2 DEF Handlers
  <2>3. CASE k # m
    BY <2>1, <2>3
  <2>4. QED
    BY <2>2, <2>3
<1>4. ASSUME NEW m \in Messages, OnMessage(m)
      PROVE  AwaitsFull(net'[k], api'[k])
  <2>1. CASE HandleUserText(m)
    BY <2>1, <1>1
  <2>2. ASSUME NEW starter, Select([ui EXCEPT ![m].pc = "selecting"], starter),
               UNCHANGED <<net, api>>
        PROVE  AwaitsFull(net'[k], api'[k])
    BY <1>2, <1>3, <2>2
  <2>3. QED
    BY <1>4, <2>1, <2>2 DEF OnMessage
<1>5. ASSUME NEW m \in Messages, NEW answered \in Messages, OnRetry(m, answered)
      PROVE  AwaitsFull(net'[k], api'[k])
  <2> DEFINE called == [ui EXCEPT ![m].pc = "selecting"]
             handlers == [called EXCEPT ![answered].retry = NoMode]
  <2>1. called[k] \in Handlers /\ (called[k].pc = "full" => ui[k].pc = "full")
    BY <1>3
  <2>2. Select(handlers, ui[answered].retry) /\ UNCHANGED <<net, api>>
    BY <1>5 DEF OnRetry
  <2>3. k \in DOMAIN called
    BY DEF ChatInv
  <2> HIDE DEF called
  <2>4. handlers[k] \in Handlers /\ handlers[k].pc = called[k].pc
    <3>1. CASE k = answered
      BY <2>1, <2>3, <3>1 DEF Handlers
    <3>2. CASE k # answered
      BY <2>1, <2>3, <3>2
    <3>3. QED
      BY <3>1, <3>2
  <2> HIDE DEF handlers
  <2>5. QED
    BY <1>2, <2>1, <2>2, <2>4
<1>6. ASSUME NEW selected \in Modes, SwitchMode(selected)
      PROVE  AwaitsFull(net'[k], api'[k])
  <2>1. ui[k] \in Handlers /\ Select(ui, selected) /\ UNCHANGED <<net, api>>
    BY <1>6 DEF SwitchMode, ChatInv
  <2>2. QED
    BY <1>2, <2>1
<1>7. QED
  BY <1>4, <1>5, <1>6 DEF User

(* The one event a full request gets ends its response.                     *)
LEMMA OneEventAwaits ==
  ASSUME ChatInv, FullInv, NEW m \in Messages, ui[m].pc = "full", api[m].pc = "full",
         NEW e \in Answers \cup Rejections, Put(m, e, "ended"), api'[m].pc = "gone"
  PROVE  AwaitsFull(net'[m], api'[m])
<1>1. /\ net[m] \in Responses /\ net[m].events = <<>> /\ net[m].state \in {"open", "broken"}
  BY DEF ChatInv, FullInv, AwaitsFull
<1>2. net'[m] = Sent(net[m], e, "ended")
  BY PutSends DEF EventKinds, Answers, Rejections, ChatInv
<1>3. CASE net[m].state = "open"
  <2>1. net'[m].state = "ended" /\ net'[m].events = Append(<<>>, e)
    BY <1>1, <1>2, <1>3 DEF Sent
  <2>2. net'[m].events = <<e>>
    BY <2>1
  <2>3. QED
    BY <2>1, <2>2 DEF AwaitsFull
<1>4. CASE net[m].state = "broken"
  BY <1>1, <1>2, <1>4 DEF Sent, AwaitsFull
<1>5. QED
  BY <1>1, <1>3, <1>4

LEMMA ApiAwaits ==
  ASSUME ChatInv, FullInv, NEW m \in Messages, Api(m)
  PROVE  FullInv'
<1> SUFFICES ASSUME NEW k \in Messages, ui'[k].pc = "full"
             PROVE  AwaitsFull(net'[k], api'[k])
  BY DEF FullInv
<1>1. /\ net \in [Messages -> Responses] /\ api \in [Messages -> ApiStates]
      /\ api[m] \in ApiStates
  BY DEF ChatInv
<1>2. ui' = ui
  BY DEF Api, ApiRejects, ApiStatus, ApiToken, ApiLastEvent, ApiCloses, ApiCancelled, ApiAnswers
<1>3. CASE k # m
  <2>1. net'[k] = net[k]
    BY <1>1, <1>3 DEF Api, ApiRejects, ApiStatus, ApiToken, ApiLastEvent, ApiCloses, ApiCancelled,
       ApiAnswers, Put
  <2>2. api'[k] = api[k]
    BY <1>1, <1>3 DEF Api, ApiRejects, ApiStatus, ApiToken, ApiLastEvent, ApiCloses, ApiCancelled,
       ApiAnswers
  <2>3. QED
    BY <1>2, <2>1, <2>2, LeftAloneAwaits DEF LeftAlone
<1>4. CASE k = m
  <2>1. ui[m].pc = "full" /\ api[m].pc \in {"full", "gone"}
    BY <1>2, <1>4 DEF FullInv, AwaitsFull
  <2>2. ApiRejects(m) \/ ApiAnswers(m)
    BY <2>1 DEF Api, ApiStatus, ApiToken, ApiLastEvent, ApiCloses, ApiCancelled
  <2>3. api[m].pc = "full" /\ api'[m].pc = "gone"
    BY <1>1, <2>1, <2>2 DEF ApiRejects, ApiAnswers, ApiStates
  <2>4. PICK e \in Answers \cup Rejections : Put(m, e, "ended")
    BY <2>2 DEF ApiRejects, ApiAnswers
  <2>5. QED
    BY <1>4, <2>1, <2>3, <2>4, OneEventAwaits
<1>5. QED
  BY <1>3, <1>4

(* What a handler of a stream takes leaves it a stream, or answers it.      *)
Moves(m) ==
  /\ \A k \in Messages \ {m} : LeftAlone(k)
  /\ ui'[m].pc # "full"

LEMMA FinishMoves ==
  ASSUME ChatInv, NEW m \in Messages, NEW shown, NEW notice, Finish(m, shown, notice)
  PROVE  Moves(m)
<1>1. /\ ui[m] \in Handlers /\ ui \in [Messages -> Handlers] /\ net \in [Messages -> Responses]
  BY DEF ChatInv
<1>2. ui'[m].pc = "answered" /\ \A k \in Messages \ {m} : ui'[k] = ui[k]
  BY <1>1 DEF Finish, Handlers
<1>3. api' = api /\ \A k \in Messages \ {m} : net'[k] = net[k]
  BY <1>1 DEF Finish
<1>4. QED
  BY <1>2, <1>3 DEF Moves, LeftAlone

LEMMA HandlerMoves ==
  ASSUME ChatInv, NEW m \in Messages, Handler(m), ~OnSelected(m), ~Fallback(m)
  PROVE  Moves(m)
<1>1. /\ ui[m] \in Handlers /\ ui \in [Messages -> Handlers] /\ net \in [Messages -> Responses]
  BY DEF ChatInv
<1>2. CASE OnStatus(m) \/ OnToken(m) \/ OnDone(m)
  <2>1. ui[m].pc = "streaming" /\ api' = api /\ Taken(m)
    BY <1>2 DEF OnStatus, OnToken, OnDone, Arrives
  <2>2. \A k \in Messages \ {m} : net'[k] = net[k]
    BY <1>1, <2>1 DEF Taken
  <2>3. ui'[m].pc = "streaming" /\ \A k \in Messages \ {m} : ui'[k] = ui[k]
    <3>1. CASE OnStatus(m)
      BY <2>1, <3>1 DEF OnStatus
    <3>2. CASE OnToken(m)
      <4>1. PICK t, b, s :
              ui' = [ui EXCEPT ![m].visible = {"response"}, ![m].streamed = t,
                       ![m].buffer = b, ![m].shown = s]
        BY <3>2 DEF OnToken
      <4>2. QED
        BY <1>1, <2>1, <4>1 DEF Handlers
    <3>3. CASE OnDone(m)
      BY <1>1, <2>1, <3>3 DEF OnDone, Handlers
    <3>4. QED
      BY <1>2, <3>1, <3>2, <3>3
  <2>4. QED
    BY <2>1, <2>2, <2>3 DEF Moves, LeftAlone
<1>3. CASE OnFullError(m)
  <2>1. PICK failure : ui' = [ui EXCEPT ![m].pc = "answered", ![m].notice = failure,
                                ![m].retry = ui[m].mode]
    BY <1>3 DEF OnFullError
  <2>2. ui'[m].pc = "answered" /\ \A k \in Messages \ {m} : ui'[k] = ui[k]
    BY <1>1, <2>1 DEF Handlers
  <2>3. api' = api /\ \A k \in Messages \ {m} : net'[k] = net[k]
    BY <1>1, <1>3 DEF OnFullError
  <2>4. QED
    BY <2>2, <2>3 DEF Moves, LeftAlone
<1>4. CASE OnFailedEvent(m)
  BY <1>4, FinishMoves DEF OnFailedEvent
<1>5. CASE OnStreamError(m)
  BY <1>5, FinishMoves DEF OnStreamError
<1>6. CASE EndOfStream(m)
  BY <1>6, FinishMoves DEF EndOfStream
<1>7. CASE OnAnswer(m)
  BY <1>7, FinishMoves DEF OnAnswer
<1>8. QED
  BY <1>2, <1>3, <1>4, <1>5, <1>6, <1>7 DEF Handler

LEMMA HandlerAwaits ==
  ASSUME ChatInv, FullInv, NEW m \in Messages, Handler(m)
  PROVE  FullInv'
<1> SUFFICES ASSUME NEW k \in Messages, ui'[k].pc = "full"
             PROVE  AwaitsFull(net'[k], api'[k])
  BY DEF FullInv
<1>1. CASE OnSelected(m)
  <2>1. HandleUserText(m)
    BY <1>1 DEF OnSelected
  <2>2. QED
    BY <2>1, HandleUserTextAsks, AskedNowAwaits, LeftAloneAwaits
<1>2. CASE Fallback(m)
  BY <1>2, FallbackAsks, AskedNowAwaits, LeftAloneAwaits
<1>3. CASE ~OnSelected(m) /\ ~Fallback(m)
  BY <1>3, HandlerMoves, LeftAloneAwaits DEF Moves
<1>4. QED
  BY <1>1, <1>2, <1>3

(* A connection that breaks takes nothing with it that had arrived.         *)
LEMMA ConnectionAwaits ==
  ASSUME ChatInv, FullInv, NEW m \in Messages, Break(m) \/ EndEarly(m)
  PROVE  FullInv'
<1> SUFFICES ASSUME NEW k \in Messages, ui'[k].pc = "full"
             PROVE  AwaitsFull(net'[k], api'[k])
  BY DEF FullInv
<1>1. /\ net \in [Messages -> Responses] /\ net[m] \in Responses
      /\ api \in [Messages -> ApiStates] /\ ui' = ui
  BY DEF ChatInv, Break, EndEarly
<1>2. CASE k # m
  <2>1. net'[k] = net[k] /\ api'[k] = api[k]
    BY <1>1, <1>2 DEF Break, EndEarly
  <2>2. QED
    BY <1>1, <2>1, LeftAloneAwaits DEF LeftAlone
<1>3. CASE k = m
  <2>1. /\ ui[m].pc = "full" /\ AwaitsFull(net[m], api[m])
    BY <1>1, <1>3 DEF FullInv
  <2>2. net[m].state = "open" /\ net[m].events = <<>> /\ api[m].pc = "full"
    BY <2>1 DEF Break, EndEarly, AwaitsFull
  <2>3. /\ net' = [net EXCEPT ![m].state = "broken"] /\ api' = api
    BY <2>2 DEF Break, EndEarly
  <2>4. net'[m].state = "broken" /\ net'[m].events = <<>>
    BY <1>1, <2>2, <2>3 DEF Responses
  <2>5. QED
    BY <1>3, <2>2, <2>3, <2>4 DEF AwaitsFull
<1>4. QED
  BY <1>2, <1>3

LEMMA FullAlways == Spec => []FullInv
<1>1. Init => FullInv
  BY DEF Init, NewHandler, FullInv
<1>2. ChatInv /\ FullInv /\ [Next]_vars => FullInv'
  <2> SUFFICES ASSUME ChatInv, FullInv, [Next]_vars PROVE FullInv'
    OBVIOUS
  <2>1. CASE UNCHANGED vars
    BY <2>1 DEF FullInv, AwaitsFull, vars
  <2>2. QED
    BY <2>1, UserAwaits, ApiAwaits, HandlerAwaits, ConnectionAwaits DEF Next
<1>3. QED
  BY <1>1, <1>2, ChatAlways, PTL DEF Spec

LEMMA ResponseIs ==
  ASSUME NEW n \in Responses, n.events = <<>>
  PROVE  /\ n.state = "broken" => n = Broken
         /\ n.state = "ended" => n = Ended
         /\ n.state = "open" => n = NewResponse
BY DEF Responses, Broken, Ended, NewResponse

(* The first event of a stream is one of a stream.                          *)
LEMMA StreamHead ==
  ASSUME NEW u, NEW n \in Responses, NEW a \in ApiStates, n.events # <<>>,
         Rejected(n, a) \/ Flows(u, n, a)
  PROVE  Head(n.events) \in {"status", "token"} \cup LastEvents \cup Rejections
<1>1. CASE Rejected(n, a)
  BY <1>1 DEF Rejected
<1>2. CASE Flows(u, n, a)
  <2>1. PICK s, l \in {0, 1}, p \in Nat :
          OnTheWay(n.events, s, p, l, a.outcome) /\ (l = 1 => a.outcome # "none")
    BY <1>2 DEF Flows
  <2>2. n.events \in Seq(EventKinds) /\ a.outcome \in {"none"} \cup LastEvents
    BY DEF Responses, ApiStates
  <2>3. Head(n.events) \notin {"status", "token"} => l = 1 /\ a.outcome = Head(n.events)
    BY <2>1, <2>2, TakeHead
  <2>4. QED
    BY <2>1, <2>2, <2>3
<1>3. QED
  BY <1>1, <1>2

(* stream_backend_response and send_full_backend_response wait for nothing  *)
(* that cannot come: the API is at work on what they asked for, or what it  *)
(* sent or the end of the connection is there and is something they handle. *)
THEOREM AnswerIsToComeAlways == Spec => []AnswerIsToCome
<1>1. ChatInv /\ FullInv => AnswerIsToCome
  <2> SUFFICES ASSUME ChatInv, FullInv, NEW m \in Messages
               PROVE  /\ ui[m].pc = "streaming" =>
                           ToCome(m, {"status", "token", "done", "cancelled", "error"},
                                  {Broken, Ended}, {"streaming", "started", "recording", "closing"})
                      /\ ui[m].pc = "full" => ToCome(m, Answers, {Broken}, {"full"})
    BY DEF AnswerIsToCome
  <2>1. /\ net[m] \in Responses /\ api[m] \in ApiStates /\ StreamOK(ui[m], net[m], api[m])
    BY DEF ChatInv, MessageOK
  <2>2. ASSUME ui[m].pc = "streaming"
        PROVE  ToCome(m, {"status", "token", "done", "cancelled", "error"}, {Broken, Ended},
                      {"streaming", "started", "recording", "closing"})
    <3>1. CASE net[m].events # <<>>
      <4>1. Head(net[m].events) \in {"status", "token"} \cup LastEvents \cup Rejections
        BY <2>1, <2>2, <3>1, StreamHead DEF StreamOK
      <4>2. QED
        BY <3>1, <4>1 DEF ToCome, LastEvents
    <3>2. CASE net[m].events = <<>> /\ net[m].state # "open"
      <4>1. net[m] = Broken \/ net[m] = Ended
        BY <2>1, <3>2, ResponseIs DEF Responses
      <4>2. QED
        BY <4>1 DEF ToCome
    <3>3. CASE net[m].events = <<>> /\ net[m].state = "open"
      <4>1. net[m] = NewResponse
        BY <2>1, <3>3, ResponseIs
      <4>2. api[m].pc \in {"streaming", "started", "recording", "closing"}
        BY <2>1, <2>2, <3>3 DEF StreamOK, ApiStates
      <4>3. QED
        BY <4>1, <4>2 DEF ToCome
    <3>4. QED
      BY <3>1, <3>2, <3>3
  <2>3. ASSUME ui[m].pc = "full"
        PROVE  ToCome(m, Answers, {Broken}, {"full"})
    <3>1. AwaitsFull(net[m], api[m])
      BY <2>3 DEF FullInv
    <3>2. CASE net[m].events = <<>> /\ net[m].state = "broken"
      BY <2>1, <3>2, ResponseIs DEF ToCome
    <3>3. CASE net[m].events = <<>> /\ net[m].state = "open" /\ api[m].pc = "full"
      BY <2>1, <3>3, ResponseIs DEF ToCome
    <3>4. ASSUME NEW e \in Answers \cup Rejections, net[m].events = <<e>>
          PROVE  ToCome(m, Answers, {Broken}, {"full"})
      <4>1. net[m].events # <<>> /\ Head(net[m].events) = e
        BY <3>4
      <4>2. QED
        BY <4>1 DEF ToCome
    <3>5. QED
      BY <3>1, <3>2, <3>3, <3>4 DEF AwaitsFull
  <2>4. QED
    BY <2>2, <2>3
<1>2. QED
  BY <1>1, ChatAlways, FullAlways, PTL

=============================================================================
