--------------------------- MODULE WebLoginProofs ---------------------------
(***************************************************************************)
(* Theorems about WebLogin, for every value of its constants.              *)
(***************************************************************************)
EXTENDS WebLogin, FiniteSetTheorems, TLAPS

-----------------------------------------------------------------------------
(* Types                                                                    *)

(* An attempt that has begun has a name.                                    *)
LEMMA AttemptShape ==
  ASSUME Typed, NEW a \in Attempts, attempts[a].pc # "idle"
  PROVE  /\ attempts[a] \in Attempt \ {NoAttempt}
         /\ attempts[a].name \in Names
<1>1. attempts[a] \in Attempt
  BY DEF Typed
<1>2. attempts[a] # NoAttempt
  BY DEF NoAttempt
<1>3. QED
  BY <1>1, <1>2 DEF Attempt

(* Where an attempt goes on after its first step.                           *)
Targets == {"idle", "counting", "expiring", "locking"} \cup Responses

LEMMA TargetsAre == Targets = {"idle", "counting", "expiring", "locking", "success", "invalid_credentials"}
BY DEF Targets, Responses

LEMMA CallingIs == Calling = {"calling", "success", "invalid_credentials"}
BY DEF Calling, Responses

LEMMA ResponseIs ==
  ASSUME NEW n, NEW password
  PROVE  LoginResponse(n, password) \in Responses
BY DEF LoginResponse, Responses

(* Goto keeps the name of an attempt.                                       *)
LEMMA GotoGoes ==
  ASSUME Typed, NEW a \in Attempts, attempts[a].pc # "idle", NEW pc \in Targets, Goto(a, pc)
  PROVE  /\ attempts'[a] \in Attempt
         /\ attempts'[a].pc = pc
         /\ pc = "idle" => attempts'[a] = NoAttempt
         /\ pc # "idle" => attempts'[a].name = attempts[a].name
         /\ attempts' = [attempts EXCEPT ![a] = attempts'[a]]
         /\ \A b \in Attempts \ {a} : attempts'[b] = attempts[b]
<1> DEFINE moved == [pc |-> pc, name |-> attempts[a].name, password |-> NoPassword]
           new == IF pc = "idle" THEN NoAttempt ELSE moved
<1>1. attempts' = [attempts EXCEPT ![a] = new]
  BY DEF Goto
<1>2. attempts[a].name \in Names
  BY AttemptShape
<1>3. pc # "idle" => moved \in Attempt
  BY <1>2, TargetsAre, CallingIs DEF Attempt
<1>4. NoAttempt \in Attempt /\ NoAttempt.pc = "idle"
  BY DEF Attempt, NoAttempt
<1>5. moved.pc = pc /\ moved.name = attempts[a].name
  OBVIOUS
<1>6. /\ new \in Attempt
      /\ new.pc = pc
      /\ pc = "idle" => new = NoAttempt
      /\ pc # "idle" => new.name = attempts[a].name
  BY <1>3, <1>4, <1>5
<1> HIDE DEF new
<1>7. attempts'[a] = new /\ \A b \in Attempts \ {a} : attempts'[b] = attempts[b]
  BY <1>1 DEF Typed
<1>8. QED
  BY <1>1, <1>6, <1>7

LEMMA GotoTyped ==
  ASSUME Typed, NEW a \in Attempts, attempts[a].pc # "idle", NEW pc \in Targets, Goto(a, pc)
  PROVE  attempts' \in [Attempts -> Attempt]
BY GotoGoes DEF Typed

LEMMA AfterTyped ==
  ASSUME NEW failures \in Nat
  PROVE  /\ AfterExpiry(failures) \in {"idle", "locking"}
         /\ AfterCount(failures) \in {"idle", "locking", "expiring"}
BY DEF AfterExpiry, AfterCount

LEMMA RespondTyped ==
  ASSUME Typed, NEW s \in Signups, NEW response \in Errors \cup {"success"}, Respond(s, response)
  PROVE  signups' \in [Signups -> [name : Names, told : Answers,
                              response : Errors \cup {"none", "working", "success", "gone"}]]
BY DEF Typed, Respond

LEMMA TellTyped ==
  ASSUME Typed, NEW s \in Signups, NEW what \in Answers, Tell(s, what)
  PROVE  signups' \in [Signups -> [name : Names, told : Answers,
                              response : Errors \cup {"none", "working", "success", "gone"}]]
<1>1. [signups[s] EXCEPT !.told = what,
         !.response = IF @ \in {"none", "working"} THEN @ ELSE "gone"]
        \in [name : Names, told : Answers,
            response : Errors \cup {"none", "working", "success", "gone"}]
  BY DEF Typed
<1>2. QED
  BY <1>1 DEF Typed, Tell

LEMMA NewAccountTyped ==
  ASSUME Typed, NEW s \in Signups
  PROVE  NewAccount(s) \in Accounts
BY DEF Typed, NewAccount, Accounts, Passwords

LEMMA SignupTyped ==
  ASSUME Typed, NEW s \in Signups, Signup(s)
  PROVE  Typed'
<1>1. signups[s].name \in Names
  BY DEF Typed
<1>2. NewAccount(s) \in Accounts
  BY NewAccountTyped
<1>3. CASE SubmitDisabled(s)
  <2>1. Tell(s, "disabled") /\ "disabled" \in Answers
    BY <1>3 DEF SubmitDisabled, Answers
  <2>2. QED
    BY <2>1, TellTyped DEF Typed, Tell, store, history
<1>4. CASE Submit(s)
  BY <1>4 DEF Submit, Typed, store, history
<1>5. CASE Refuse(s)
  <2>1. PICK error \in {"authentication_failed", "validation_error", "signup_disabled"} : Respond(s, error)
    BY <1>5 DEF Refuse
  <2>2. error \in Errors \cup {"success"}
    BY DEF Errors, Refusals
  <2>3. QED
    BY <1>5, <2>1, <2>2, RespondTyped DEF Refuse, Typed, Respond, store, history
<1>6. CASE Object(s)
  <2>1. "invalid_signup" \in Errors \cup {"success"}
    BY DEF Errors, Refusals
  <2>2. QED
    BY <1>6, <2>1, RespondTyped DEF Object, Typed, Respond, store, history
<1>7. CASE Create(s)
  <2>1. "username_unavailable" \in Errors
    BY DEF Errors, Refusals
  <2>2. accounts' \in [Names -> Accounts \cup {NoAccount}]
    BY <1>1, <1>2, <1>7 DEF Create, Typed
  <2>3. PICK response \in Errors \cup {"success"} : Respond(s, response)
    BY <1>7, <2>1 DEF Create
  <2>4. QED
    BY <2>2, <2>3, RespondTyped DEF Typed, Respond, store, history
<1>8. CASE Break(s)
  <2>1. "internal_error" \in Errors
    BY DEF Errors
  <2>2. accounts' \in [Names -> Accounts \cup {NoAccount}]
    BY <1>1, <1>2, <1>8 DEF Break, Typed
  <2>3. QED
    BY <1>8, <2>1, <2>2, RespondTyped DEF Break, Typed, Respond, store, history
<1>9. CASE Answer(s)
  <2>1. AnswerTo(signups[s].response) \in Answers
    BY <1>9 DEF Answer, AnswerTo, Answers, Errors, Refusals
  <2>2. QED
    BY <1>9, <2>1, TellTyped DEF Answer, Typed, Tell, store, history
<1>10. CASE Lose(s)
  <2>1. "unavailable" \in Answers
    BY DEF Answers
  <2>2. QED
    BY <1>10, <2>1, TellTyped DEF Lose, Typed, Tell, store, history
<1>11. QED
  BY <1>3, <1>4, <1>5, <1>6, <1>7, <1>8, <1>9, <1>10 DEF Signup

LEMMA LoginTyped ==
  ASSUME Typed, NEW a \in Attempts, Login(a)
  PROVE  Typed'
<1> DEFINE n == attempts[a].name
<1>0. attempts[a].pc # "idle" => n \in Names
  BY AttemptShape
<1>1. CASE Check(a)
  <2>1. PICK m \in Names, p \in Passwords : attempts' = [attempts EXCEPT ![a] = Started(m, p)]
    BY <1>1 DEF Check
  <2>2. Started(m, p) \in Attempt
    BY CallingIs DEF Started, Attempt
  <2>3. QED
    BY <1>1, <2>1, <2>2 DEF Check, Typed, store, history
<1>2. CASE Rejected(a)
  <2>1. attempts' \in [Attempts -> Attempt]
    BY <1>2, GotoTyped, TargetsAre DEF Rejected
  <2>2. /\ wrong' \in [Names -> 0..MaxWrong]
        /\ guesses' \in [Names -> Nat]
    BY <1>0, <1>2, LoginAssumption DEF Rejected, Typed
  <2>3. QED
    BY <1>2, <2>1, <2>2 DEF Rejected, Typed, store
<1>3. CASE ApiLogin(a)
  <2>1. PICK response \in Responses : Goto(a, response)
    BY <1>3, ResponseIs DEF ApiLogin
  <2>2. attempts' \in [Attempts -> Attempt]
    BY <1>3, <2>1, GotoTyped DEF ApiLogin, Targets
  <2>3. QED
    BY <1>3, <2>2 DEF ApiLogin, Typed, store, history
<1>4. CASE Unanswered(a)
  <2>1. attempts' \in [Attempts -> Attempt]
    BY <1>4, GotoTyped, TargetsAre, CallingIs DEF Unanswered
  <2>2. QED
    BY <1>4, <2>1 DEF Unanswered, Typed, store, history
<1>5. CASE Count(a)
  <2>1. n \in Names /\ counter[n] + 1 \in Nat
    BY <1>0, <1>5 DEF Count, Typed
  <2>2. attempts' \in [Attempts -> Attempt]
    BY <1>5, <2>1, GotoTyped, AfterTyped, TargetsAre DEF Count
  <2>3. QED
    BY <1>5, <2>1, <2>2 DEF Count, Typed, history
<1>6. CASE SetExpiry(a)
  <2>1. attempts' \in [Attempts -> Attempt]
    BY <1>6, GotoTyped, AfterTyped, TargetsAre DEF SetExpiry
  <2>2. expires' \in [Names -> BOOLEAN]
    BY <1>0, <1>6 DEF SetExpiry, Typed
  <2>3. QED
    BY <1>6, <2>1, <2>2 DEF SetExpiry, Typed, history
<1>7. CASE Lock(a)
  <2>1. attempts' \in [Attempts -> Attempt]
    BY <1>7, GotoTyped, TargetsAre DEF Lock
  <2>2. QED
    BY <1>0, <1>7, <2>1 DEF Lock, Typed, history
<1>8. CASE CountInMemory(a)
  <2>1. attempts' \in [Attempts -> Attempt]
    BY <1>8, GotoTyped, TargetsAre DEF CountInMemory
  <2>2. n \in Names /\ counter[n] + 1 \in Nat
    BY <1>0, <1>8 DEF CountInMemory, Typed
  <2>3. /\ counter' \in [Names -> Nat]
        /\ expires' \in [Names -> BOOLEAN]
    BY <1>8, <2>2 DEF CountInMemory, Typed
  <2>4. locked' \in [Names -> BOOLEAN]
    BY <1>8, <2>2, LoginAssumption DEF CountInMemory, Typed
  <2>5. QED
    BY <1>8, <2>1, <2>3, <2>4 DEF CountInMemory, Typed, history
<1>9. CASE Clear(a)
  <2>1. attempts' \in [Attempts -> Attempt]
    BY <1>9, GotoTyped, TargetsAre DEF Clear, ClearStore
  <2>2. /\ counter' \in [Names -> Nat]
        /\ guesses' \in [Names -> Nat]
        /\ expires' \in [Names -> BOOLEAN]
        /\ locked' \in [Names -> BOOLEAN]
    BY <1>9 DEF Clear, ClearStore, Typed
  <2>3. QED
    BY <1>9, <2>1, <2>2 DEF Clear, ClearStore, Typed
<1>10. CASE CutOff(a)
  <2>1. attempts' \in [Attempts -> Attempt]
    BY <1>10, GotoTyped, TargetsAre, CallingIs DEF CutOff
  <2>2. cut' \in [Names -> Nat]
    BY <1>0, <1>10, CallingIs DEF CutOff, Typed
  <2>3. QED
    BY <1>10, <2>1, <2>2 DEF CutOff, Typed, store
<1>11. QED
  BY <1>1, <1>2, <1>3, <1>4, <1>5, <1>6, <1>7, <1>8, <1>9, <1>10 DEF Login

LEMMA TypeNext ==
  ASSUME Typed, [Next]_vars
  PROVE  Typed'
<1>1. CASE \E s \in Signups : Signup(s)
  BY <1>1, SignupTyped
<1>2. CASE \E a \in Attempts : Login(a)
  BY <1>2, LoginTyped
<1>3. ASSUME NEW n \in Names, ScriptCreates(n)
      PROVE  Typed'
  <2>1. \A active \in BOOLEAN : [owner |-> Script, active |-> active] \in Accounts
    BY DEF Accounts, Passwords
  <2>2. QED
    BY <1>3, <2>1 DEF ScriptCreates, Typed, store, history
<1>4. ASSUME NEW n \in Names, SetActive(n)
      PROVE  Typed'
  <2>1. [accounts[n] EXCEPT !.active = ~@] \in Accounts
    BY <1>4 DEF SetActive, Typed, Accounts
  <2>2. QED
    BY <1>4, <2>1 DEF SetActive, Typed, store, history
<1>5. ASSUME NEW n \in Names, ExpireCounter(n)
      PROVE  Typed'
  <2>1. counter' \in [Names -> Nat] /\ guesses' \in [Names -> Nat]
    BY <1>5 DEF ExpireCounter, Typed
  <2>2. QED
    BY <1>5, <2>1 DEF ExpireCounter, Typed
<1>8. ASSUME NEW n \in Names, ExpireLock(n)
      PROVE  Typed'
  <2>1. locked' \in [Names -> BOOLEAN] /\ guesses' \in [Names -> Nat]
    BY <1>8 DEF ExpireLock, Typed
  <2>2. QED
    BY <1>8, <2>1 DEF ExpireLock, Typed
<1>6. CASE UNCHANGED vars
  BY <1>6 DEF vars, store, history, Typed
<1>9. QED
  BY <1>1, <1>2, <1>3, <1>4, <1>5, <1>6, <1>8 DEF Next, Step

LEMMA TypeInit == Init => Typed
BY LoginAssumption DEF Init, Typed, Settings, Attempt, Answers

LEMMA TypedAlways == Spec => []Typed
<1>1. Typed /\ [Next]_vars => Typed'
  BY TypeNext
<1>2. QED
  BY TypeInit, <1>1, PTL DEF Spec

(* What Observe records of one attempt.                                     *)
LEMMA ObserveAt ==
  ASSUME Observe, NEW a \in Attempts
  PROVE  /\ attempts'[a].pc = "calling" => seen'[a] = seen[a] \cup {Verdict(a)'}
         /\ attempts'[a].pc \in Responses => seen'[a] = seen[a]
         /\ attempts'[a].pc \notin Calling => seen'[a] = {}
<1> DEFINE new(b) == CASE attempts'[b].pc = "calling" -> seen[b] \cup {Verdict(b)'}
                       [] attempts'[b].pc \in Responses -> seen[b]
                       [] attempts'[b].pc \notin Calling -> {}
<1>1. seen' = [b \in Attempts |-> new(b)]
  BY DEF Observe
<1>2. "calling" \notin Responses /\ Responses \subseteq Calling /\ "calling" \in Calling
  BY DEF Responses, Calling
<1>3. seen'[a] = new(a)
  <2> HIDE DEF new
  <2>1. QED
    BY <1>1
<1>4. attempts'[a].pc = "calling" => new(a) = seen[a] \cup {Verdict(a)'}
  BY <1>2
<1>5. attempts'[a].pc \in Responses => new(a) = seen[a]
  BY <1>2
<1>6. attempts'[a].pc \notin Calling => new(a) = {}
  BY <1>2
<1>7. QED
  <2> HIDE DEF new
  <2>1. QED
    BY <1>3, <1>4, <1>5, <1>6

SeenTyped == seen \in [Attempts -> SUBSET Responses]

(* What Observe records are responses.                                      *)
LEMMA SeenTypedNext ==
  ASSUME SeenTyped, [Next]_vars
  PROVE  SeenTyped'
<1>1. CASE Observe
  <2>1. \A a \in Attempts : Verdict(a)' \in Responses
    BY DEF Verdict, Responses
  <2>2. ASSUME NEW a \in Attempts
        PROVE  seen'[a] \in SUBSET Responses
    <3>1. attempts'[a].pc = "calling" \/ attempts'[a].pc \in Responses \/ attempts'[a].pc \notin Calling
      BY DEF Calling
    <3>2. seen'[a] = seen[a] \cup {Verdict(a)'} \/ seen'[a] = seen[a] \/ seen'[a] = {}
      BY <1>1, <3>1, ObserveAt
    <3>3. QED
      BY <2>1, <3>2 DEF SeenTyped
  <2>3. seen' = [a \in Attempts |-> seen'[a]]
    <3> DEFINE new(b) == CASE attempts'[b].pc = "calling" -> seen[b] \cup {Verdict(b)'}
                           [] attempts'[b].pc \in Responses -> seen[b]
                           [] attempts'[b].pc \notin Calling -> {}
    <3>1. seen' = [b \in Attempts |-> new(b)]
      BY <1>1 DEF Observe
    <3> HIDE DEF new
    <3>2. QED
      BY <3>1
  <2>4. QED
    BY <2>2, <2>3 DEF SeenTyped
<1>2. CASE UNCHANGED vars
  BY <1>2 DEF vars, SeenTyped
<1>3. QED
  BY <1>1, <1>2 DEF Next

(* Types of every variable of a login and a sign-up.                        *)
THEOREM TypeCorrect == Spec => []TypeOK
<1>1. Init => SeenTyped
  BY DEF Init, SeenTyped
<1>2. SeenTyped /\ [Next]_vars => SeenTyped'
  BY SeenTypedNext
<1>3. Typed /\ SeenTyped => TypeOK
  BY DEF TypeOK, SeenTyped
<1>4. QED
  BY TypedAlways, <1>1, <1>2, <1>3, PTL DEF Spec

-----------------------------------------------------------------------------
(* Sign-up                                                                  *)

(* The account of a sign-up's name is its own.                              *)
Owned(s) ==
  /\ accounts[signups[s].name] # NoAccount
  /\ accounts[signups[s].name].owner = s

(* A sign-up the API still has to answer, or has refused, owns no account;  *)
(* one it accepted does; and who was told of a refusal waits for nothing.   *)
SignupInv ==
  \A s \in Signups :
    /\ signups[s].response \in {"none", "working", "authentication_failed"} \cup Refusals => ~Owned(s)
    /\ signups[s].response = "success" \/ signups[s].told = "created" => Owned(s)
    /\ signups[s].told \in {"disabled", "conflict", "invalid"} =>
         ~Owned(s) /\ (signups[s].response = "gone" \/ (signups[s].response = "none" /\ ~settings.ui))

(* No step takes an account away or gives it to another sign-up.            *)
LEMMA AccountsLast ==
  ASSUME Typed, [Next]_vars, NEW n \in Names, accounts[n] # NoAccount
  PROVE  /\ accounts'[n] # NoAccount
         /\ accounts'[n].owner = accounts[n].owner
<1>1. CASE accounts' = accounts
  BY <1>1
<1>2. ASSUME NEW m \in Names, NEW new, accounts[m] = NoAccount, accounts' = [accounts EXCEPT ![m] = new]
      PROVE  accounts'[n] = accounts[n]
  BY <1>2 DEF Typed
<1>3. ASSUME NEW m \in Names, SetActive(m)
      PROVE  /\ accounts'[n] # NoAccount
             /\ accounts'[n].owner = accounts[n].owner
  <2>1. accounts[m] \in Accounts
    BY <1>3 DEF SetActive, Typed
  <2>2. [accounts[m] EXCEPT !.active = ~@] \in Accounts
    BY <2>1 DEF Accounts
  <2>3. NoAccount \notin Accounts
    BY LoginAssumption DEF Accounts, Passwords
  <2>4. QED
    BY <1>3, <2>1, <2>2, <2>3 DEF SetActive, Typed, Accounts
<1>4. ASSUME NEW s \in Signups, Signup(s)
      PROVE  \/ accounts' = accounts
             \/ \E m \in Names, new \in Accounts :
                  accounts[m] = NoAccount /\ accounts' = [accounts EXCEPT ![m] = new]
  <2>1. signups[s].name \in Names /\ NewAccount(s) \in Accounts
    BY NewAccountTyped DEF Typed
  <2>2. QED
    BY <1>4, <2>1 DEF Signup, SubmitDisabled, Submit, Refuse, Object, Create, Break, Answer, Lose, Tell
<1>5. ASSUME NEW a \in Attempts, Login(a)
      PROVE  accounts' = accounts
  BY <1>5 DEF Login, Check, ApiLogin, Rejected, Unanswered, Count, SetExpiry, Lock, CountInMemory,
              Clear, ClearStore, CutOff
<1>6. ASSUME NEW m \in Names, ScriptCreates(m)
      PROVE  accounts'[n] = accounts[n]
  BY <1>2, <1>6 DEF ScriptCreates
<1>7. ASSUME NEW m \in Names, ExpireCounter(m) \/ ExpireLock(m)
      PROVE  accounts' = accounts
  BY <1>7 DEF ExpireCounter, ExpireLock
<1>8. CASE UNCHANGED vars
  BY <1>8 DEF vars
<1>9. QED
  BY <1>1, <1>2, <1>3, <1>4, <1>5, <1>6, <1>7, <1>8 DEF Next, Step

(* What an action of one sign-up does to the others.                        *)
LEMMA SignupOthers ==
  ASSUME Typed, SignupInv, NEW s \in Signups, NEW t \in Signups \ {s}, signups'[t] = signups[t],
         \/ accounts' = accounts
         \/ /\ accounts[signups[s].name] = NoAccount
            /\ accounts' = [accounts EXCEPT ![signups[s].name] = NewAccount(s)]
  PROVE  Owned(t)' <=> Owned(t)
<1>1. signups[s].name \in Names /\ signups[t].name \in Names
  BY DEF Typed
<1>2. NewAccount(s).owner = s
  BY DEF NewAccount
<1>3. QED
  BY <1>1, <1>2 DEF Owned, Typed

LEMMA SignupKeeps ==
  ASSUME Typed, SignupInv, NEW s \in Signups, Signup(s)
  PROVE  SignupInv'
<1> DEFINE Mine == \/ accounts' = accounts
                   \/ /\ accounts[signups[s].name] = NoAccount
                      /\ accounts' = [accounts EXCEPT ![signups[s].name] = NewAccount(s)]
           Kept == \A t \in Signups \ {s} : signups'[t] = signups[t]
           Here == /\ signups'[s].response \in {"none", "working", "authentication_failed"} \cup Refusals =>
                        ~Owned(s)'
                   /\ signups'[s].response = "success" \/ signups'[s].told = "created" => Owned(s)'
                   /\ signups'[s].told \in {"disabled", "conflict", "invalid"} =>
                        /\ ~Owned(s)'
                        /\ signups'[s].response = "gone" \/ (signups'[s].response = "none" /\ ~settings'.ui)
<1>0. /\ signups[s].name \in Names
      /\ signups \in [Signups -> [name : Names, told : Answers,
                              response : Errors \cup {"none", "working", "success", "gone"}]]
      /\ accounts \in [Names -> Accounts \cup {NoAccount}]
  BY DEF Typed
<1>1. SUFFICES Mine /\ Kept /\ Here /\ settings' = settings
  BY <1>1, SignupOthers DEF SignupInv
<1>2. ASSUME NEW what \in Answers, Tell(s, what), what = "created" => Owned(s),
             what \in {"disabled", "conflict", "invalid"} =>
               ~Owned(s) /\ (signups[s].response \notin {"none", "working"} \/ (signups[s].response = "none" /\ ~settings.ui))
      PROVE  Mine /\ Kept /\ Here /\ settings' = settings
  <2>1. Mine /\ Kept /\ settings' = settings
    BY <1>0, <1>2 DEF Tell
  <2>2. /\ signups'[s].name = signups[s].name /\ signups'[s].told = what
        /\ signups'[s].response = IF signups[s].response \in {"none", "working"}
                                  THEN signups[s].response ELSE "gone"
    BY <1>0, <1>2 DEF Tell
  <2>3. Owned(s)' <=> Owned(s)
    BY <1>2, <2>2 DEF Owned, Tell
  <2>4. "gone" \notin {"none", "working", "authentication_failed"} \cup Refusals
    BY DEF Refusals
  <2>5. QED
    BY <1>2, <2>1, <2>2, <2>3, <2>4 DEF SignupInv
<1>3. ASSUME NEW response \in Errors \cup {"success"}, Respond(s, response), Mine,
             response = "success" => Owned(s)', response \in Errors \ {"internal_error"} => ~Owned(s)'
      PROVE  Mine /\ Kept /\ Here /\ settings' = settings
  <2>1. Mine /\ Kept /\ settings' = settings
    BY <1>0, <1>3 DEF Respond
  <2>2. /\ signups'[s].told = signups[s].told /\ signups'[s].name = signups[s].name
        /\ signups'[s].response = IF signups[s].told = "nothing" THEN response ELSE "gone"
        /\ signups[s].response = "working"
    BY <1>0, <1>3 DEF Respond
  <2>3. signups[s].told \notin {"disabled", "conflict", "invalid", "created"}
    BY <2>2 DEF SignupInv
  <2>4. /\ "gone" \notin {"none", "working", "authentication_failed"} \cup Refusals
        /\ "internal_error" \notin {"none", "working", "authentication_failed"} \cup Refusals
        /\ {"authentication_failed"} \cup Refusals \subseteq Errors \ {"internal_error"}
        /\ response # "none" /\ response # "working"
    BY DEF Errors, Refusals
  <2>5. QED
    BY <1>3, <2>1, <2>2, <2>3, <2>4 DEF Errors, Refusals
<1>4. signups[s].response = "working" => ~Owned(s)
  BY DEF SignupInv
<1>5. NewAccount(s) # NoAccount /\ NewAccount(s).owner = s
  BY LoginAssumption, NewAccountTyped DEF NewAccount, Accounts, Passwords
<1>6. CASE SubmitDisabled(s)
  <2>1. "disabled" \in Answers /\ ~Owned(s)
    BY <1>6 DEF SubmitDisabled, Answers, SignupInv
  <2>2. QED
    BY <1>2, <1>6, <2>1 DEF SubmitDisabled
<1>7. CASE Submit(s)
  <2>1. Kept /\ Mine /\ settings' = settings
    BY <1>0, <1>7 DEF Submit
  <2>2. /\ signups'[s].name = signups[s].name /\ signups'[s].told = signups[s].told
        /\ signups'[s].response = "working" /\ signups[s].response = "none" /\ settings.ui
    BY <1>0, <1>7 DEF Submit
  <2>3. Owned(s)' <=> Owned(s)
    BY <1>7, <2>2 DEF Owned, Submit
  <2>4. QED
    BY <2>1, <2>2, <2>3 DEF SignupInv
<1>8. CASE Refuse(s) \/ Object(s)
  <2>1. PICK error \in {"authentication_failed", "validation_error", "signup_disabled", "invalid_signup"} :
          Respond(s, error)
    BY <1>8 DEF Refuse, Object
  <2>2. error \in Errors /\ error # "success"
    BY DEF Errors, Refusals
  <2>3. signups'[s].name = signups[s].name /\ accounts' = accounts /\ signups[s].response = "working"
    BY <1>0, <1>8, <2>1 DEF Respond, Refuse, Object
  <2>4. ~Owned(s)'
    BY <1>4, <2>3 DEF Owned
  <2>5. QED
    BY <1>3, <2>1, <2>2, <2>3, <2>4
<1>9. CASE Create(s)
  <2>1. CASE accounts[signups[s].name] = NoAccount
    <3>1. /\ accounts' = [accounts EXCEPT ![signups[s].name] = NewAccount(s)]
          /\ Respond(s, "success")
      BY <1>9, <2>1 DEF Create
    <3>2. signups'[s].name = signups[s].name
      BY <1>0, <3>1 DEF Respond
    <3>3. Owned(s)'
      BY <1>0, <1>5, <3>1, <3>2 DEF Owned
    <3>4. QED
      BY <1>3, <2>1, <3>1, <3>3 DEF Errors, Refusals
  <2>2. CASE accounts[signups[s].name] # NoAccount
    <3>1. accounts' = accounts /\ Respond(s, "username_unavailable")
      BY <1>9, <2>2 DEF Create
    <3>2. signups'[s].name = signups[s].name /\ signups[s].response = "working"
      BY <1>0, <3>1 DEF Respond
    <3>3. ~Owned(s)'
      BY <1>4, <3>1, <3>2 DEF Owned
    <3>4. "username_unavailable" \in Errors
      BY DEF Errors, Refusals
    <3>5. QED
      BY <1>3, <3>1, <3>3, <3>4
  <2>3. QED
    BY <2>1, <2>2
<1>10. CASE Break(s)
  <2>1. Respond(s, "internal_error") /\ Mine /\ "internal_error" \in Errors
    BY <1>10 DEF Break, Errors
  <2>2. QED
    BY <1>3, <2>1
<1>11. CASE Answer(s)
  <2>1. /\ signups[s].response \in Errors \cup {"success"}
        /\ Tell(s, AnswerTo(signups[s].response))
    BY <1>11 DEF Answer
  <2>2. AnswerTo(signups[s].response) \in Answers
    BY <2>1 DEF AnswerTo, Answers, Errors, Refusals
  <2>3. AnswerTo(signups[s].response) = "created" => Owned(s)
    BY <2>1 DEF AnswerTo, Errors, Refusals, SignupInv
  <2>4. AnswerTo(signups[s].response) \in {"disabled", "conflict", "invalid"} =>
          ~Owned(s) /\ signups[s].response \notin {"none", "working"}
    <3>1. signups[s].response \notin Refusals => AnswerTo(signups[s].response) \in {"created", "unavailable"}
      BY <2>1 DEF AnswerTo, Errors, Refusals
    <3>2. signups[s].response \in Refusals => ~Owned(s)
      BY DEF SignupInv
    <3>3. "none" \notin Refusals /\ "working" \notin Refusals
      BY DEF Refusals
    <3>4. CASE signups[s].response \in Refusals
      BY <3>2, <3>3, <3>4
    <3>5. CASE signups[s].response \notin Refusals
      BY <3>1, <3>5
    <3>6. QED
      BY <3>4, <3>5
  <2>5. QED
    BY <1>2, <2>1, <2>2, <2>3, <2>4
<1>12. CASE Lose(s)
  <2>1. Tell(s, "unavailable") /\ "unavailable" \in Answers
    BY <1>12 DEF Lose, Answers
  <2>2. QED
    BY <1>2, <2>1
<1>13. QED
  BY <1>6, <1>7, <1>8, <1>9, <1>10, <1>11, <1>12 DEF Signup

LEMMA SignupNext ==
  ASSUME Typed, SignupInv, [Next]_vars
  PROVE  SignupInv'
<1>1. CASE \E s \in Signups : Signup(s)
  BY <1>1, SignupKeeps
<1>2. ASSUME signups' = signups, settings' = settings,
             \A s \in Signups : Owned(s)' <=> Owned(s)
      PROVE  SignupInv'
  BY <1>2 DEF SignupInv
<1>3. \A s \in Signups : s # Script /\ signups[s].name \in Names
  BY LoginAssumption DEF Typed
<1>4. ASSUME NEW n \in Names, ScriptCreates(n)
      PROVE  SignupInv'
  <2>1. PICK active \in BOOLEAN :
          accounts' = [accounts EXCEPT ![n] = [owner |-> Script, active |-> active]]
    BY <1>4 DEF ScriptCreates
  <2>2. accounts[n] = NoAccount
    BY <1>4 DEF ScriptCreates
  <2>3. \A s \in Signups : Owned(s)' <=> Owned(s)
    BY <1>3, <1>4, <2>1, <2>2 DEF Owned, Typed, ScriptCreates
  <2>4. QED
    BY <1>2, <1>4, <2>3 DEF ScriptCreates
<1>5. ASSUME NEW n \in Names, SetActive(n)
      PROVE  SignupInv'
  <2>1. \A m \in Names : accounts[m] = NoAccount => accounts'[m] = NoAccount
    BY <1>5 DEF SetActive, Typed
  <2>2. \A m \in Names : accounts[m] # NoAccount =>
          accounts'[m] # NoAccount /\ accounts'[m].owner = accounts[m].owner
    BY <1>5, AccountsLast DEF Next, Step
  <2>3. \A s \in Signups : Owned(s)' <=> Owned(s)
    BY <1>3, <1>5, <2>1, <2>2 DEF Owned, SetActive
  <2>4. QED
    BY <1>2, <1>5, <2>3 DEF SetActive
<1>6. CASE UNCHANGED <<signups, settings, accounts>>
  BY <1>6, <1>2 DEF Owned
<1>7. ASSUME NEW a \in Attempts, Login(a)
      PROVE  UNCHANGED <<signups, settings, accounts>>
  BY <1>7 DEF Login, Check, ApiLogin, Rejected, Unanswered, Count, SetExpiry, Lock, CountInMemory,
              Clear, ClearStore, CutOff
<1>8. ASSUME NEW n \in Names, ExpireCounter(n) \/ ExpireLock(n)
      PROVE  UNCHANGED <<signups, settings, accounts>>
  BY <1>8 DEF ExpireCounter, ExpireLock
<1>9. CASE UNCHANGED vars
  BY <1>6, <1>9 DEF vars
<1>10. QED
  BY <1>1, <1>4, <1>5, <1>6, <1>7, <1>8, <1>9 DEF Next, Step

(* Of all the sign-ups for a name, answered or not, only the one that owns  *)
(* its account is told that it was created, and one told of a refusal owns  *)
(* none.                                                                    *)
THEOREM SignupToldTruthAlways == Spec => []SignupToldTruth
<1>1. Init => SignupInv
  BY DEF Init, SignupInv, Owned, Refusals
<1>2. Typed /\ SignupInv /\ [Next]_vars => SignupInv'
  BY SignupNext
<1>3. SignupInv => SignupToldTruth
  BY DEF SignupInv, SignupToldTruth, Owned
<1>4. QED
  BY TypedAlways, <1>1, <1>2, <1>3, PTL DEF Spec

-----------------------------------------------------------------------------
(* Responses                                                                *)

(* What the accounts now say of an attempt that waits for the API has been  *)
(* seen, and so has the response of one that has it.                        *)
SeenInv ==
  \A a \in Attempts :
    /\ attempts[a].pc = "calling" => Verdict(a) \in seen[a]
    /\ attempts[a].pc \in Responses => attempts[a].pc \in seen[a]

(* Only the API gives an attempt its response.                              *)
LEMMA ResponseArrives ==
  ASSUME Typed, Step, NEW a \in Attempts, attempts'[a].pc \in Responses
  PROVE  attempts'[a] = attempts[a] \/ (ApiLogin(a) /\ attempts'[a].pc = Verdict(a))
<1>1. ASSUME NEW b \in Attempts, Login(b), b # a
      PROVE  attempts'[a] = attempts[a]
  BY <1>1 DEF Typed, Login, Check, ApiLogin, Rejected, Unanswered, Count, SetExpiry, Lock,
              CountInMemory, Clear, ClearStore, CutOff, Goto
<1>2. CASE ApiLogin(a)
  <2>1. LoginResponse(attempts[a].name, attempts[a].password) = Verdict(a)
    BY DEF LoginResponse, Accepts, Verdict
  <2>2. Verdict(a) \in Targets
    BY DEF Verdict, Targets, Responses
  <2>3. Goto(a, Verdict(a)) /\ attempts[a].pc # "idle"
    BY <1>2, <2>1 DEF ApiLogin
  <2>4. QED
    BY <1>2, <2>2, <2>3, GotoGoes
<1>3. ASSUME NEW pc \in {"idle", "counting", "locking", "expiring"}, Goto(a, pc), attempts[a].pc # "idle"
      PROVE  FALSE
  <2>1. pc \in Targets /\ pc \notin Responses
    BY TargetsAre DEF Responses
  <2>2. QED
    BY <1>3, <2>1, GotoGoes
<1>4. ~Check(a)
  BY DEF Check, Started, Typed, Responses
<1>5. ~(Rejected(a) \/ Unanswered(a) \/ Lock(a) \/ CountInMemory(a) \/ Clear(a) \/ CutOff(a))
  BY <1>3, CallingIs DEF Rejected, Unanswered, Lock, CountInMemory, Clear, ClearStore, CutOff
<1>6. ~SetExpiry(a)
  BY <1>3, AfterTyped DEF SetExpiry
<1>7. ~Count(a)
  <2>1. SUFFICES ASSUME Count(a) PROVE FALSE
    OBVIOUS
  <2>2. attempts[a].name \in Names /\ attempts[a].pc # "idle"
    BY <2>1, AttemptShape DEF Count
  <2>3. counter[attempts[a].name] + 1 \in Nat
    BY <2>2 DEF Typed
  <2>4. QED
    BY <1>3, <2>1, <2>2, <2>3, AfterTyped DEF Count
<1>8. CASE \E b \in Attempts : Login(b)
  BY <1>1, <1>2, <1>4, <1>5, <1>6, <1>7, <1>8 DEF Login
<1>9. CASE \E s \in Signups : Signup(s)
  BY <1>9 DEF Signup, SubmitDisabled, Submit, Refuse, Object, Create, Break, Answer, Lose, Respond, Tell
<1>10. CASE \E n \in Names : ScriptCreates(n) \/ SetActive(n) \/ ExpireCounter(n) \/ ExpireLock(n)
  BY <1>10 DEF ScriptCreates, SetActive, ExpireCounter, ExpireLock
<1>11. QED
  BY <1>8, <1>9, <1>10 DEF Step

LEMMA SeenNext ==
  ASSUME Typed, SeenInv, [Next]_vars
  PROVE  SeenInv'
<1>1. CASE UNCHANGED vars
  BY <1>1 DEF vars, SeenInv, Verdict
<1>2. ASSUME Step, Observe, NEW a \in Attempts
      PROVE  /\ attempts'[a].pc = "calling" => Verdict(a)' \in seen'[a]
             /\ attempts'[a].pc \in Responses => attempts'[a].pc \in seen'[a]
  <2>1. "calling" \notin Responses
    BY DEF Responses
  <2>2. CASE attempts'[a].pc = "calling"
    BY <1>2, <2>1, <2>2, ObserveAt
  <2>3. CASE attempts'[a].pc \in Responses
    <3>1. seen'[a] = seen[a]
      BY <1>2, <2>3, ObserveAt
    <3>2. attempts'[a].pc \in seen[a]
      BY <1>2, <2>3, ResponseArrives DEF SeenInv, ApiLogin
    <3>3. QED
      BY <2>1, <2>3, <3>1, <3>2
  <2>4. QED
    BY <2>2, <2>3
<1>3. QED
  BY <1>1, <1>2 DEF SeenInv, Next

(* However accounts are created, approved and deactivated while a login is  *)
(* under way, its response was right at some moment of it: nobody is signed *)
(* in with the password of an account that was inactive all the while, and  *)
(* nobody's failure is counted whose account was active all the while.      *)
THEOREM LoginAnswerWasRightAlways == Spec => []LoginAnswerWasRight
<1>1. Init => SeenInv
  BY DEF Init, SeenInv, NoAttempt, Responses
<1>2. Typed /\ SeenInv /\ [Next]_vars => SeenInv'
  BY SeenNext
<1>3. SeenInv => LoginAnswerWasRight
  BY DEF SeenInv, LoginAnswerWasRight
<1>4. QED
  BY TypedAlways, <1>1, <1>2, <1>3, PTL DEF Spec

-----------------------------------------------------------------------------
(* The attempts at some step for a name                                     *)

InOf(at, pcs, n) == {a \in Attempts : at[a].pc \in pcs /\ at[a].name = n}
In(pcs, n) == InOf(attempts, pcs, n)

(* An attempt that moves joins the sets it arrives in and leaves the others,*)
(* and the numbers follow.                                                  *)
LEMMA NumberMoves ==
  ASSUME NEW at, NEW then, NEW a \in Attempts, \A b \in Attempts \ {a} : then[b] = at[b], NEW pcs, NEW n
  PROVE  /\ Cardinality(InOf(at, pcs, n)) \in Nat
         /\ Cardinality(InOf(then, pcs, n)) =
              IF a \in InOf(then, pcs, n)
              THEN IF a \in InOf(at, pcs, n) THEN Cardinality(InOf(at, pcs, n))
                                             ELSE Cardinality(InOf(at, pcs, n)) + 1
              ELSE IF a \in InOf(at, pcs, n) THEN Cardinality(InOf(at, pcs, n)) - 1
                                             ELSE Cardinality(InOf(at, pcs, n))
<1>1. IsFiniteSet(InOf(at, pcs, n))
  BY LoginAssumption, FS_Subset DEF InOf
<1>2. Cardinality(InOf(at, pcs, n)) \in Nat
  BY <1>1, FS_CardinalityType
<1>3. CASE a \in InOf(then, pcs, n)
  <2>1. InOf(then, pcs, n) = InOf(at, pcs, n) \cup {a}
    BY <1>3 DEF InOf
  <2>2. QED
    BY <1>1, <1>2, <1>3, <2>1, FS_AddElement
<1>4. CASE a \notin InOf(then, pcs, n)
  <2>1. InOf(then, pcs, n) = InOf(at, pcs, n) \ {a}
    BY <1>4 DEF InOf
  <2>2. QED
    BY <1>1, <1>2, <1>4, <2>1, FS_RemoveElement
<1>5. QED
  BY <1>3, <1>4

(* The steps at which an attempt is sure to lock the name in the end.       *)
Locking == {"counting", "locking"} \cup (IF MaxFailures = 1 THEN {"expiring"} ELSE {})

Counting(n) == Cardinality(In({"counting"}, n))
Pending(n) == Cardinality(In(Locking, n))
Asking(n) == Cardinality(In(Calling, n))

LEMMA TwoParts ==
  ASSUME NEW P \in SUBSET Attempts, NEW C \in SUBSET Attempts, P \cap C = {}
  PROVE  /\ Cardinality(P) \in Nat /\ Cardinality(C) \in Nat /\ Cardinality(Attempts) \in Nat
         /\ Cardinality(P) + Cardinality(C) <= Cardinality(Attempts)
<1>1. IsFiniteSet(P) /\ IsFiniteSet(C) /\ IsFiniteSet(Attempts)
  BY LoginAssumption, FS_Subset
<1>2. Cardinality(P) \in Nat /\ Cardinality(C) \in Nat /\ Cardinality(Attempts) \in Nat
  BY <1>1, FS_CardinalityType
<1>3. Cardinality(P \cup C) = Cardinality(P) + Cardinality(C) - Cardinality(P \cap C)
  BY <1>1, FS_Union
<1>4. Cardinality(P \cap C) = 0
  BY FS_EmptySet
<1>5. P \cup C \in SUBSET Attempts
  OBVIOUS
<1>6. Cardinality(P \cup C) <= Cardinality(Attempts)
  BY <1>1, <1>5, FS_Subset
<1>7. QED
  BY <1>2, <1>3, <1>4, <1>6

LEMMA NumbersBounded ==
  ASSUME NEW n
  PROVE  /\ Counting(n) \in Nat /\ Pending(n) \in Nat /\ Asking(n) \in Nat
         /\ Counting(n)' \in Nat /\ Pending(n)' \in Nat /\ Asking(n)' \in Nat
         /\ Cardinality(Attempts) \in Nat
         /\ Pending(n) + Asking(n) <= Cardinality(Attempts)
         /\ Pending(n)' + Asking(n)' <= Cardinality(Attempts)
<1>1. /\ In({"counting"}, n) \in SUBSET Attempts /\ In({"counting"}, n)' \in SUBSET Attempts
      /\ In(Locking, n) \in SUBSET Attempts /\ In(Locking, n)' \in SUBSET Attempts
      /\ In(Calling, n) \in SUBSET Attempts /\ In(Calling, n)' \in SUBSET Attempts
  BY DEF In, InOf
<1>2. Calling \cap Locking = {}
  BY CallingIs DEF Locking
<1>3. In(Locking, n) \cap In(Calling, n) = {} /\ In(Locking, n)' \cap In(Calling, n)' = {}
  BY <1>2 DEF In, InOf
<1>4. Pending(n) + Asking(n) <= Cardinality(Attempts)
  BY <1>1, <1>3, TwoParts DEF Pending, Asking
<1>5. Pending(n)' + Asking(n)' <= Cardinality(Attempts)
  BY <1>1, <1>3, TwoParts DEF Pending, Asking
<1>6. {} \in SUBSET Attempts
  OBVIOUS
<1>7. \A S \in SUBSET Attempts : Cardinality(S) \in Nat /\ Cardinality(Attempts) \in Nat
  BY <1>6, TwoParts
<1>8. QED
  BY <1>1, <1>4, <1>5, <1>7 DEF Counting, Pending, Asking

(* Of an attempt that moves from one step to another: its name's numbers    *)
(* change accordingly, and those of the other names do not.                 *)
LEMMA GotoMoves ==
  ASSUME Typed, NEW a \in Attempts, attempts[a].pc # "idle",
         NEW pc \in Targets, Goto(a, pc), NEW n
  PROVE  /\ attempts[a].name # n =>
              Counting(n)' = Counting(n) /\ Pending(n)' = Pending(n) /\ Asking(n)' = Asking(n)
         /\ attempts[a].name = n =>
              /\ Counting(n)' = Counting(n) + (IF pc = "counting" THEN 1 ELSE 0)
                                             - (IF attempts[a].pc = "counting" THEN 1 ELSE 0)
              /\ Pending(n)' = Pending(n) + (IF pc \in Locking THEN 1 ELSE 0)
                                           - (IF attempts[a].pc \in Locking THEN 1 ELSE 0)
              /\ Asking(n)' = Asking(n) + (IF pc \in Calling THEN 1 ELSE 0)
                                         - (IF attempts[a].pc \in Calling THEN 1 ELSE 0)
<1>1. "idle" \notin Locking /\ "idle" \notin Calling
  BY CallingIs DEF Locking
<1>3. /\ attempts'[a].pc = pc
      /\ pc # "idle" => attempts'[a].name = attempts[a].name
      /\ \A b \in Attempts \ {a} : attempts'[b] = attempts[b]
  BY GotoGoes
<1>6. ASSUME NEW pcs, "idle" \notin pcs
      PROVE  /\ Cardinality(In(pcs, n)) \in Nat
             /\ attempts[a].name # n => Cardinality(In(pcs, n)') = Cardinality(In(pcs, n))
             /\ attempts[a].name = n =>
                  Cardinality(In(pcs, n)') = Cardinality(In(pcs, n)) + (IF pc \in pcs THEN 1 ELSE 0)
                                              - (IF attempts[a].pc \in pcs THEN 1 ELSE 0)
  <2>1. a \in InOf(attempts, pcs, n) <=> attempts[a].pc \in pcs /\ attempts[a].name = n
    BY DEF InOf
  <2>2. a \in InOf(attempts', pcs, n) <=> pc \in pcs /\ attempts[a].name = n
    BY <1>3, <1>6 DEF InOf
  <2>3. QED
    BY <1>3, <2>1, <2>2, NumberMoves DEF In
<1>7. QED
  BY <1>1, <1>6 DEF Counting, Pending, Asking

(* An attempt that begins calls; nothing else about it counts.              *)
LEMMA CheckMoves ==
  ASSUME Typed, NEW a \in Attempts, Check(a), NEW n \in Names
  PROVE  /\ Counting(n)' = Counting(n)
         /\ Pending(n)' = Pending(n)
         /\ locked[n] => Asking(n)' = Asking(n)
<1>1. PICK m \in Names, p \in Passwords :
        ~locked[m] /\ attempts' = [attempts EXCEPT ![a] = Started(m, p)]
  BY DEF Check, IsLocked
<1>2. Started(m, p).pc = "calling" /\ Started(m, p).name = m
  BY DEF Started
<1>3. \A pcs : "idle" \notin pcs => a \notin In(pcs, n)
  BY DEF In, InOf, Check
<1>4. {"idle", "calling"} \cap Locking = {} /\ "idle" \notin Calling /\ "calling" \in Calling
  BY CallingIs DEF Locking
<1>5. attempts'[a] = Started(m, p) /\ \A b \in Attempts \ {a} : attempts'[b] = attempts[b]
  BY <1>1 DEF Typed
<1>6. ASSUME NEW pcs, "idle" \notin pcs
      PROVE  Cardinality(In(pcs, n)') =
               IF "calling" \in pcs /\ m = n THEN Cardinality(In(pcs, n)) + 1 ELSE Cardinality(In(pcs, n))
  <2>1. a \notin InOf(attempts, pcs, n)
    BY <1>3, <1>6 DEF In
  <2>2. a \in InOf(attempts', pcs, n) <=> "calling" \in pcs /\ m = n
    BY <1>2, <1>5 DEF InOf
  <2>3. QED
    BY <1>5, <2>1, <2>2, NumberMoves DEF In
<1>7. QED
  BY <1>1, <1>4, <1>6 DEF Counting, Pending, Asking

-----------------------------------------------------------------------------
(* The lockout                                                              *)

(* The failures counted, and those about to be, are refusals; whoever locks *)
(* a name, or is about to, has counted enough of them.                      *)
EarnedInv ==
  \A n \in Names :
    /\ counter[n] + Counting(n) <= wrong[n]
    /\ locked[n] => wrong[n] >= MaxFailures
    /\ In({"locking"}, n) # {} => wrong[n] >= MaxFailures
    /\ In({"expiring"}, n) # {} => wrong[n] >= 1

(* The refusals since the last expiry are counted, about to be, or cut off; *)
(* while the name is not locked, those above the limit have an attempt that *)
(* will lock it; once it is, only the attempts that asked before go on.     *)
BoundInv ==
  \A n \in Names :
    /\ guesses[n] <= counter[n] + Counting(n) + cut[n]
    /\ ~locked[n] => guesses[n] + 1 <= MaxFailures + Pending(n) + cut[n]
    /\ locked[n] => guesses[n] + Asking(n) + 1 <= MaxFailures + Cardinality(Attempts) + cut[n]

(* The sets of attempts that EarnedInv asks about only grow by arrivals.    *)
LEMMA InGrows ==
  ASSUME Typed, NEW a \in Attempts, attempts[a].pc # "idle",
         NEW pc \in Targets, Goto(a, pc),
         NEW n \in Names, NEW there \in {"locking", "expiring"}, In({there}, n)' # {}
  PROVE  In({there}, n) # {} \/ (pc = there /\ attempts[a].name = n)
<1>1. PICK b \in Attempts : attempts'[b].pc = there /\ attempts'[b].name = n
  BY DEF In, InOf
<1>2. CASE b # a
  <2>1. attempts[b] = attempts'[b]
    BY <1>2, GotoGoes
  <2>2. QED
    BY <1>1, <2>1 DEF In, InOf
<1>3. CASE b = a
  BY <1>1, <1>3, GotoGoes
<1>4. QED
  BY <1>2, <1>3

LEMMA NoneArrives ==
  ASSUME Typed, NEW a \in Attempts, attempts[a].pc # "idle",
         NEW pc \in {"idle", "counting"} \cup Responses, Goto(a, pc), NEW n \in Names
  PROVE  \A there \in {"locking", "expiring"} : In({there}, n)' # {} => In({there}, n) # {}
<1> SUFFICES ASSUME NEW there \in {"locking", "expiring"}, In({there}, n)' # {}
             PROVE  In({there}, n) # {}
  OBVIOUS
<1>1. pc \in Targets /\ pc # there
  BY TargetsAre DEF Targets, Responses
<1>2. In({there}, n) # {} \/ (pc = there /\ attempts[a].name = n)
  BY <1>1, InGrows
<1>3. QED
  BY <1>1, <1>2

(* Who is counting is pending.                                              *)
LEMMA CountingPending ==
  ASSUME NEW n
  PROVE  Counting(n)' <= Pending(n)'
<1>1. In({"counting"}, n)' \subseteq In(Locking, n)'
  BY DEF In, InOf, Locking
<1>2. IsFiniteSet(In(Locking, n)')
  BY LoginAssumption, FS_Subset DEF In, InOf
<1>3. QED
  BY <1>1, <1>2, FS_Subset DEF Counting, Pending

(* No step breaks either of the two invariants.                             *)
LEMMA LockoutNext ==
  ASSUME Typed, Typed', EarnedInv, BoundInv, [Next]_vars
  PROVE  EarnedInv' /\ BoundInv'
<1> USE LoginAssumption
<1> DEFINE Earned(n) == /\ counter[n] + Counting(n) <= wrong[n]
                        /\ locked[n] => wrong[n] >= MaxFailures
                        /\ In({"locking"}, n) # {} => wrong[n] >= MaxFailures
                        /\ In({"expiring"}, n) # {} => wrong[n] >= 1
           Bound(n) ==
             /\ guesses[n] <= counter[n] + Counting(n) + cut[n]
             /\ ~locked[n] => guesses[n] + 1 <= MaxFailures + Pending(n) + cut[n]
             /\ locked[n] => guesses[n] + Asking(n) + 1 <= MaxFailures + Cardinality(Attempts) + cut[n]
<1>1. SUFFICES ASSUME NEW n \in Names
               PROVE  Earned(n)' /\ Bound(n)'
  BY DEF EarnedInv, BoundInv
<1>2. Earned(n) /\ Bound(n)
  BY DEF EarnedInv, BoundInv
<1>3. /\ counter[n] \in Nat /\ wrong[n] \in Nat /\ guesses[n] \in Nat /\ cut[n] \in Nat
      /\ locked[n] \in BOOLEAN
      /\ counter'[n] \in Nat /\ wrong'[n] \in Nat /\ guesses'[n] \in Nat /\ cut'[n] \in Nat
      /\ locked'[n] \in BOOLEAN
      /\ MaxFailures \in Nat \ {0}
  BY DEF Typed
<1>4. /\ Counting(n) \in Nat /\ Pending(n) \in Nat /\ Asking(n) \in Nat
      /\ Counting(n)' \in Nat /\ Pending(n)' \in Nat /\ Asking(n)' \in Nat
      /\ Cardinality(Attempts) \in Nat
      /\ Pending(n) + Asking(n) <= Cardinality(Attempts)
      /\ Pending(n)' + Asking(n)' <= Cardinality(Attempts)
  BY NumbersBounded
<1>5. CASE UNCHANGED <<attempts, store, history>>
  BY <1>2, <1>5 DEF store, history, In, InOf, Counting, Pending, Asking
<1>6. ASSUME NEW a \in Attempts, Login(a), attempts[a].pc # "idle", attempts[a].name # n
      PROVE  Earned(n)' /\ Bound(n)'
  <2>1. attempts[a].name \in Names
    BY <1>6, AttemptShape
  <2>2. PICK pc \in Targets : Goto(a, pc)
    <3>1. counter[attempts[a].name] + 1 \in Nat
      BY <2>1 DEF Typed
    <3>2. QED
      BY <1>6, <3>1, AfterTyped, ResponseIs, TargetsAre DEF Targets, Login, Check, ApiLogin, Rejected, Unanswered, Count, SetExpiry,
                                    Lock, CountInMemory, Clear, ClearStore, CutOff
  <2>3. /\ counter'[n] = counter[n] /\ locked'[n] = locked[n] /\ wrong'[n] = wrong[n]
        /\ guesses'[n] = guesses[n] /\ cut'[n] = cut[n]
    BY <1>6, <2>1 DEF Typed, Login, Check, ApiLogin, Rejected, Unanswered, Count, SetExpiry, Lock,
                      CountInMemory, Clear, ClearStore, CutOff, store, history
  <2>4. Counting(n)' = Counting(n) /\ Pending(n)' = Pending(n) /\ Asking(n)' = Asking(n)
    BY <1>6, <2>2, GotoMoves
  <2>5. \A there \in {"locking", "expiring"} : In({there}, n)' # {} => In({there}, n) # {}
    BY <1>6, <2>2, InGrows
  <2>6. QED
    BY <1>2, <2>3, <2>4, <2>5
<1>7. ASSUME NEW a \in Attempts, attempts[a].pc # "idle", attempts[a].name = n,
              NEW pc \in Targets, Goto(a, pc)
       PROVE  /\ Counting(n)' = Counting(n) + (IF pc = "counting" THEN 1 ELSE 0)
                                             - (IF attempts[a].pc = "counting" THEN 1 ELSE 0)
              /\ Pending(n)' = Pending(n) + (IF pc \in Locking THEN 1 ELSE 0)
                                           - (IF attempts[a].pc \in Locking THEN 1 ELSE 0)
              /\ Asking(n)' = Asking(n) + (IF pc \in Calling THEN 1 ELSE 0)
                                         - (IF attempts[a].pc \in Calling THEN 1 ELSE 0)
              /\ \A there \in {"locking", "expiring"} :
                   In({there}, n)' # {} => In({there}, n) # {} \/ pc = there
  <2>1. ASSUME NEW there \in {"locking", "expiring"}, In({there}, n)' # {}
        PROVE  In({there}, n) # {} \/ pc = there
    BY <1>7, <2>1, InGrows
  <2>2. QED
    BY <1>7, <2>1, GotoMoves
<1>8. ASSUME NEW a \in Attempts, Login(a), attempts[a].pc # "idle", attempts[a].name = n
      PROVE  Earned(n)' /\ Bound(n)'
  <2>1. CASE Rejected(a)
    <3>1. /\ attempts[a].pc = "invalid_credentials" /\ Goto(a, "counting")
          /\ wrong'[n] = wrong[n] + 1 /\ guesses'[n] = guesses[n] + 1
          /\ counter'[n] = counter[n] /\ locked'[n] = locked[n] /\ cut'[n] = cut[n]
      BY <1>8, <2>1 DEF Rejected, Typed, store
    <3>2. /\ attempts[a].pc # "counting" /\ attempts[a].pc \notin Locking
          /\ "counting" \in Locking /\ "counting" \in Targets
          /\ attempts[a].pc \in Calling /\ "counting" \notin Calling
      BY <3>1, CallingIs, TargetsAre DEF Locking
    <3>3. /\ Counting(n)' = Counting(n) + 1 /\ Pending(n)' = Pending(n) + 1
          /\ Asking(n)' = Asking(n) - 1
      BY <1>4, <1>8, <3>1, <3>2, GotoMoves
    <3>4. \A there \in {"locking", "expiring"} : In({there}, n)' # {} => In({there}, n) # {}
      <4>1. Goto(a, "counting") /\ attempts[a].pc # "idle"
        BY <1>8, <3>1
      <4>2. QED
        BY <4>1, NoneArrives
    <3>5. QED
      BY <1>2, <1>3, <1>4, <3>1, <3>3, <3>4
  <2>2. CASE ApiLogin(a) \/ Unanswered(a)
    <3>0. PICK pc \in {"idle"} \cup Responses : Goto(a, pc)
      BY <2>2, ResponseIs DEF ApiLogin, Unanswered
    <3>1. /\ attempts[a].pc \in Calling
          /\ wrong'[n] = wrong[n] /\ guesses'[n] = guesses[n]
          /\ counter'[n] = counter[n] /\ locked'[n] = locked[n] /\ cut'[n] = cut[n]
      BY <2>2, CallingIs DEF ApiLogin, Unanswered, store, history
    <3>2. /\ attempts[a].pc # "counting" /\ attempts[a].pc \notin Locking
          /\ pc \in Targets /\ pc # "counting" /\ pc \notin Locking
      BY <3>0, <3>1, CallingIs DEF Targets, Responses, Locking
    <3>3. /\ Counting(n)' = Counting(n) /\ Pending(n)' = Pending(n)
          /\ Asking(n)' = Asking(n) \/ Asking(n)' = Asking(n) - 1
      BY <1>4, <1>8, <1>7, <3>0, <3>1, <3>2
    <3>4. \A there \in {"locking", "expiring"} : In({there}, n)' # {} => In({there}, n) # {}
      BY <1>8, <3>0, NoneArrives
    <3>5. QED
      BY <1>2, <1>3, <1>4, <3>1, <3>3, <3>4
  <2>3. CASE Count(a)
    <3>1. PICK pc \in Targets :
            pc \in {"idle", "locking", "expiring"} /\ pc = AfterCount(counter[n] + 1)
      BY <1>3, AfterTyped, TargetsAre
    <3>2. /\ attempts[a].pc = "counting" /\ Goto(a, pc)
          /\ counter'[n] = counter[n] + 1 /\ locked'[n] = locked[n]
          /\ wrong'[n] = wrong[n] /\ guesses'[n] = guesses[n] /\ cut'[n] = cut[n]
      BY <1>8, <2>3, <3>1 DEF Count, Typed, history
    <3>3. /\ Counting(n)' = Counting(n) - 1 /\ Asking(n)' = Asking(n)
          /\ Pending(n)' = Pending(n) + (IF pc \in Locking THEN 1 ELSE 0)
                                       - (IF "counting" \in Locking THEN 1 ELSE 0)
      BY <1>4, <1>8, <1>7, <3>1, <3>2, CallingIs
    <3>4. \A there \in {"locking", "expiring"} :
            In({there}, n)' # {} => In({there}, n) # {} \/ pc = there
      BY <1>8, <1>7, <3>1, <3>2
    <3>5. pc = "locking" => counter'[n] >= MaxFailures
      BY <1>3, <3>1, <3>2 DEF AfterCount, AfterExpiry
    <3>6. counter'[n] < MaxFailures \/ Pending(n)' = Pending(n)
      BY <1>3, <1>4, <3>1, <3>2, <3>3 DEF AfterCount, AfterExpiry, Locking
    <3>7. Earned(n)'
      BY <1>2, <1>3, <1>4, <3>2, <3>3, <3>4, <3>5
    <3>8. Bound(n)'
      BY <1>2, <1>3, <1>4, <3>2, <3>3, <3>6, CountingPending
    <3>9. QED
      BY <3>7, <3>8
  <2>4. CASE SetExpiry(a)
    <3>1. /\ attempts[a].pc = "expiring" /\ Goto(a, AfterExpiry(1))
          /\ counter'[n] = counter[n] /\ locked'[n] = locked[n]
          /\ wrong'[n] = wrong[n] /\ guesses'[n] = guesses[n] /\ cut'[n] = cut[n]
      BY <2>4 DEF SetExpiry, history
    <3>2. AfterExpiry(1) = IF MaxFailures = 1 THEN "locking" ELSE "idle"
      BY <1>3 DEF AfterExpiry
    <3>3. /\ AfterExpiry(1) \in Locking <=> "expiring" \in Locking
          /\ AfterExpiry(1) \in Targets /\ AfterExpiry(1) \notin Calling /\ "expiring" \notin Calling
      BY <3>2, TargetsAre, CallingIs DEF Locking
    <3>4. Counting(n)' = Counting(n) /\ Pending(n)' = Pending(n) /\ Asking(n)' = Asking(n)
      BY <1>4, <1>8, <3>1, <3>2, <3>3, GotoMoves
    <3>5. In({"expiring"}, n) # {}
      BY <1>8, <3>1 DEF In, InOf
    <3>6. \A there \in {"locking", "expiring"} :
            In({there}, n)' # {} => In({there}, n) # {} \/ (there = "locking" /\ MaxFailures = 1)
      <4>1. PICK pc \in Targets : pc = AfterExpiry(1)
        BY <3>2, TargetsAre
      <4>2. QED
        BY <1>8, <1>7, <3>1, <3>2, <4>1
    <3>7. QED
      BY <1>2, <1>3, <3>1, <3>4, <3>5, <3>6
  <2>5. CASE Lock(a)
    <3>1. /\ attempts[a].pc = "locking" /\ Goto(a, "idle")
          /\ counter'[n] = counter[n] /\ locked'[n] = TRUE
          /\ wrong'[n] = wrong[n] /\ guesses'[n] = guesses[n] /\ cut'[n] = cut[n]
      BY <1>8, <2>5 DEF Lock, Typed, history
    <3>2. Counting(n)' = Counting(n) /\ Asking(n)' = Asking(n)
      BY <1>4, <1>8, <3>1, GotoMoves, TargetsAre, CallingIs
    <3>3. In({"locking"}, n) # {}
      BY <1>8, <3>1 DEF In, InOf
    <3>4. \A there \in {"locking", "expiring"} : In({there}, n)' # {} => In({there}, n) # {}
      <4>1. Goto(a, "idle") /\ attempts[a].pc # "idle"
        BY <1>8, <3>1
      <4>2. QED
        BY <4>1, NoneArrives
    <3>5. QED
      BY <1>2, <1>3, <1>4, <3>1, <3>2, <3>3, <3>4
  <2>6. CASE CountInMemory(a)
    <3>1. /\ attempts[a].pc = "counting" /\ Goto(a, "idle")
          /\ counter'[n] = counter[n] + 1
          /\ locked'[n] <=> locked[n] \/ counter[n] + 1 >= MaxFailures
          /\ wrong'[n] = wrong[n] /\ guesses'[n] = guesses[n] /\ cut'[n] = cut[n]
      BY <1>8, <2>6 DEF CountInMemory, Typed, history
    <3>2. Counting(n)' = Counting(n) - 1 /\ Asking(n)' = Asking(n)
      BY <1>4, <1>8, <3>1, GotoMoves, TargetsAre, CallingIs
    <3>3. \A there \in {"locking", "expiring"} : In({there}, n)' # {} => In({there}, n) # {}
      <4>1. Goto(a, "idle") /\ attempts[a].pc # "idle"
        BY <1>8, <3>1
      <4>2. QED
        BY <4>1, NoneArrives
    <3>4. Earned(n)'
      BY <1>2, <1>3, <1>4, <3>1, <3>2, <3>3
    <3>5. Bound(n)'
      BY <1>2, <1>3, <1>4, <3>1, <3>2, CountingPending
    <3>6. QED
      BY <3>4, <3>5
  <2>7. CASE Clear(a)
    <3>1. /\ attempts[a].pc = "success" /\ Goto(a, "idle")
          /\ counter'[n] = 0 /\ locked'[n] = FALSE /\ guesses'[n] = 0
          /\ wrong'[n] = wrong[n] /\ cut'[n] = cut[n]
      BY <1>8, <2>7 DEF Clear, ClearStore, Typed
    <3>2. Counting(n)' = Counting(n)
      BY <1>4, <1>8, <3>1, GotoMoves, TargetsAre
    <3>3. \A there \in {"locking", "expiring"} : In({there}, n)' # {} => In({there}, n) # {}
      <4>1. Goto(a, "idle") /\ attempts[a].pc # "idle"
        BY <1>8, <3>1
      <4>2. QED
        BY <4>1, NoneArrives
    <3>4. QED
      BY <1>2, <1>3, <1>4, <3>1, <3>2, <3>3
  <2>8. CASE CutOff(a)
    <3>1. /\ attempts[a].pc \notin Calling \cup {"idle"} /\ Goto(a, "idle")
          /\ cut'[n] = cut[n] + 1
          /\ counter'[n] = counter[n] /\ locked'[n] = locked[n]
          /\ wrong'[n] = wrong[n] /\ guesses'[n] = guesses[n]
      BY <1>8, <2>8 DEF CutOff, Typed, store
    <3>2. "idle" \notin Locking /\ "idle" \notin Calling /\ "idle" \in Targets
      BY TargetsAre, CallingIs DEF Locking
    <3>3. /\ Counting(n)' = Counting(n) - (IF attempts[a].pc = "counting" THEN 1 ELSE 0)
          /\ Pending(n)' = Pending(n) - (IF attempts[a].pc \in Locking THEN 1 ELSE 0)
          /\ Asking(n)' = Asking(n)
      BY <1>4, <1>8, <3>1, <3>2, GotoMoves
    <3>4. \A there \in {"locking", "expiring"} : In({there}, n)' # {} => In({there}, n) # {}
      <4>1. Goto(a, "idle") /\ attempts[a].pc # "idle"
        BY <1>8, <3>1
      <4>2. QED
        BY <4>1, NoneArrives
    <3>5. Earned(n)'
      BY <1>2, <1>3, <1>4, <3>1, <3>3, <3>4
    <3>6. Bound(n)'
      BY <1>2, <1>3, <1>4, <3>1, <3>2, <3>3
    <3>7. QED
      BY <3>5, <3>6
  <2>9. QED
    BY <1>8, <2>1, <2>2, <2>3, <2>4, <2>5, <2>6, <2>7, <2>8 DEF Login, Check
<1>9. ASSUME NEW a \in Attempts, Check(a)
      PROVE  Earned(n)' /\ Bound(n)'
  <2>1. /\ counter' = counter /\ locked' = locked /\ wrong' = wrong /\ guesses' = guesses
        /\ cut' = cut
    BY <1>9 DEF Check, store, history
  <2>2. /\ Counting(n)' = Counting(n) /\ Pending(n)' = Pending(n)
        /\ locked[n] => Asking(n)' = Asking(n)
    BY <1>9, CheckMoves
  <2>3. \A there \in {"locking", "expiring"} : In({there}, n)' # {} => In({there}, n) # {}
    BY <1>9 DEF Check, Started, In, InOf, Typed
  <2>4. QED
    BY <1>2, <2>1, <2>2, <2>3
<1>10. ASSUME NEW m \in Names, ExpireCounter(m) \/ ExpireLock(m)
      PROVE  Earned(n)' /\ Bound(n)'
  <2>1. /\ Counting(n)' = Counting(n) /\ Pending(n)' = Pending(n) /\ Asking(n)' = Asking(n)
        /\ In({"locking"}, n)' = In({"locking"}, n) /\ In({"expiring"}, n)' = In({"expiring"}, n)
    BY <1>10 DEF ExpireCounter, ExpireLock, Counting, Pending, Asking, In, InOf
  <2>2. wrong' = wrong /\ cut' = cut
    BY <1>10 DEF ExpireCounter, ExpireLock
  <2>3. CASE m # n
    <3>1. counter'[n] = counter[n] /\ locked'[n] = locked[n] /\ guesses'[n] = guesses[n]
      BY <1>10, <2>3 DEF ExpireCounter, ExpireLock, Typed
    <3>2. QED
      BY <1>2, <2>1, <2>2, <3>1
  <2>4. CASE m = n
    <3>1. /\ guesses'[n] = 0
          /\ counter'[n] = counter[n] \/ counter'[n] = 0
          /\ locked'[n] = locked[n] \/ locked'[n] = FALSE
      BY <1>10, <2>4 DEF ExpireCounter, ExpireLock, Typed
    <3>2. QED
      BY <1>2, <1>3, <1>4, <2>1, <2>2, <3>1
  <2>5. QED
    BY <2>3, <2>4
<1>11. CASE \E s \in Signups : Signup(s)
  BY <1>5, <1>11 DEF Signup, SubmitDisabled, Submit, Refuse, Object, Create, Break, Answer, Lose,
                     Respond, Tell
<1>12. CASE \E m \in Names : ScriptCreates(m) \/ SetActive(m)
  BY <1>5, <1>12 DEF ScriptCreates, SetActive
<1>13. CASE UNCHANGED vars
  BY <1>5, <1>13 DEF vars
<1>14. CASE \E a \in Attempts : Login(a)
  <2>1. PICK a \in Attempts : Login(a)
    BY <1>14
  <2>2. Check(a) \/ attempts[a].pc # "idle"
    BY <2>1, CallingIs DEF Login, Check, ApiLogin, Rejected, Unanswered, Count, SetExpiry, Lock, CountInMemory,
                Clear, ClearStore, CutOff
  <2>3. QED
    BY <1>6, <1>8, <1>9, <2>1, <2>2
<1>15. QED
  BY <1>10, <1>11, <1>12, <1>13, <1>14 DEF Next, Step

LEMMA LockoutInit == Init => EarnedInv /\ BoundInv
<1> SUFFICES ASSUME Init PROVE EarnedInv /\ BoundInv
  OBVIOUS
<1>1. \A pcs, n : "idle" \notin pcs => In(pcs, n) = {}
  BY DEF Init, In, InOf, NoAttempt
<1>2. "idle" \notin Locking /\ "idle" \notin Calling
  BY CallingIs DEF Locking
<1>3. \A n : Counting(n) = 0 /\ Pending(n) = 0 /\ Asking(n) = 0
  BY <1>1, <1>2, FS_EmptySet DEF Counting, Pending, Asking
<1>4. Cardinality(Attempts) \in Nat
  BY LoginAssumption, FS_CardinalityType
<1>5. EarnedInv
  BY <1>1, <1>3, LoginAssumption DEF Init, EarnedInv
<1>6. BoundInv
  BY <1>3, <1>4, LoginAssumption DEF Init, BoundInv
<1>7. QED
  BY <1>5, <1>6

(* Only refusals of the API lock a name, never an outage, a timeout or a    *)
(* wrong API key, and never fewer of them than AUTH_MAX_FAILED_ATTEMPTS.    *)
THEOREM LockIsEarnedAlways == Spec => []LockIsEarned
<1>1. Typed /\ EarnedInv => LockIsEarned
  <2>1. SUFFICES ASSUME Typed, EarnedInv, NEW n \in Names
                 PROVE  counter[n] <= wrong[n] /\ (locked[n] => wrong[n] >= MaxFailures)
    BY DEF LockIsEarned
  <2>2. counter[n] \in Nat /\ wrong[n] \in Nat
    BY <2>1, LoginAssumption DEF Typed
  <2>3. Counting(n) \in Nat
    BY NumbersBounded
  <2>4. QED
    BY <2>1, <2>2, <2>3 DEF EarnedInv
<1>2. Typed /\ Typed' /\ EarnedInv /\ BoundInv /\ [Next]_vars => EarnedInv' /\ BoundInv'
  BY LockoutNext
<1>3. QED
  BY TypedAlways, LockoutInit, <1>1, <1>2, PTL DEF Spec

(* The check and the count of a failure are not atomic, so that a name may  *)
(* be refused more often than the limit before it is locked: by no more     *)
(* than the logins that are under way together, and those cut off.          *)
THEOREM RefusalsBoundedAlways == Spec => []RefusalsBounded
<1>1. Typed /\ BoundInv => RefusalsBounded
  <2>1. SUFFICES ASSUME Typed, BoundInv, NEW n \in Names
                 PROVE  guesses[n] + 1 <= MaxFailures + Cardinality(Attempts) + cut[n]
    BY DEF RefusalsBounded
  <2>2. guesses[n] \in Nat /\ cut[n] \in Nat /\ MaxFailures \in Nat /\ locked[n] \in BOOLEAN
    BY <2>1, LoginAssumption DEF Typed
  <2>3. /\ Pending(n) \in Nat /\ Asking(n) \in Nat /\ Cardinality(Attempts) \in Nat
        /\ Pending(n) + Asking(n) <= Cardinality(Attempts)
    BY NumbersBounded
  <2>4. QED
    BY <2>1, <2>2, <2>3 DEF BoundInv
<1>2. Typed /\ Typed' /\ EarnedInv /\ BoundInv /\ [Next]_vars => EarnedInv' /\ BoundInv'
  BY LockoutNext
<1>3. QED
  BY TypedAlways, LockoutInit, <1>1, <1>2, PTL DEF Spec

-----------------------------------------------------------------------------
(* The counter's expiry                                                     *)

(* A counter without an expiry has an attempt that is about to set it, or   *)
(* that was cut off before it could.                                        *)
LEMMA ExpiryNext ==
  ASSUME Typed, Typed', CounterExpires, [Next]_vars
  PROVE  CounterExpires'
<1> DEFINE Expiring(n) == \E a \in Attempts : attempts[a].pc = "expiring" /\ attempts[a].name = n
           Fine(n) == counter[n] > 0 /\ ~expires[n] => cut[n] > 0 \/ Expiring(n)
<1>1. SUFFICES ASSUME NEW n \in Names PROVE Fine(n)'
  BY DEF CounterExpires
<1>2. Fine(n) /\ counter[n] \in Nat /\ cut[n] \in Nat /\ expires[n] \in BOOLEAN
  BY DEF CounterExpires, Typed
<1>3. ASSUME NEW a \in Attempts, \A b \in Attempts \ {a} : attempts'[b] = attempts[b],
             attempts[a].pc # "expiring" \/ attempts[a].name # n, Expiring(n)
      PROVE  Expiring(n)'
  BY <1>3
<1>4. CASE UNCHANGED <<attempts, counter, expires, cut>>
  BY <1>2, <1>4
<1>5. ASSUME NEW a \in Attempts, Login(a)
      PROVE  Fine(n)'
  <2>1. \A b \in Attempts \ {a} : attempts'[b] = attempts[b]
    BY <1>5 DEF Typed, Login, Check, ApiLogin, Rejected, Unanswered, Count, SetExpiry, Lock,
                CountInMemory, Clear, ClearStore, CutOff, Goto
  <2>2. attempts[a].pc # "idle" => attempts[a].name \in Names
    BY AttemptShape
  <2>3. CASE Count(a)
    <3>1. attempts[a].pc = "counting" /\ attempts[a] \in Attempt \ {NoAttempt}
      BY <2>3, AttemptShape DEF Count
    <3>2. cut'[n] = cut[n] /\ expires'[n] = expires[n]
      BY <2>3 DEF Count, history
    <3>3. CASE attempts[a].name = n /\ counter[n] = 0
      <4>1. Goto(a, "expiring")
        BY <2>3, <3>3 DEF Count, AfterCount
      <4>2. attempts'[a].pc = "expiring" /\ attempts'[a].name = n
        BY <3>1, <3>3, <4>1, GotoGoes, TargetsAre
      <4>3. QED
        BY <4>2
    <3>4. CASE ~(attempts[a].name = n /\ counter[n] = 0)
      <4>1. counter[n] > 0 \/ counter'[n] = 0
        BY <1>2, <2>3, <3>4 DEF Count, Typed
      <4>2. QED
        BY <1>2, <1>3, <2>1, <3>1, <3>2, <4>1
    <3>5. QED
      BY <3>3, <3>4
  <2>4. CASE SetExpiry(a)
    <3>1. cut'[n] = cut[n] /\ counter'[n] = counter[n]
      BY <2>4 DEF SetExpiry, history
    <3>2. CASE attempts[a].name = n
      BY <2>4, <3>1, <3>2 DEF SetExpiry, Typed
    <3>3. CASE attempts[a].name # n
      <4>1. expires'[n] = expires[n]
        BY <2>4, <3>3 DEF SetExpiry, Typed
      <4>2. QED
        BY <1>2, <1>3, <2>1, <3>1, <3>3, <4>1
    <3>4. QED
      BY <3>2, <3>3
  <2>5. CASE CutOff(a)
    <3>1. counter'[n] = counter[n] /\ expires'[n] = expires[n]
      BY <2>5 DEF CutOff, store
    <3>2. CASE attempts[a].pc = "expiring" /\ attempts[a].name = n
      <4>1. cut'[n] = cut[n] + 1
        BY <2>5, <3>2 DEF CutOff, Typed
      <4>2. QED
        BY <1>2, <4>1
    <3>3. CASE ~(attempts[a].pc = "expiring" /\ attempts[a].name = n)
      <4>1. cut[n] > 0 => cut'[n] > 0
        BY <1>2, <2>2, <2>5 DEF CutOff, Typed
      <4>2. QED
        BY <1>2, <1>3, <2>1, <3>1, <3>3, <4>1
    <3>4. QED
      BY <3>2, <3>3
  <2>6. CASE CountInMemory(a) \/ Clear(a)
    <3>1. attempts[a].pc # "expiring" /\ cut'[n] = cut[n]
      BY <2>6 DEF CountInMemory, Clear, ClearStore, history
    <3>2. counter'[n] = 0 \/ expires'[n] \/ (counter'[n] = counter[n] /\ expires'[n] = expires[n])
      BY <2>6 DEF CountInMemory, Clear, ClearStore, Typed
    <3>3. QED
      BY <1>2, <1>3, <2>1, <3>1, <3>2
  <2>7. CASE Check(a) \/ ApiLogin(a) \/ Rejected(a) \/ Unanswered(a) \/ Lock(a)
    <3>1. /\ attempts[a].pc # "expiring" /\ cut'[n] = cut[n]
          /\ counter'[n] = counter[n] /\ expires'[n] = expires[n]
      BY <2>7, CallingIs DEF Check, ApiLogin, Rejected, Unanswered, Lock, store, history
    <3>2. QED
      BY <1>2, <1>3, <2>1, <3>1
  <2>8. QED
    BY <1>5, <2>3, <2>4, <2>5, <2>6, <2>7 DEF Login
<1>6. ASSUME NEW m \in Names, ExpireCounter(m)
      PROVE  Fine(n)'
  <2>1. attempts' = attempts /\ cut' = cut
    BY <1>6 DEF ExpireCounter
  <2>2. counter'[n] = 0 \/ (counter'[n] = counter[n] /\ expires'[n] = expires[n])
    BY <1>6 DEF ExpireCounter, Typed
  <2>3. QED
    BY <1>2, <2>1, <2>2
<1>7. ASSUME NEW m \in Names, ScriptCreates(m) \/ SetActive(m) \/ ExpireLock(m)
      PROVE  UNCHANGED <<attempts, counter, expires, cut>>
  BY <1>7 DEF ScriptCreates, SetActive, ExpireLock, store, history
<1>8. ASSUME NEW s \in Signups, Signup(s)
      PROVE  UNCHANGED <<attempts, counter, expires, cut>>
  BY <1>8 DEF Signup, SubmitDisabled, Submit, Refuse, Object, Create, Break, Answer, Lose, Respond,
              Tell, store, history
<1>9. CASE UNCHANGED vars
  BY <1>4, <1>9 DEF vars, store, history
<1>10. QED
  BY <1>4, <1>5, <1>6, <1>7, <1>8, <1>9 DEF Next, Step

(* INCR and EXPIRE are two commands: a counter that has no expiry and that  *)
(* nobody is about to give one was left by a login cut off between them.    *)
THEOREM CounterExpiresAlways == Spec => []CounterExpires
<1>1. Init => CounterExpires
  BY DEF Init, CounterExpires
<1>2. Typed /\ Typed' /\ CounterExpires /\ [Next]_vars => CounterExpires'
  BY ExpiryNext
<1>3. QED
  BY TypedAlways, <1>1, <1>2, PTL DEF Spec

=============================================================================
