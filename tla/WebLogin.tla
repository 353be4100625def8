------------------------------ MODULE WebLogin ------------------------------
(***************************************************************************)
(* Accounts and logins: the Web UI's authenticate_user (webui/auth.py)     *)
(* with its store of failures (auth_rate_limit.py), its sign-up endpoint   *)
(* (ui_app.py), the client of both (webui/client.py), and the routes, the  *)
(* service and the repository of the API that answer them. Every request   *)
(* to Redis, to the API and to the database is a step of its own, and any  *)
(* of them may fail.                                                       *)
(***************************************************************************)
EXTENDS Naturals, FiniteSets

CONSTANTS
  Names,         \* usernames, stripped
  Signups,       \* sign-up requests; each one's password is its own name
  Attempts,      \* login attempts that may be under way at a time
  Script,        \* the password given to scripts/create_user.py
  NoAccount,
  NoPassword,
  MaxFailures,   \* AUTH_MAX_FAILED_ATTEMPTS
  MaxWrong,      \* bound: refusals of a name
  MaxCuts        \* bound: attempts of a name that are cut off

ASSUME LoginAssumption ==
  /\ Script \notin Signups
  /\ NoPassword \notin Signups \cup {Script}
  /\ NoAccount \notin [owner : Signups \cup {Script}, active : BOOLEAN]
  /\ MaxFailures \in Nat \ {0}
  /\ IsFiniteSet(Attempts)
  /\ MaxWrong \in Nat
  /\ MaxCuts \in Nat

Passwords == Signups \cup {Script}
Accounts == [owner : Passwords, active : BOOLEAN]

VARIABLES
  settings,  \* the store's kind and the sign-up settings of both processes
  accounts,  \* the users table, by username
  signups,   \* per sign-up: its name, the API's response, the Web UI's answer
  attempts,  \* per attempt under way: where it is, its name and password
  counter,   \* auth:failures:<username>, 0 when there is none
  expires,   \* whether that key has an expiry
  locked,    \* whether there is an auth:lockout:<username>
  wrong,     \* history: refusals of the API that reached the Web UI, per name
  guesses,   \* history: those since the counter or the lock last went away
  cut,       \* history: per name, attempts cut off while counting a failure
  seen       \* history: per attempt under way, the responses that were right
             \* at some moment of it

store == <<counter, expires, locked>>
history == <<wrong, guesses, cut>>
vars == <<settings, accounts, signups, attempts, store, history, seen>>

NoAttempt == [pc |-> "idle"]

(* Failures are kept in Redis if the Web UI has a redis_url, in its own     *)
(* memory otherwise; the limits are at least 1.                             *)
Settings == [kind : {"redis", "memory"}, ui : BOOLEAN, api : BOOLEAN, approval : BOOLEAN]

Init ==
  /\ settings \in Settings
  /\ accounts = [n \in Names |-> NoAccount]
  /\ signups \in [Signups -> [name : Names, response : {"none"}, told : {"nothing"}]]
  /\ attempts = [a \in Attempts |-> NoAttempt]
  /\ counter = [n \in Names |-> 0]
  /\ expires = [n \in Names |-> FALSE]
  /\ locked = [n \in Names |-> FALSE]
  /\ wrong = [n \in Names |-> 0]
  /\ guesses = [n \in Names |-> 0]
  /\ cut = [n \in Names |-> 0]
  /\ seen = [a \in Attempts |-> {}]

-----------------------------------------------------------------------------
(* Sign-up                                                                  *)

Refusals == {"signup_disabled", "invalid_signup", "validation_error", "username_unavailable"}
Errors == Refusals \cup {"authentication_failed", "internal_error"}

(* signup_user of the client, then auth_signup: what the Web UI answers.    *)
AnswerTo(response) ==
  CASE response = "success" -> "created"
    [] response = "signup_disabled" -> "disabled"
    [] response = "username_unavailable" -> "conflict"
    [] response \in {"invalid_signup", "validation_error"} -> "invalid"
    [] response \in Errors \ Refusals -> "unavailable"

Tell(s, what) ==
  /\ signups[s].told = "nothing"
  /\ signups' = [signups EXCEPT ![s].told = what,
                   ![s].response = IF @ \in {"none", "working"} THEN @ ELSE "gone"]
  /\ UNCHANGED <<settings, accounts, attempts, store, history>>

(* The form is sent on if the Web UI has sign-up enabled.                   *)
SubmitDisabled(s) == signups[s].response = "none" /\ ~settings.ui /\ Tell(s, "disabled")

Submit(s) ==
  /\ signups[s].response = "none" /\ settings.ui
  /\ signups' = [signups EXCEPT ![s].response = "working"]
  /\ UNCHANGED <<settings, accounts, attempts, store, history>>

(* The API answers; nobody waits for the answer any more, or somebody does. *)
Respond(s, response) ==
  /\ signups[s].response = "working"
  /\ signups' = [signups EXCEPT ![s].response =
                   IF signups[s].told = "nothing" THEN response ELSE "gone"]
  /\ UNCHANGED <<settings, attempts, store, history>>

(* The key is wrong, the command does not fit its schema, or user_signup    *)
(* finds sign-up disabled.                                                  *)
Refuse(s) ==
  /\ \E error \in {"authentication_failed", "validation_error", "signup_disabled"} :
       /\ error = "signup_disabled" => ~settings.api
       /\ Respond(s, error)
  /\ UNCHANGED accounts

(* validate_username, validate_display_name, the confirmation or            *)
(* validate_password_strength objects.                                      *)
Object(s) ==
  /\ settings.api
  /\ Respond(s, "invalid_signup")
  /\ UNCHANGED accounts

NewAccount(s) == [owner |-> s, active |-> ~settings.approval]

(* Mutant: a row with this name is written over.                            *)
Create_Overwrites(s) ==
  /\ settings.api
  /\ accounts' = [accounts EXCEPT ![signups[s].name] = NewAccount(s)]
  /\ Respond(s, "success")

(* create_user: the unique index on the username decides.                   *)
Create(s) ==
  LET n == signups[s].name
  IN  /\ settings.api
      /\ IF accounts[n] = NoAccount
         THEN /\ accounts' = [accounts EXCEPT ![n] = NewAccount(s)]
              /\ Respond(s, "success")
         ELSE Respond(s, "username_unavailable") /\ UNCHANGED accounts

(* The API fails, before it commits the account or after (refresh).         *)
Break(s) ==
  LET n == signups[s].name
  IN  /\ Respond(s, "internal_error")
      /\ \/ UNCHANGED accounts
         \/ /\ settings.api /\ accounts[n] = NoAccount
            /\ accounts' = [accounts EXCEPT ![n] = NewAccount(s)]

Answer(s) ==
  /\ signups[s].response \in Errors \cup {"success"}
  /\ Tell(s, AnswerTo(signups[s].response))

(* The client times out or the connection fails: 502, whatever the API has  *)
(* done with the request or will do.                                        *)
Lose(s) == signups[s].response # "none" /\ Tell(s, "unavailable")

(* scripts/create_user.py, active or not; it refuses a duplicate.           *)
ScriptCreates(n) ==
  /\ accounts[n] = NoAccount
  /\ \E active \in BOOLEAN :
       accounts' = [accounts EXCEPT ![n] = [owner |-> Script, active |-> active]]
  /\ UNCHANGED <<settings, signups, attempts, store, history>>

(* An administrator activates an account, or takes that back.               *)
SetActive(n) ==
  /\ accounts[n] # NoAccount
  /\ accounts' = [accounts EXCEPT ![n].active = ~@]
  /\ UNCHANGED <<settings, signups, attempts, store, history>>

-----------------------------------------------------------------------------
(* Login: authenticate_user                                                 *)

(* Once the API has answered, the password is not looked at again.          *)
Goto(a, pc) ==
  attempts' = [attempts EXCEPT ![a] =
    IF pc = "idle" THEN NoAttempt ELSE [pc |-> pc, name |-> @.name, password |-> NoPassword]]

Started(n, password) == [pc |-> "calling", name |-> n, password |-> password]

IsLocked(n) == locked[n]

(* is_locked. A locked name is refused without a word to the API.           *)
Check(a) ==
  /\ attempts[a].pc = "idle"
  /\ \E n \in Names, p \in Passwords :
       /\ ~IsLocked(n)
       /\ attempts' = [attempts EXCEPT ![a] = Started(n, p)]
  /\ UNCHANGED <<settings, accounts, signups, store, history>>

(* Mutant: an account that waits for its approval is not told apart.        *)
Accepts_Inactive(n, password) == accounts[n] # NoAccount /\ accounts[n].owner = password

(* authenticate_password_user.                                              *)
Accepts(n, password) ==
  /\ accounts[n] # NoAccount
  /\ accounts[n].active
  /\ accounts[n].owner = password

(* internal_user_login: the row is read, and what it is then decides; the   *)
(* response travels.                                                        *)
LoginResponse(n, password) == IF Accepts(n, password) THEN "success" ELSE "invalid_credentials"

Responses == {"success", "invalid_credentials"}

ApiLogin(a) ==
  /\ attempts[a].pc = "calling"
  /\ Goto(a, LoginResponse(attempts[a].name, attempts[a].password))
  /\ UNCHANGED <<settings, accounts, signups, store, history>>

(* 403 invalid_credentials arrives.                                         *)
Rejected(a) ==
  LET n == attempts[a].name
  IN  /\ attempts[a].pc = "invalid_credentials"
      /\ wrong[n] < MaxWrong
      /\ wrong' = [wrong EXCEPT ![n] = @ + 1]
      /\ guesses' = [guesses EXCEPT ![n] = @ + 1]
      /\ Goto(a, "counting")
      /\ UNCHANGED <<settings, accounts, signups, store, cut>>

(* Where an attempt waits for the API, or has its response on the way.      *)
Calling == {"calling"} \cup Responses

(* Mutant: an outage counts as a failure.                                   *)
Unanswered_Counts(a) ==
  /\ attempts[a].pc \in Calling
  /\ Goto(a, "counting")
  /\ UNCHANGED <<settings, accounts, signups, store, history>>

(* Any other BackendClientError: a timeout, whatever the API has answered   *)
(* by then, an outage, a missing or wrong API key.                          *)
Unanswered(a) ==
  /\ attempts[a].pc \in Calling
  /\ Goto(a, "idle")
  /\ UNCHANGED <<settings, accounts, signups, store, history>>

(* Mutant: the limit itself is still allowed.                               *)
AfterExpiry_Above(failures) == IF failures > MaxFailures THEN "locking" ELSE "idle"

(* What record_failure does after `failures` is known and the expiry set.   *)
AfterExpiry(failures) == IF failures >= MaxFailures THEN "locking" ELSE "idle"

(* Mutant: the expiry is left to the failure that locks.                    *)
AfterCount_NoExpiry(failures) == AfterExpiry(failures)

AfterCount(failures) == IF failures = 1 THEN "expiring" ELSE AfterExpiry(failures)

(* record_failure of the Redis store: INCR.                                 *)
Count(a) ==
  LET n == attempts[a].name
      failures == counter[n] + 1
  IN  /\ attempts[a].pc = "counting" /\ settings.kind = "redis"
      /\ counter' = [counter EXCEPT ![n] = failures]
      /\ Goto(a, AfterCount(failures))
      /\ UNCHANGED <<settings, accounts, signups, expires, locked, history>>

(* EXPIRE after the first failure, of no effect when the key is gone.       *)
SetExpiry(a) ==
  LET n == attempts[a].name
  IN  /\ attempts[a].pc = "expiring"
      /\ expires' = [expires EXCEPT ![n] = counter[n] > 0]
      /\ Goto(a, AfterExpiry(1))
      /\ UNCHANGED <<settings, accounts, signups, counter, locked, history>>

(* SET ... EX.                                                              *)
Lock(a) ==
  /\ attempts[a].pc = "locking"
  /\ locked' = [locked EXCEPT ![attempts[a].name] = TRUE]
  /\ Goto(a, "idle")
  /\ UNCHANGED <<settings, accounts, signups, counter, expires, history>>

(* record_failure of the store in memory, in one step.                      *)
CountInMemory(a) ==
  LET n == attempts[a].name
      failures == counter[n] + 1
  IN  /\ attempts[a].pc = "counting" /\ settings.kind = "memory"
      /\ counter' = [counter EXCEPT ![n] = failures]
      /\ expires' = [expires EXCEPT ![n] = TRUE]
      /\ locked' = [locked EXCEPT ![n] = @ \/ failures >= MaxFailures]
      /\ Goto(a, "idle")
      /\ UNCHANGED <<settings, accounts, signups, history>>

(* clear: the counter, its expiry and the lock of the name go together.     *)
ClearStore(n) ==
  /\ counter' = [counter EXCEPT ![n] = 0]
  /\ expires' = [expires EXCEPT ![n] = FALSE]
  /\ locked' = [locked EXCEPT ![n] = FALSE]

(* 200 arrives: clear, and the user is signed in.                           *)
Clear(a) ==
  LET n == attempts[a].name
  IN  /\ attempts[a].pc = "success"
      /\ ClearStore(n)
      /\ guesses' = [guesses EXCEPT ![n] = 0]
      /\ Goto(a, "idle")
      /\ UNCHANGED <<settings, accounts, signups, wrong, cut>>

(* A Redis command fails, or the request of the browser ends, before a      *)
(* command that counts the failure. (Before clear that is an Unanswered.)   *)
CutOff(a) ==
  /\ settings.kind = "redis" /\ attempts[a].pc \notin Calling \cup {"idle"}
  /\ cut[attempts[a].name] < MaxCuts
  /\ cut' = [cut EXCEPT ![attempts[a].name] = @ + 1]
  /\ Goto(a, "idle")
  /\ UNCHANGED <<settings, accounts, signups, store, wrong, guesses>>

-----------------------------------------------------------------------------
(* Time                                                                     *)

ExpireCounter(n) ==
  /\ expires[n]
  /\ counter' = [counter EXCEPT ![n] = 0]
  /\ expires' = [expires EXCEPT ![n] = FALSE]
  /\ guesses' = [guesses EXCEPT ![n] = 0]
  /\ UNCHANGED <<settings, accounts, signups, attempts, locked, wrong, cut>>

ExpireLock(n) ==
  /\ locked[n]
  /\ locked' = [locked EXCEPT ![n] = FALSE]
  /\ guesses' = [guesses EXCEPT ![n] = 0]
  /\ UNCHANGED <<settings, accounts, signups, attempts, counter, expires, wrong, cut>>

-----------------------------------------------------------------------------
Signup(s) ==
  \/ SubmitDisabled(s) \/ Submit(s) \/ Refuse(s) \/ Object(s) \/ Create(s) \/ Break(s)
  \/ Answer(s) \/ Lose(s)

Login(a) ==
  \/ Check(a) \/ ApiLogin(a) \/ Rejected(a) \/ Unanswered(a)
  \/ Count(a) \/ SetExpiry(a) \/ Lock(a) \/ CountInMemory(a) \/ Clear(a) \/ CutOff(a)

(* What the accounts as they are now say of an attempt under way.           *)
Verdict(a) ==
  LET account == accounts[attempts[a].name]
  IN  IF account # NoAccount /\ account.active /\ account.owner = attempts[a].password
      THEN "success" ELSE "invalid_credentials"

(* The responses that were right at some moment from the begin of an        *)
(* attempt to its response.                                                 *)
Observe ==
  seen' = [a \in Attempts |->
             CASE attempts'[a].pc = "calling" -> seen[a] \cup {Verdict(a)'}
               [] attempts'[a].pc \in Responses -> seen[a]
               [] attempts'[a].pc \notin Calling -> {}]

Step ==
  \/ \E s \in Signups : Signup(s)
  \/ \E a \in Attempts : Login(a)
  \/ \E n \in Names : ScriptCreates(n) \/ SetActive(n) \/ ExpireCounter(n) \/ ExpireLock(n)

Next == Step /\ Observe

Spec == Init /\ [][Next]_vars

-----------------------------------------------------------------------------
Answers == {"nothing", "created", "disabled", "conflict", "invalid", "unavailable"}

Attempt ==
  {NoAttempt} \cup
    [pc : Calling \cup {"counting", "expiring", "locking"},
     name : Names, password : Passwords \cup {NoPassword}]

Typed ==
  /\ settings \in Settings
  /\ accounts \in [Names -> Accounts \cup {NoAccount}]
  /\ signups \in [Signups -> [name : Names, told : Answers,
                              response : Errors \cup {"none", "working", "success", "gone"}]]
  /\ attempts \in [Attempts -> Attempt]
  /\ counter \in [Names -> Nat]
  /\ expires \in [Names -> BOOLEAN]
  /\ locked \in [Names -> BOOLEAN]
  /\ wrong \in [Names -> 0..MaxWrong]
  /\ guesses \in [Names -> Nat]
  /\ cut \in [Names -> Nat]

TypeOK == Typed /\ seen \in [Attempts -> SUBSET Responses]

(* Of two sign-ups for a name, and of one whose client gave up and that is  *)
(* sent again, only the one whose password the account has may be told that *)
(* it was created; and one that is told anything else but that the service  *)
(* is unavailable has left no account behind.                               *)
SignupToldTruth ==
  \A s \in Signups :
    LET account == accounts[signups[s].name]
    IN  /\ signups[s].told = "created" => account # NoAccount /\ account.owner = s
        /\ signups[s].told \in {"disabled", "conflict", "invalid"} =>
             account = NoAccount \/ account.owner # s

(* Accounts are created, approved and deactivated while logins for them are *)
(* under way, and the row the API read may have changed by the time its     *)
(* response arrives. Still a login is accepted only if its password was     *)
(* that of an active account at some moment after the login began: one that *)
(* begins after the account was deactivated is not, whatever others read    *)
(* before ("inactive users can be retained in the database without being    *)
(* treated as valid sign-in candidates", docs/security.md:61). And it is    *)
(* refused, which counts as a failure, only if it was wrong at such a       *)
(* moment.                                                                  *)
LoginAnswerWasRight ==
  \A a \in Attempts : attempts[a].pc \in Responses => attempts[a].pc \in seen[a]

(* A counter of failures without an expiry, which would count the failures  *)
(* of all time, is about to get one, or was left by an attempt cut off      *)
(* between the two commands.                                                *)
CounterExpires ==
  \A n \in Names :
    counter[n] > 0 /\ ~expires[n] =>
      cut[n] > 0 \/ \E a \in Attempts : attempts[a].pc = "expiring" /\ attempts[a].name = n

(* Nobody is locked out for less than MaxFailures refusals: an outage of    *)
(* the API, a timeout or a wrong API key count for nothing.                 *)
LockIsEarned ==
  \A n \in Names : counter[n] <= wrong[n] /\ (locked[n] => wrong[n] >= MaxFailures)

(* However the checks and the counts of concurrent logins interleave, the   *)
(* refusals of a name within a window are one for each login under way more *)
(* than the limit allows, and one for each that was cut off.                *)
RefusalsBounded ==
  \A n \in Names : guesses[n] + 1 <= MaxFailures + Cardinality(Attempts) + cut[n]

=============================================================================
