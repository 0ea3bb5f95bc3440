------------------------------ MODULE Delivery ------------------------------
(***************************************************************************)
(* The edge actions of one committed transition, from the list in the spec *)
(* to the last answer: internal/controller/edge_actions.go, restart.go,    *)
(* console_actions.go and the client of internal/actions.  Time is a count *)
(* of ticks spent; every call on the network is one step that chooses how  *)
(* long it took, what came back and whether the far end acted.  An action  *)
(* on the console is handed to the provider's writer (module Console).     *)
(***************************************************************************)
EXTENDS Destinations, FiniteSets

CONSTANTS
  Lists,            \* the lists of edge actions a transition may fire
  Secrets,          \* what a Secret of the namespace may hold
  Missing,          \* no such Secret, or no permission to read it
  NoSecret, NoURL,  \* a field the author left out
  Installs,         \* how the manager may be configured
  Budget,           \* edgeActionBudget
  Timeout,          \* what bounds one attempt
  RetryDelay,       \* the pause before the second attempt
  RetryAttempts,    \* retryAttempts
  LogoutTimeout     \* logoutTimeout

\* The edge actions an author may write, as the API types describe them
\* (api/v1alpha1).  What a qBittorrent pauses or a message says is left out.
Idempotencies == {"unset", "yes", "no"}

IsHTTPRequest(action) ==
  /\ action.type = "http.request"
  /\ action.method \in {"GET", "POST", "PUT", "PATCH"}
  /\ action.idempotent \in Idempotencies

IsHomeAssistantService(action) ==
  /\ action.type = "homeassistant.service"
  /\ action.secret # NoSecret
  /\ action.idempotent \in Idempotencies

IsQBittorrent(action) == action.type = "qbittorrent" /\ action.secret # NoSecret

IsNotification(action) ==
  action.type = "notification" /\ action.secret # NoSecret /\ action.url = NoURL

IsEdgeAction(action) ==
  \/ IsHTTPRequest(action) \/ IsHomeAssistantService(action)
  \/ IsQBittorrent(action) \/ IsNotification(action)
  \/ action.type \in {"kubernetes.restart", "unifi"}

ASSUME Bounds ==
  /\ \A l \in Lists : l \in Seq({action \in ToSet(l) : IsEdgeAction(action)})
  /\ {Budget, Timeout, RetryAttempts} \subseteq Nat \ {0}
  /\ {RetryDelay, LogoutTimeout} \subseteq Nat
  /\ \A i \in Installs : {i.dryRun, i.console} \subseteq BOOLEAN /\ WellFormed(i.entries)

VARIABLES
  install,     \* the configuration: dry run, console, allowed destinations
  list,        \* the edge actions of this transition
  credential,  \* what each Secret named in the list holds
  results,     \* status.edgeActions, one entry per action so far
  at,          \* where the worker is with the next action
  request,     \* the request being repeated
  try,         \* which attempt at it
  answer,      \* how the attempt under way has gone so far
  cookie,      \* the session held for the attempt, or none
  elapsed,     \* ticks since the first action began
  cancelled,   \* the manager is shutting down
  performed,   \* far end: how often each action was carried out
  sessions,    \* far end: the sessions open
  orphans,     \* sessions whose cookie never arrived or whose logout failed
  secretsRead  \* the Secrets that were asked for

given == <<install, list, credential>>
farEnd == <<performed, sessions, orphans>>
deliveryVars == <<install, list, credential, results, at, request, try, answer, cookie, elapsed,
          cancelled, performed, sessions, orphans, secretsRead>>

Outbound == {"http.request", "homeassistant.service", "qbittorrent", "notification"}

NoRequest == [retryable |-> FALSE, url |-> NoURL, session |-> FALSE]
NoCookie == <<>>

Index == Len(results) + 1      \* the action being dealt with
Current == list[Index]
More == Len(results) < Len(list)
Over == cancelled \/ elapsed >= Budget        \* ctx.Err() != nil
Least(a, b) == IF a < b THEN a ELSE b
Remaining == IF Over THEN 0 ELSE Budget - elapsed
Left == Least(Timeout, Remaining)
Disabled == install.entries = {}              \* outbound actions are off

DeliveryInit ==
  /\ install \in Installs
  /\ list \in Lists
  /\ credential \in [{a.secret : a \in ToSet(list)} \ {NoSecret} -> Secrets \cup {Missing}]
  /\ results = <<>>
  /\ at = "next"
  /\ request = NoRequest
  /\ try = 0
  /\ answer = "none"
  /\ cookie = NoCookie
  /\ elapsed = 0
  /\ cancelled = FALSE
  /\ performed = [i \in 1..Len(list) |-> 0]
  /\ sessions = {}
  /\ orphans = {}
  /\ secretsRead = {}

-----------------------------------------------------------------------------
\* What building a request makes of one action.

Blank == [url |-> NoURL, authorization |-> "absent", header |-> "absent", login |-> FALSE]

\* CredentialsFrom refuses a Secret with a header nothing could send.
Readable(secret) == secret # Missing /\ "unusable" \notin {secret.authorization, secret.header}

Credentials(action) == IF action.secret = NoSecret THEN Blank ELSE credential[action.secret]

\* Exactly one of the Automation and its Secret supplies the destination.
DestinationFrom(written, held) ==
  IF written = NoURL THEN held ELSE IF held = NoURL THEN written ELSE NoURL

\* May a failed request be sent again.
Retryable(method, idempotent) ==
  IF idempotent # "unset" THEN idempotent = "yes" ELSE method \in {"GET", "PUT"}

BuildHTTP(action, held) ==
  [url |-> DestinationFrom(action.url, held.url),
   retryable |-> Retryable(action.method, action.idempotent), session |-> FALSE]

BuildHomeAssistant(action, held) ==
  [url |-> IF held.authorization = "absent" THEN NoURL ELSE DestinationFrom(action.url, held.url),
   retryable |-> action.idempotent = "yes", session |-> FALSE]

BuildQBittorrent(action, held) ==
  [url |-> IF held.login THEN DestinationFrom(action.url, held.url) ELSE NoURL,
   retryable |-> TRUE, session |-> TRUE]

BuildNotification(action, held) ==
  [url |-> held.url, retryable |-> TRUE, session |-> FALSE]

\* buildRequest; a template that does not render, an Authorization header in
\* the spec or a name that is not a slug fails the action here.
Build(action, held) ==
  CASE action.type = "http.request"          -> BuildHTTP(action, held)
    [] action.type = "homeassistant.service" -> BuildHomeAssistant(action, held)
    [] action.type = "qbittorrent"           -> BuildQBittorrent(action, held)
    [] OTHER                                 -> BuildNotification(action, held)

-----------------------------------------------------------------------------
\* The loop over the actions.

\* An entry of status.edgeActions.
EdgeExecution(status, attempts) == [status |-> status, attempts |-> attempts]

\* The entry is made; the loop goes on with the next action.
Record(status, attempts) ==
  /\ results' = Append(results, EdgeExecution(status, attempts))
  /\ at' = "next"
  /\ request' = NoRequest
  /\ try' = 0
  /\ answer' = "none"
  /\ cookie' = NoCookie

\* A dry run sends nothing, and says so.
SkipDryRun ==
  /\ More /\ at = "next" /\ install.dryRun
  /\ Record("Skipped", 0)
  /\ UNCHANGED <<given, elapsed, cancelled, farEnd, secretsRead>>

\* The budget of the transition is spent.
SkipLate ==
  /\ More /\ at = "next" /\ ~install.dryRun /\ Over
  /\ Record("Skipped", 0)
  /\ UNCHANGED <<given, elapsed, cancelled, farEnd, secretsRead>>

Ready == More /\ at = "next" /\ ~install.dryRun /\ ~Over

\* kubernetes.restart: read the object, stamp its pod template, once.  The
\* patch may take effect and its answer be lost.
Restart ==
  /\ Ready /\ Current.type = "kubernetes.restart"
  /\ \E took \in 0..Left, stamped \in BOOLEAN, status \in {"Success", "Failed"} :
       /\ status = "Success" => stamped /\ took < Left
       /\ elapsed' = elapsed + took
       /\ performed' = [performed EXCEPT ![Index] = IF stamped THEN @ + 1 ELSE @]
       /\ Record(status, 1)
  /\ UNCHANGED <<given, cancelled, sessions, orphans, secretsRead>>

\* unifi.*: there is no provider with a console.
NoConsole ==
  /\ Ready /\ Current.type = "unifi" /\ ~install.console
  /\ Record("Failed", 0)
  /\ UNCHANGED <<given, elapsed, cancelled, farEnd, secretsRead>>

\* unifi.*: handed to the provider's writer, once.
HandToConsole ==
  /\ Ready /\ Current.type = "unifi" /\ install.console
  /\ at' = "console"
  /\ UNCHANGED <<given, results, request, try, answer, cookie, elapsed, cancelled, farEnd, secretsRead>>

\* The writer is done: the exchange was bounded by the action's timeout, its
\* logout by one of its own.
HearFromConsole(status, carried) ==
  /\ at = "console"
  /\ \E took \in 0..Left, leaving \in 0..LogoutTimeout :
       /\ status = "Success" => took < Left
       /\ elapsed' = elapsed + took + leaving
  /\ performed' = [performed EXCEPT ![Index] = @ + carried]
  /\ Record(status, 1)
  /\ UNCHANGED <<given, cancelled, sessions, orphans, secretsRead>>

\* No destination is allowed on this install: refused before the Secret is read.
RefuseDisabled ==
  /\ Ready /\ Current.type \in Outbound /\ Disabled
  /\ Record("Failed", 0)
  /\ UNCHANGED <<given, elapsed, cancelled, farEnd, secretsRead>>

\* Wrong: the Secret is read first and the destination looked at afterwards.
PrepareWhatever ==
  /\ Ready /\ Current.type \in Outbound
  /\ \E took \in 0..Remaining :
       LET held == Credentials(Current)
           usable == Readable(held) /\ took < Remaining /\ Current.renders
           built == IF usable THEN Build(Current, held) ELSE NoRequest
       IN  /\ elapsed' = IF Current.secret = NoSecret THEN elapsed ELSE elapsed + took
           /\ secretsRead' = secretsRead \cup ({Current.secret} \ {NoSecret})
           /\ IF built.url # NoURL /\ Approved(install.entries, built.url)
              THEN /\ at' = IF built.session THEN "login" ELSE "act"
                   /\ request' = built /\ try' = 1
                   /\ UNCHANGED <<results, answer, cookie>>
              ELSE Record("Failed", 0)
  /\ UNCHANGED <<given, cancelled, farEnd>>

\* Read the Secret, build the request and have its destination approved; a
\* session's login and logout share the origin that was approved.
Prepare ==
  /\ Ready /\ Current.type \in Outbound /\ ~Disabled
  /\ \E took \in 0..Remaining :
       LET held == Credentials(Current)
           usable == Readable(held) /\ took < Remaining /\ Current.renders
           built == IF usable THEN Build(Current, held) ELSE NoRequest
       IN  /\ elapsed' = IF Current.secret = NoSecret THEN elapsed ELSE elapsed + took
           /\ secretsRead' = secretsRead \cup ({Current.secret} \ {NoSecret})
           /\ IF built.url # NoURL /\ Approved(install.entries, built.url)
              THEN /\ at' = IF built.session THEN "login" ELSE "act"
                   /\ request' = built /\ try' = 1
                   /\ UNCHANGED <<results, answer, cookie>>
              ELSE Record("Failed", 0)
  /\ UNCHANGED <<given, cancelled, farEnd>>

-----------------------------------------------------------------------------
\* One request, repeated.

\* How an attempt's call may end: what came back, whether the far end acted,
\* how long it took.  A call out of time is cut, with or without effect; one
\* that starts out of time is never sent; one whose name resolves to an address
\* below the floor is not dialled, and counts as a transport failure.
Ends(answered, acted, took, address) ==
  /\ took \in 0..Left
  /\ (acted \/ answered \in {"ok", "rejected"}) => Left > 0 /\ Dialable(address)
  /\ answered = "ok" => acted
  /\ answered = "rejected" => ~acted
  /\ answered \in {"ok", "rejected"} => took < Left
  /\ answered = "cancelled" <=> cancelled'

Answers == {"ok", "rejected", "transient", "cancelled"}
Addresses == {"public", "link-local"}

\* The login leg.  An answer without the cookie is a refused password, and the
\* reply may be lost after the far end opened the session.
Login ==
  /\ at = "login"
  /\ \E answered \in Answers, acted \in BOOLEAN, took \in 0..Left, address \in Addresses :
       /\ cancelled' \in {cancelled, TRUE}
       /\ Ends(answered, acted, took, address)
       /\ elapsed' = elapsed + took
       /\ sessions' = IF acted THEN sessions \cup {<<Index, try>>} ELSE sessions
       /\ orphans' = IF acted /\ answered # "ok" THEN orphans \cup {<<Index, try>>} ELSE orphans
       /\ IF answered = "ok"
          THEN at' = "act" /\ cookie' = <<Index, try>> /\ UNCHANGED answer
          ELSE at' = "judge" /\ answer' = answered /\ UNCHANGED cookie
  /\ UNCHANGED <<given, results, request, try, performed, secretsRead>>

\* The request itself, with the session's cookie if there is one.
Act ==
  /\ at = "act"
  /\ \E answered \in Answers, acted \in BOOLEAN, took \in 0..Left, address \in Addresses :
       /\ cancelled' \in {cancelled, TRUE}
       /\ Ends(answered, acted, took, address)
       /\ elapsed' = elapsed + took
       /\ performed' = [performed EXCEPT ![Index] = IF acted THEN @ + 1 ELSE @]
       /\ answer' = answered
       /\ at' = IF request.session THEN "logout" ELSE "judge"
  /\ UNCHANGED <<given, results, request, try, cookie, sessions, orphans, secretsRead>>

\* Wrong: the logout runs on the action's own context and is not sent when that
\* is spent.
LogoutUnderBudget ==
  /\ at = "logout"
  /\ \E took \in 0..LogoutTimeout, closed \in BOOLEAN :
       /\ elapsed' = elapsed + took
       /\ sessions' = IF closed /\ ~Over THEN sessions \ {cookie} ELSE sessions
       /\ orphans' = IF closed \/ Over THEN orphans ELSE orphans \cup {cookie}
  /\ cookie' = NoCookie
  /\ at' = "judge"
  /\ UNCHANGED <<given, results, request, try, answer, cancelled, performed, secretsRead>>

\* The logout leg, whatever the request did and whether or not there is time
\* left: it has a little of its own.  What became of it is not looked at.
Logout ==
  /\ at = "logout"
  /\ \E took \in 0..LogoutTimeout, closed \in BOOLEAN :
       /\ elapsed' = elapsed + took
       /\ sessions' = IF closed THEN sessions \ {cookie} ELSE sessions
       /\ orphans' = IF closed THEN orphans ELSE orphans \cup {cookie}
  /\ cookie' = NoCookie
  /\ at' = "judge"
  /\ UNCHANGED <<given, results, request, try, answer, cancelled, performed, secretsRead>>

Attempts == IF request.retryable THEN RetryAttempts ELSE 1

\* Wrong: any failure is worth another attempt.
JudgeHopeful ==
  /\ at = "judge"
  /\ \/ answer = "ok" /\ Record("Success", try)
     \/ answer # "ok" /\ try = RetryAttempts /\ Record("Failed", try)
     \/ /\ answer # "ok" /\ try < RetryAttempts
        /\ at' = "wait" /\ try' = try + 1 /\ answer' = "none"
        /\ UNCHANGED <<results, request, cookie>>
  /\ UNCHANGED <<given, elapsed, cancelled, farEnd, secretsRead>>

\* The attempt is over: done, not worth repeating, out of attempts, or again.
Judge ==
  /\ at = "judge"
  /\ \/ answer = "ok" /\ Record("Success", try)
     \/ answer \in {"rejected", "cancelled"} /\ Record("Failed", try)
     \/ answer = "transient" /\ try = Attempts /\ Record("Failed", try)
     \/ /\ answer = "transient" /\ try < Attempts
        /\ at' = "wait" /\ try' = try + 1 /\ answer' = "none"
        /\ UNCHANGED <<results, request, cookie>>
  /\ UNCHANGED <<given, elapsed, cancelled, farEnd, secretsRead>>

Pause == RetryDelay * 2 ^ (try - 2)

\* Wrong: the pause is slept through whatever time is left.
WaitThrough ==
  /\ at = "wait"
  /\ elapsed' = elapsed + Pause
  /\ at' = IF request.session THEN "login" ELSE "act"
  /\ UNCHANGED <<given, results, request, try, answer, cookie, cancelled, farEnd, secretsRead>>

\* Wrong: an action whose retry there was no time for is reported as not run.
WaitOrSkip ==
  /\ at = "wait"
  /\ \/ /\ ~cancelled /\ elapsed + Pause <= Budget
        /\ elapsed' = elapsed + Pause
        /\ at' = IF request.session THEN "login" ELSE "act"
        /\ UNCHANGED <<results, request, try, answer, cookie>>
     \/ /\ cancelled \/ elapsed + Pause >= Budget
        /\ elapsed' = IF cancelled \/ elapsed > Budget THEN elapsed ELSE Budget
        /\ Record("Skipped", try - 1)
  /\ UNCHANGED <<given, cancelled, farEnd, secretsRead>>

\* The pause before the next attempt, unless the budget runs out first; an
\* attempt that is left out is not counted.
Wait ==
  /\ at = "wait"
  /\ \/ /\ ~cancelled /\ elapsed + Pause <= Budget
        /\ elapsed' = elapsed + Pause
        /\ at' = IF request.session THEN "login" ELSE "act"
        /\ UNCHANGED <<results, request, try, answer, cookie>>
     \/ /\ cancelled \/ elapsed + Pause >= Budget
        /\ elapsed' = IF cancelled \/ elapsed > Budget THEN elapsed ELSE Budget
        /\ Record("Failed", try - 1)
  /\ UNCHANGED <<given, cancelled, farEnd, secretsRead>>

\* The manager is told to stop: the reconcile's context is cancelled.
Shutdown ==
  /\ More /\ ~cancelled
  /\ cancelled' = TRUE
  /\ UNCHANGED <<given, results, at, request, try, answer, cookie, elapsed,
                 farEnd, secretsRead>>

\* Every step but the two that involve the console.
DeliveryNext ==
  \/ SkipDryRun \/ SkipLate \/ Restart \/ NoConsole \/ RefuseDisabled \/ Prepare
  \/ Login \/ Act \/ Logout \/ Judge \/ Wait \/ Shutdown

-----------------------------------------------------------------------------
\* May the author expect this action to be carried out more than once?
Repeatable(action) ==
  \/ action.type \in {"notification", "qbittorrent"}
  \/ action.type \in {"http.request", "homeassistant.service"} /\ action.idempotent = "yes"
  \/ action.type = "http.request" /\ action.idempotent = "unset" /\ action.method \in {"GET", "PUT"}

\* A restart, a console write, a POST nobody called idempotent is carried out
\* at most once per transition, whatever is lost, late or repeated on the way
\* (edge_actions.go, retryable; restart.go): a duplicate is a second side
\* effect.
AtMostOnce ==
  \A i \in 1..Len(list) :
    performed[i] <= IF Repeatable(list[i]) THEN RetryAttempts ELSE 1

\* Between two actions Reactor holds no session: each one it opened was ended
\* or its logout failed at the far end, and one it does not know of is open
\* only because the reply to its login was lost (client.go, runSession and
\* logout).  A spent budget or a shutdown is no excuse.
SessionsEnded == at = "next" => cookie = NoCookie /\ sessions \subseteq orphans

\* All the actions of a transition together occupy the worker no longer than
\* the budget, and one last logout (edge_actions.go, edgeActionBudget).
WithinBudget == elapsed <= Budget + LogoutTimeout

\* What status.edgeActions says is what happened: a success was carried out (a
\* console action may have found nothing to do), a skipped action never was,
\* and none was carried out more often than the attempts reported for it.
ReportedAsItWent ==
  \A i \in 1..Len(results) :
    /\ results[i].status = "Success" => performed[i] > 0 \/ list[i].type = "unifi"
    /\ performed[i] <= results[i].attempts
    /\ results[i].status = "Skipped" => performed[i] = 0

\* An install that sends nothing reads no credential and opens no session
\* (destination.go, Empty), and a dry run carries out nothing at all.
OffMeansOff ==
  /\ Disabled \/ install.dryRun => secretsRead = {} /\ sessions = {}
  /\ install.dryRun => \A i \in 1..Len(list) : performed[i] = 0

=============================================================================
