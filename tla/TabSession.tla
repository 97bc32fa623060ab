----------------------------- MODULE TabSession -----------------------------
(***************************************************************************)
(* A browser tab's sign-in: the stored token, the user the pages believe   *)
(* in, and the live-update socket (contexts/AuthContext.tsx,               *)
(* api/client.ts request(), hooks/useWebSocket.ts connect, App.tsx         *)
(* ProtectedRoute), against a server that may be down and that may end a   *)
(* session at any time.  Authentication is enabled on the server.          *)
(*                                                                         *)
(* Every request is two steps, the server's answer and its arrival: the    *)
(* token and the user may have changed in between.                         *)
(***************************************************************************)
EXTENDS Naturals, FiniteSets

CONSTANTS
    Tokens,      \* sessions the user signs in to, one after the other
    Checks,      \* bound: re-checks under way at once
    Tries,       \* maxAttempts of checkAuthStatus
    MaxOutages,  \* bound: times the server goes down
    None, NoFlight

VARIABLES
    up,           \* the server and its database answer
    used,         \* sessions signed in to so far
    ended,        \* sessions the server no longer accepts
    loud,         \* of these: refused in words request() knows (expired, ...)
    token,        \* authToken of api/client.ts
    user,         \* the user state, named by the session it was read with
    authEnabled,  \* what the tab believes of the server
    loading, unconfirmed,
    check,        \* checkAuthStatus under way
    recheck,      \* the runRecheck calls under way
    timers,       \* pending re-check timers
    timerRef,     \* recheckTimerRef is not null
    poll,         \* a REST request of the page under way
    ws,           \* the socket of WebSocketProvider, or its connect() under way
    late,         \* the mint of a provider that has unmounted
    outages

server == <<up, used, ended, loud>>
auth == <<token, user, authEnabled, loading, unconfirmed>>
retries == <<recheck, timers, timerRef>>
socket == <<ws, late>>
vars == <<server, auth, check, retries, poll, socket, outages>>

Token0 == Tokens \cup {None}
Answers == {"none", "ok", "401", "error"}
Flight == [at : {"status", "me"}, sent : Token0, answer : Answers, try : 1 .. Tries]
ASSUME SessionAssumption ==
    /\ Tries \in Nat \ {0} /\ MaxOutages \in Nat
    /\ None \notin Tokens /\ NoFlight \notin Flight

WsStates == {"idle", "minting", "connecting", "open", "waiting", "stopped"}
Socket == [state : WsStates, sent : Token0, answer : Answers]

Fresh(tok) == [at |-> "status", sent |-> tok, answer |-> "none", try |-> 1]
AskStatus == Fresh(token)
AskMe(n) == [at |-> "me", sent |-> token, answer |-> "none", try |-> n]
WsIs(s) == [state |-> s, sent |-> None, answer |-> "none"]
Mint == [state |-> "minting", sent |-> token, answer |-> "none"]

\* ProtectedRoute renders the pages, and with them WebSocketProvider.
Shown == ~loading /\ ~unconfirmed /\ (authEnabled => user # None)
LoginPage == ~loading /\ ~unconfirmed /\ authEnabled /\ user = None

\* The login form is there once the pages are gone.
LoginForm == LoginPage /\ ws.state = "idle" /\ check = NoFlight

\* A page load, with the token that storage holds: the token may be of a session
\* that has ended, and the server may be down.  A reload is another one.
Load(tok) ==
    /\ token = tok /\ user = None /\ authEnabled = FALSE
    /\ loading = TRUE /\ unconfirmed = FALSE
    /\ check = Fresh(tok)
    /\ recheck = [c \in Checks |-> NoFlight] /\ timers = 0 /\ timerRef = FALSE
    /\ poll = NoFlight
    /\ ws = WsIs("idle") /\ late = NoFlight

Init ==
    /\ outages \in 0 .. MaxOutages /\ up \in BOOLEAN /\ (outages = 0 => up)
    /\ \E tok \in Token0 :
         /\ used = {tok} \ {None}
         /\ Load(tok)
    /\ ended \in SUBSET used /\ loud \in SUBSET ended

-----------------------------------------------------------------------------
(* The server.                                                             *)

ServerDown == /\ up /\ outages < MaxOutages
              /\ up' = FALSE /\ outages' = outages + 1
              /\ UNCHANGED <<used, ended, loud, auth, check, retries, poll, socket>>
ServerUp == /\ ~up /\ up' = TRUE
            /\ UNCHANGED <<used, ended, loud, auth, check, retries, poll, socket, outages>>

\* Expiry or deactivation is answered in words request() knows; a revocation or
\* a password change is not.
SessionEnds(t) ==
    /\ t \in used \ ended
    /\ ended' = ended \cup {t}
    /\ loud' \in {loud, loud \cup {t}}
    /\ UNCHANGED <<up, used, auth, check, retries, poll, socket, outages>>

\* What a request sent with tok is answered.
Verdict(tok) == IF ~up THEN "error" ELSE IF tok \in Tokens \ ended THEN "ok" ELSE "401"

-----------------------------------------------------------------------------
(* request(): a 401 in known words clears the token and says auth:expired. *)

\* (mutant: only the storage is cleared)
RefusedUnheard(sent) == IF sent \in loud THEN token' = None /\ UNCHANGED user
                                         ELSE UNCHANGED <<token, user>>

Refused(sent) == IF sent \in loud THEN token' = None /\ user' = None
                                  ELSE UNCHANGED <<token, user>>

\* runRecheck: clears the timer the ref knows and asks for the auth status.
RunRecheck ==
    \E c \in Checks :
        /\ recheck[c] = NoFlight
        /\ recheck' = [recheck EXCEPT ![c] = AskStatus]
        /\ timers' = IF timerRef THEN timers - 1 ELSE timers
        /\ timerRef' = FALSE

\* (mutant: the timer is not started)
RetryNever(c) ==
    /\ recheck' = [recheck EXCEPT ![c] = NoFlight]
    /\ UNCHANGED <<timers, timerRef>>

\* A re-check without an answer is repeated by a new timer.
RetryLater(c) ==
    /\ recheck' = [recheck EXCEPT ![c] = NoFlight]
    /\ timers' = timers + 1 /\ timerRef' = TRUE

Answered(c) ==
    /\ recheck' = [recheck EXCEPT ![c] = NoFlight]
    /\ unconfirmed' = FALSE
    /\ UNCHANGED <<timers, timerRef>>

-----------------------------------------------------------------------------
(* checkAuthStatus: at the load, and after login().                        *)

CheckIsAnswered ==
    /\ check # NoFlight /\ check.answer = "none"
    /\ check' = [check EXCEPT !.answer =
                   IF check.at = "me" THEN Verdict(check.sent)
                   ELSE IF up THEN "ok" ELSE "error"]
    /\ UNCHANGED <<server, auth, retries, poll, socket, outages>>

CheckEnds == check' = NoFlight /\ loading' = FALSE

\* (mutants: without an answer the tab is taken for signed out, or the token is
\* discarded)
SignedOutUnanswered ==
    user' = None /\ unconfirmed' = FALSE /\ CheckEnds /\ UNCHANGED <<token, retries>>
DiscardedUnanswered ==
    token' = None /\ user' = None /\ unconfirmed' = FALSE /\ CheckEnds /\ UNCHANGED retries

\* The stored sign-in could not be checked: it is kept, and asked for again.
KeptUnanswered ==
    user' = None /\ unconfirmed' = TRUE /\ CheckEnds /\ RunRecheck /\ UNCHANGED token

CheckStatus ==
    /\ check # NoFlight /\ check.at = "status" /\ check.answer # "none"
    /\ \/ /\ check.answer = "error" /\ check.sent # None
          /\ KeptUnanswered
          /\ UNCHANGED authEnabled
       \/ /\ check.answer = "error" /\ check.sent = None
          /\ user' = None /\ authEnabled' = FALSE
          /\ CheckEnds
          /\ UNCHANGED <<token, unconfirmed, retries>>
       \/ /\ check.answer = "ok" /\ token # None
          /\ authEnabled' = TRUE
          /\ check' = AskMe(1)
          /\ UNCHANGED <<token, user, loading, unconfirmed, retries>>
       \/ /\ check.answer = "ok" /\ token = None
          /\ authEnabled' = TRUE /\ user' = None /\ unconfirmed' = FALSE
          /\ CheckEnds
          /\ UNCHANGED <<token, retries>>
    /\ UNCHANGED <<server, poll, socket, outages>>

CheckMe ==
    /\ check # NoFlight /\ check.at = "me" /\ check.answer # "none"
    /\ \/ /\ check.answer = "ok"
          /\ user' = check.sent /\ unconfirmed' = FALSE
          /\ CheckEnds
          /\ UNCHANGED <<token, retries>>
       \/ /\ check.answer = "401"
          /\ token' = None /\ user' = None /\ unconfirmed' = FALSE
          /\ CheckEnds
          /\ UNCHANGED retries
       \/ /\ check.answer = "error" /\ check.try < Tries
          /\ check' = AskMe(check.try + 1)
          /\ UNCHANGED <<token, user, loading, unconfirmed, retries>>
       \/ /\ check.answer = "error" /\ check.try = Tries
          /\ KeptUnanswered
    /\ UNCHANGED <<server, authEnabled, poll, socket, outages>>

-----------------------------------------------------------------------------
(* recheckAuthStatus: only a definite answer changes the state.            *)

RecheckIsAnswered(c) ==
    /\ recheck[c] # NoFlight /\ recheck[c].answer = "none"
    /\ recheck' = [recheck EXCEPT ![c].answer =
                     IF recheck[c].at = "me" THEN Verdict(recheck[c].sent)
                     ELSE IF up THEN "ok" ELSE "error"]
    /\ UNCHANGED <<server, auth, check, timers, timerRef, poll, socket, outages>>

RecheckStatus(c) ==
    /\ recheck[c] # NoFlight /\ recheck[c].at = "status" /\ recheck[c].answer # "none"
    /\ \/ /\ recheck[c].answer = "error"
          /\ RetryLater(c)
          /\ UNCHANGED auth
       \/ /\ recheck[c].answer = "ok" /\ token # None
          /\ authEnabled' = TRUE
          /\ recheck' = [recheck EXCEPT ![c] = AskMe(1)]
          /\ UNCHANGED <<token, user, loading, unconfirmed, timers, timerRef>>
       \/ /\ recheck[c].answer = "ok" /\ token = None
          /\ authEnabled' = TRUE /\ user' = None
          /\ Answered(c)
          /\ UNCHANGED <<token, loading>>
    /\ UNCHANGED <<server, check, poll, socket, outages>>

RecheckMe(c) ==
    /\ recheck[c] # NoFlight /\ recheck[c].at = "me" /\ recheck[c].answer # "none"
    /\ \/ /\ recheck[c].answer = "ok"
          /\ user' = recheck[c].sent
          /\ Answered(c)
          /\ UNCHANGED token
       \/ /\ recheck[c].answer = "401"
          /\ token' = None /\ user' = None
          /\ Answered(c)
       \/ /\ recheck[c].answer = "error"
          /\ RetryLater(c)
          /\ UNCHANGED <<token, user, unconfirmed>>
    /\ UNCHANGED <<server, authEnabled, loading, check, poll, socket, outages>>

\* (mutant: the callback leaves the ref as it is)
TimerFiresUnnoted ==
    /\ timers > 0
    /\ \E c \in Checks : recheck[c] = NoFlight
                         /\ recheck' = [recheck EXCEPT ![c] = AskStatus]
    /\ timers' = timers - 1 /\ UNCHANGED timerRef
    /\ UNCHANGED <<server, auth, check, poll, socket, outages>>

\* A timer fires: the one in the ref, or one the ref has lost.  Its callback
\* empties the ref either way.
TimerFires ==
    /\ timers > 0
    /\ \E c \in Checks : recheck[c] = NoFlight
                         /\ recheck' = [recheck EXCEPT ![c] = AskStatus]
    /\ timers' = timers - 1 /\ timerRef' = FALSE
    /\ UNCHANGED <<server, auth, check, poll, socket, outages>>

-----------------------------------------------------------------------------
(* The user.                                                               *)

\* login(): the token is stored and checked.
Login(t) ==
    /\ LoginForm /\ up /\ t \in Tokens \ used
    /\ used' = used \cup {t}
    /\ token' = t
    /\ check' = Fresh(t)
    /\ UNCHANGED <<up, ended, loud, user, authEnabled, loading, unconfirmed, retries,
                   poll, socket, outages>>

\* loginWithToken(), after 2FA or OIDC.
LoginWithToken(t) ==
    /\ LoginForm /\ up /\ t \in Tokens \ used
    /\ used' = used \cup {t}
    /\ token' = t /\ user' = t /\ authEnabled' = TRUE /\ unconfirmed' = FALSE
    /\ UNCHANGED <<up, ended, loud, loading, check, retries, poll, socket, outages>>

\* logout(): the token is cleared before api.logout() reads it, so the server is
\* not told which session to end; then /login is loaded.
Logout ==
    /\ Shown /\ user # None
    /\ token' = None /\ user' = None /\ authEnabled' = FALSE
    /\ loading' = TRUE /\ unconfirmed' = FALSE
    /\ check' = Fresh(None)
    /\ recheck' = [c \in Checks |-> NoFlight] /\ timers' = 0 /\ timerRef' = FALSE
    /\ poll' = NoFlight
    /\ ws' = WsIs("idle") /\ late' = NoFlight
    /\ UNCHANGED <<server, outages>>

-----------------------------------------------------------------------------
(* The pages' own requests.                                                *)

PollSent ==
    /\ Shown /\ poll = NoFlight /\ token # None
    /\ poll' = [at |-> "me", sent |-> token, answer |-> Verdict(token), try |-> 1]
    /\ UNCHANGED <<server, auth, check, retries, socket, outages>>

PollArrives ==
    /\ poll # NoFlight
    /\ poll' = NoFlight
    /\ IF poll.answer = "401" THEN Refused(poll.sent) ELSE UNCHANGED <<token, user>>
    /\ UNCHANGED <<server, authEnabled, loading, unconfirmed, check, retries, socket, outages>>

-----------------------------------------------------------------------------
(* useWebSocket.                                                           *)

\* The provider mounts and unmounts with the pages.  What the socket of an
\* unmounted one still receives is dropped (disposedRef), but a mint under way
\* goes on; bound: one such mint.
Mount ==
    /\ Shown /\ ws.state = "idle"
    /\ ws' = Mint
    /\ UNCHANGED <<server, auth, check, retries, poll, late, outages>>
Unmount ==
    /\ ~Shown /\ ws.state # "idle"
    /\ IF ws.state = "minting"
       THEN /\ late = NoFlight
            /\ late' = [at |-> "me", sent |-> ws.sent, answer |-> ws.answer, try |-> 1]
       ELSE UNCHANGED late
    /\ ws' = WsIs("idle")
    /\ UNCHANGED <<server, auth, check, retries, poll, outages>>

MintIsAnswered ==
    /\ ws.state = "minting" /\ ws.answer = "none"
    /\ ws' = [ws EXCEPT !.answer = Verdict(ws.sent)]
    /\ UNCHANGED <<server, auth, check, retries, poll, late, outages>>

\* The mint's answer: a refusal asks for a re-check and ends the reconnects, an
\* error goes on without a token.
MintArrives ==
    /\ ws.state = "minting" /\ ws.answer # "none"
    /\ IF ws.answer = "401"
       THEN /\ Refused(ws.sent)
            /\ RunRecheck
            /\ ws' = WsIs("stopped")
       ELSE /\ ws' = [state |-> "connecting", answer |-> "none",
                      sent |-> IF ws.answer = "ok" THEN ws.sent ELSE None]
            /\ UNCHANGED <<token, user, retries>>
    /\ UNCHANGED <<server, authEnabled, loading, unconfirmed, check, poll, late, outages>>

LateMintIsAnswered ==
    /\ late # NoFlight /\ late.answer = "none"
    /\ late' = [late EXCEPT !.answer = Verdict(late.sent)]
    /\ UNCHANGED <<server, auth, check, retries, poll, ws, outages>>

\* connect() acts on a refusal before it looks at disposedRef.
LateMintArrives ==
    /\ late # NoFlight /\ late.answer # "none"
    /\ late' = NoFlight
    /\ IF late.answer = "401" THEN Refused(late.sent) /\ RunRecheck
                              ELSE UNCHANGED <<token, user, retries>>
    /\ UNCHANGED <<server, authEnabled, loading, unconfirmed, check, poll, ws, outages>>

\* The handshake: the token of the mint outlives the expiry of its session, and
\* is dropped by whatever ends one otherwise (drop_pending_tokens).
Admits(tok) == up /\ tok \in Tokens \ (ended \ loud)

SocketOpens ==
    /\ ws.state = "connecting" /\ Admits(ws.sent)
    /\ ws' = [ws EXCEPT !.state = "open"]
    /\ UNCHANGED <<server, auth, check, retries, poll, late, outages>>

SocketLost ==
    \/ ws.state = "connecting" /\ Verdict(ws.sent) # "ok"
    \/ ws.state = "open" /\ ~up

\* (mutant: a refused handshake is not tried again)
SocketFailsForGood ==
    /\ SocketLost
    /\ ws' = WsIs(IF ws.state = "open" THEN "waiting" ELSE "stopped")
    /\ UNCHANGED <<server, auth, check, retries, poll, late, outages>>

\* onclose without 4401, of a socket that dropped or never opened (a refused
\* handshake looks like a server that is down): connect() comes after a wait.
SocketFails ==
    /\ SocketLost
    /\ ws' = WsIs("waiting")
    /\ UNCHANGED <<server, auth, check, retries, poll, late, outages>>

\* onclose with 4401: the socket is closed with its session (close_user), or
\* because a refresh of its scope failed.  The expiry of a session closes nothing.
SocketRefused ==
    /\ up /\ ws.state = "open"
    /\ ws' = WsIs("waiting")
    /\ RunRecheck
    /\ UNCHANGED <<server, auth, check, poll, late, outages>>

WaitOver ==
    /\ ws.state = "waiting"
    /\ ws' = Mint
    /\ UNCHANGED <<server, auth, check, retries, poll, late, outages>>

Next ==
    \/ ServerDown \/ ServerUp
    \/ \E t \in Tokens : SessionEnds(t) \/ Login(t) \/ LoginWithToken(t)
    \/ CheckIsAnswered \/ CheckStatus \/ CheckMe
    \/ \E c \in Checks : RecheckIsAnswered(c) \/ RecheckStatus(c) \/ RecheckMe(c)
    \/ TimerFires \/ Logout \/ PollSent \/ PollArrives
    \/ Mount \/ Unmount \/ MintIsAnswered \/ MintArrives
    \/ LateMintIsAnswered \/ LateMintArrives
    \/ SocketOpens \/ SocketFails \/ SocketRefused \/ WaitOver

Spec == Init /\ [][Next]_vars

\* The server comes back, requests are answered or fail, their answers are
\* handled, timers fire, and the pages keep asking.
Fairness ==
    /\ WF_vars(ServerUp)
    /\ WF_vars(CheckIsAnswered) /\ WF_vars(CheckStatus) /\ WF_vars(CheckMe)
    /\ \A c \in Checks : /\ WF_vars(RecheckIsAnswered(c)) /\ WF_vars(RecheckStatus(c))
                         /\ WF_vars(RecheckMe(c))
    /\ WF_vars(TimerFires)
    /\ WF_vars(PollSent) /\ WF_vars(PollArrives)
    /\ WF_vars(Mount) /\ WF_vars(Unmount) /\ WF_vars(MintIsAnswered) /\ WF_vars(MintArrives)
    /\ WF_vars(LateMintIsAnswered) /\ WF_vars(LateMintArrives)
    /\ WF_vars(SocketOpens) /\ WF_vars(SocketFails)
    /\ WF_vars(SocketRefused /\ ws.sent \in ended \ loud)
    /\ WF_vars(WaitOver)

FairSpec == Spec /\ Fairness

-----------------------------------------------------------------------------
(* Properties.                                                             *)

\* The variables hold what the code keeps in them.
TypeOK ==
    /\ up \in BOOLEAN /\ used \subseteq Tokens
    /\ ended \subseteq used /\ loud \subseteq ended
    /\ token \in used \cup {None} /\ user \in Token0
    /\ authEnabled \in BOOLEAN /\ loading \in BOOLEAN /\ unconfirmed \in BOOLEAN
    /\ check \in Flight \cup {NoFlight}
    /\ recheck \in [Checks -> Flight \cup {NoFlight}]
    /\ timers \in Nat /\ timerRef \in BOOLEAN /\ (timerRef => timers > 0)
    /\ poll \in Flight \cup {NoFlight}
    /\ ws \in Socket /\ late \in Flight \cup {NoFlight}
    /\ outages \in 0 .. MaxOutages

\* A tab none of whose sessions was ever ended is never sent to the login page
\* while it holds a token, except during its own login: an outage, at the load
\* or later, leaves it signed in or waiting (#1889, #3360).
NotSignedOut ==
    ended = {} /\ token # None /\ LoginPage => check # NoFlight

\* Nothing but the user's logout takes the token of such a tab away.
TokenKept == [][ended = {} /\ token # None /\ token' = None => Logout]_vars

\* A tab that waits for the server's word gets it.
WaitEnds == unconfirmed ~> ~unconfirmed

\* A tab that still holds the token of a session that has ended stops showing
\* its user, whatever was under way when it ended (#1698).
EndedIsSeen == \A t \in Tokens : user = t /\ token = t /\ t \in ended ~> user # t

\* Pages that hold a token have their live updates back after any outage: there
\* is no state in which nothing asks any more.
SocketReturns ==
    Shown /\ token # None /\ ws.state # "open" ~> ws.state = "open" \/ ~Shown \/ token = None

\* A tab whose token was cleared does not go on showing its user "until a manual
\* refresh" (AuthContext.tsx:233-236, #1698).
SignedOutIsSeen == token = None /\ user # None ~> token # None \/ user = None

=============================================================================
