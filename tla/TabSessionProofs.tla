-------------------------- MODULE TabSessionProofs --------------------------
(***************************************************************************)
(* Proofs about TabSession: for any number of sessions, re-checks under    *)
(* way, attempts and outages.                                              *)
(***************************************************************************)
EXTENDS TabSession, TLAPS

USE SessionAssumption

\* Requests of the tab are well formed.
LEMMA Flights ==
    /\ \A tok \in Token0 : Fresh(tok) \in Flight
    /\ \A n \in 1 .. Tries : token \in Token0 => AskMe(n) \in Flight
    /\ \A f \in Flight, a \in Answers : [f EXCEPT !.answer = a] \in Flight
    /\ \A f \in Flight : f.sent \in Token0 /\ f.answer \in Answers /\ f.try \in 1 .. Tries
  BY DEF Fresh, AskMe, Flight, Answers

\* So are the states of the socket.
LEMMA Sockets ==
    /\ \A s \in WsStates : WsIs(s) \in Socket
    /\ token \in Token0 => Mint \in Socket
    /\ \A w \in Socket, a \in Answers : [w EXCEPT !.answer = a] \in Socket
    /\ \A w \in Socket, s \in WsStates : [w EXCEPT !.state = s] \in Socket
    /\ \A w \in Socket : w.sent \in Token0
    /\ \A tok \in Token0 : [state |-> "connecting", answer |-> "none", sent |-> tok] \in Socket
  BY DEF WsIs, Mint, Socket, WsStates, Answers, Token0

\* The server's answers are answers.
LEMMA Verdicts == \A tok : Verdict(tok) \in Answers
  BY DEF Verdict, Answers

\* What is known of the re-checks and their timer.
RetriesOK ==
    /\ recheck \in [Checks -> Flight \cup {NoFlight}]
    /\ timers \in Nat /\ timerRef \in BOOLEAN /\ (timerRef => timers > 0)

\* A re-check asks with the token the tab holds.
LEMMA Asking == token \in Token0 => AskStatus \in Flight
  BY Flights DEF AskStatus

\* runRecheck and the end of a re-check keep these.
LEMMA RunRecheckTypes == ASSUME TypeOK, RunRecheck PROVE RetriesOK'
<1>1. AskStatus \in Flight
  BY Asking DEF TypeOK, Token0
<1>2. recheck' \in [Checks -> Flight \cup {NoFlight}]
  BY <1>1 DEF RunRecheck, TypeOK
<1>3. timers' \in Nat /\ timerRef' = FALSE
  BY DEF RunRecheck, TypeOK
<1> QED BY <1>2, <1>3 DEF RetriesOK

LEMMA RetryTypes ==
    ASSUME TypeOK, NEW c \in Checks, RetryLater(c) \/ Answered(c) PROVE RetriesOK'
<1>1. recheck' \in [Checks -> Flight \cup {NoFlight}]
  BY DEF RetryLater, Answered, TypeOK
<1>2. timers \in Nat /\ timerRef \in BOOLEAN /\ (timerRef => timers > 0)
  BY DEF TypeOK
<1>3. \/ timers' = timers + 1 /\ timerRef' = TRUE
      \/ timers' = timers /\ timerRef' = timerRef
  BY DEF RetryLater, Answered
<1>4. timers' \in Nat /\ (timerRef' => timers' > 0)
  BY <1>2, <1>3
<1>5. timerRef' \in BOOLEAN
  BY <1>2, <1>3
<1> QED BY <1>1, <1>4, <1>5 DEF RetriesOK

\* The page load sets every variable to a value of its type.
LEMMA SessionTypesInit == ASSUME Init PROVE TypeOK
<1>1. PICK tok \in Token0 : used = {tok} \ {None} /\ Load(tok)
  BY DEF Init
<1>2. check \in Flight /\ ws \in Socket
  BY <1>1, Flights, Sockets DEF Load, WsStates
<1> QED
  BY <1>1, <1>2 DEF Init, Load, TypeOK, Token0

\* The variables keep their types; in particular the reference to the re-check
\* timer is never left behind by a timer that is gone.
THEOREM SessionTypes == Spec => []TypeOK
<1>1. Init => TypeOK
  BY SessionTypesInit
<1>2. ASSUME TypeOK, [Next]_vars PROVE TypeOK'
  <2>t. /\ token \in Token0 /\ {"none", "ok", "error"} \subseteq Answers
        /\ 1 \in 1 .. Tries /\ Fresh(token) \in Flight /\ AskMe(1) \in Flight
        /\ AskStatus \in Flight /\ Mint \in Socket
    BY <1>2, Flights, Sockets DEF Answers, AskStatus, Token0, TypeOK
  <2>w. \A s \in {"idle", "minting", "connecting", "open", "waiting", "stopped"} :
          WsIs(s) \in Socket
    BY Sockets DEF WsStates
  <2> SUFFICES ASSUME Next PROVE TypeOK'
    BY <1>2 DEF vars, server, auth, retries, socket, TypeOK
  <2>. USE DEF socket
  <2>1. CASE ServerDown
    <3>1. outages' \in 0 .. MaxOutages
      BY <1>2, <2>1 DEF ServerDown, TypeOK
    <3> QED BY <1>2, <2>1, <3>1 DEF ServerDown, auth, retries, TypeOK
  <2>2. CASE ServerUp
    BY <1>2, <2>2 DEF ServerUp, auth, retries, TypeOK
  <2>3. ASSUME NEW t \in Tokens, SessionEnds(t) PROVE TypeOK'
    BY <1>2, <2>3 DEF SessionEnds, auth, retries, TypeOK
  <2>4. ASSUME NEW t \in Tokens, Login(t) PROVE TypeOK'
    <3>1. Fresh(t) \in Flight
      BY Flights DEF Token0
    <3> QED BY <1>2, <2>4, <3>1 DEF Login, retries, TypeOK
  <2>5. ASSUME NEW t \in Tokens, LoginWithToken(t) PROVE TypeOK'
    BY <1>2, <2>5 DEF LoginWithToken, retries, TypeOK, Token0
  <2>6. CASE CheckIsAnswered
    <3>1. PICK a \in Answers : check' = [check EXCEPT !.answer = a]
      BY <2>6, <2>t, Verdicts DEF CheckIsAnswered
    <3>2. check' \in Flight
      BY <1>2, <2>6, <3>1, Flights DEF CheckIsAnswered, TypeOK
    <3> QED BY <1>2, <2>6, <3>2 DEF CheckIsAnswered, server, auth, retries, TypeOK
  <2>7. CASE CheckStatus
    <3>1. /\ user' \in Token0 /\ token' = token /\ authEnabled' \in BOOLEAN
          /\ loading' \in BOOLEAN /\ unconfirmed' \in BOOLEAN
          /\ check' \in Flight \cup {NoFlight}
      BY <1>2, <2>7, <2>t DEF CheckStatus, CheckEnds, KeptUnanswered, TypeOK, Token0
    <3>2. RetriesOK'
      BY <1>2, <2>7, RunRecheckTypes
      DEF CheckStatus, KeptUnanswered, RetriesOK, retries, TypeOK
    <3>3. UNCHANGED <<server, poll, socket, outages>>
      BY <2>7 DEF CheckStatus
    <3> QED BY <1>2, <3>1, <3>2, <3>3 DEF RetriesOK, server, TypeOK
  <2>8. CASE CheckMe
    <3>0. check \in Flight /\ check.sent \in Token0 /\ check.try \in 1 .. Tries
      BY <1>2, <2>8, Flights DEF CheckMe, TypeOK
    <3>1. check.try < Tries => AskMe(check.try + 1) \in Flight
      BY <2>t, <3>0, Flights
    <3>2. /\ user' \in Token0 /\ token' \in {token, None}
          /\ loading' \in BOOLEAN /\ unconfirmed' \in BOOLEAN
          /\ check' \in Flight \cup {NoFlight}
      BY <1>2, <2>8, <3>0, <3>1 DEF CheckMe, CheckEnds, KeptUnanswered, TypeOK, Token0
    <3>3. RetriesOK'
      BY <1>2, <2>8, RunRecheckTypes DEF CheckMe, KeptUnanswered, RetriesOK, retries, TypeOK
    <3>4. UNCHANGED <<server, authEnabled, poll, socket, outages>>
      BY <2>8 DEF CheckMe
    <3> QED BY <1>2, <3>2, <3>3, <3>4 DEF RetriesOK, server, TypeOK
  <2>9. ASSUME NEW c \in Checks, RecheckIsAnswered(c) PROVE TypeOK'
    <3>1. PICK a \in Answers : recheck' = [recheck EXCEPT ![c].answer = a]
      BY <2>9, <2>t, Verdicts DEF RecheckIsAnswered
    <3>2. recheck[c] \in Flight
      BY <1>2, <2>9 DEF RecheckIsAnswered, TypeOK
    <3>3. [recheck[c] EXCEPT !.answer = a] \in Flight
      BY <3>2, Flights
    <3>4. recheck' \in [Checks -> Flight \cup {NoFlight}]
      BY <1>2, <3>1, <3>3 DEF TypeOK
    <3> QED BY <1>2, <2>9, <3>4 DEF RecheckIsAnswered, server, auth, TypeOK
  <2>10. ASSUME NEW c \in Checks, RecheckStatus(c) PROVE TypeOK'
    <3>1. /\ user' \in Token0 /\ token' = token /\ authEnabled' \in BOOLEAN
          /\ loading' = loading /\ unconfirmed' \in BOOLEAN
      BY <1>2, <2>10 DEF RecheckStatus, Answered, auth, TypeOK, Token0
    <3>2. RetriesOK'
      BY <1>2, <2>10, <2>t, RetryTypes DEF RecheckStatus, RetriesOK, TypeOK
    <3>3. UNCHANGED <<server, check, poll, socket, outages>>
      BY <2>10 DEF RecheckStatus
    <3> QED BY <1>2, <3>1, <3>2, <3>3 DEF RetriesOK, server, TypeOK
  <2>11. ASSUME NEW c \in Checks, RecheckMe(c) PROVE TypeOK'
    <3>0. recheck[c] \in Flight /\ recheck[c].sent \in Token0
      BY <1>2, <2>11, Flights DEF RecheckMe, TypeOK
    <3>1. /\ user' \in Token0 /\ token' \in {token, None} /\ unconfirmed' \in BOOLEAN
      BY <1>2, <2>11, <3>0 DEF RecheckMe, Answered, TypeOK, Token0
    <3>2. RetriesOK'
      BY <1>2, <2>11, RetryTypes DEF RecheckMe
    <3>3. UNCHANGED <<server, authEnabled, loading, check, poll, socket, outages>>
      BY <2>11 DEF RecheckMe
    <3> QED BY <1>2, <3>1, <3>2, <3>3 DEF RetriesOK, server, TypeOK
  <2>12. CASE TimerFires
    <3>1. recheck' \in [Checks -> Flight \cup {NoFlight}]
      BY <1>2, <2>12, <2>t DEF TimerFires, TypeOK
    <3>2. timers' \in Nat
      BY <1>2, <2>12 DEF TimerFires, TypeOK
    <3> QED BY <1>2, <2>12, <3>1, <3>2 DEF TimerFires, server, auth, TypeOK
  <2>13. CASE Logout
    <3>1. Fresh(None) \in Flight
      BY Flights DEF Token0
    <3> QED BY <1>2, <2>13, <2>w, <3>1 DEF Logout, server, TypeOK, Token0
  <2>14. CASE PollSent
    <3>1. poll' \in Flight
      BY <2>14, <2>t, Verdicts DEF PollSent, Flight
    <3> QED BY <1>2, <2>14, <3>1 DEF PollSent, server, auth, retries, TypeOK
  <2>15. CASE PollArrives
    <3>1. user' \in Token0 /\ token' \in {token, None}
      BY <1>2, <2>15 DEF PollArrives, Refused, TypeOK, Token0
    <3> QED BY <1>2, <2>15, <3>1 DEF PollArrives, server, retries, TypeOK
  <2>16. CASE Mount \/ Unmount
    <3>1. ws.sent \in Token0 /\ ws.answer \in Answers
      BY <1>2 DEF TypeOK, Socket
    <3>2. late' \in Flight \cup {NoFlight}
      BY <1>2, <2>16, <2>t, <3>1 DEF Mount, Unmount, TypeOK, Flight
    <3> QED BY <1>2, <2>16, <2>t, <2>w, <3>2 DEF Mount, Unmount, server, auth, retries, TypeOK
  <2>21. CASE LateMintIsAnswered
    <3>1. late' \in Flight
      BY <1>2, <2>21, Flights, Verdicts DEF LateMintIsAnswered, TypeOK
    <3> QED BY <1>2, <2>21, <3>1 DEF LateMintIsAnswered, server, auth, retries, TypeOK
  <2>22. CASE LateMintArrives
    <3>1. user' \in Token0 /\ token' \in {token, None}
      BY <1>2, <2>22 DEF LateMintArrives, Refused, TypeOK, Token0
    <3>2. RetriesOK'
      BY <1>2, <2>22, RunRecheckTypes DEF LateMintArrives, RetriesOK, retries, TypeOK
    <3> QED BY <1>2, <2>22, <3>1, <3>2 DEF LateMintArrives, server, RetriesOK, TypeOK
  <2>17. CASE MintIsAnswered
    <3>1. PICK a \in Answers : ws' = [ws EXCEPT !.answer = a]
      BY <2>17, Verdicts DEF MintIsAnswered
    <3>2. ws' \in Socket
      BY <1>2, <3>1, Sockets DEF TypeOK
    <3> QED BY <1>2, <2>17, <3>2 DEF MintIsAnswered, server, auth, retries, TypeOK
  <2>18. CASE MintArrives
    <3>1. user' \in Token0 /\ token' \in {token, None}
      BY <1>2, <2>18 DEF MintArrives, Refused, TypeOK, Token0
    <3>2. ws' \in Socket
      BY <1>2, <2>18, <2>w, Sockets DEF MintArrives, TypeOK, Token0
    <3>3. RetriesOK'
      BY <1>2, <2>18, RunRecheckTypes DEF MintArrives, RetriesOK, retries, TypeOK
    <3> QED BY <1>2, <2>18, <3>1, <3>2, <3>3 DEF MintArrives, server, RetriesOK, TypeOK
  <2>19. CASE SocketOpens \/ SocketFails \/ WaitOver
    <3>1. ws' \in Socket
      BY <1>2, <2>19, <2>t, <2>w, Sockets
      DEF SocketOpens, SocketFails, WaitOver, TypeOK, WsStates
    <3> QED BY <1>2, <2>19, <3>1
        DEF SocketOpens, SocketFails, WaitOver, server, auth, retries, TypeOK
  <2>20. CASE SocketRefused
    <3>1. RetriesOK'
      BY <1>2, <2>20, RunRecheckTypes DEF SocketRefused
    <3> QED BY <1>2, <2>20, <2>w, <3>1 DEF SocketRefused, server, auth, RetriesOK, TypeOK
  <2> QED
    BY <2>1, <2>2, <2>3, <2>4, <2>5, <2>6, <2>7, <2>8, <2>9, <2>10, <2>11, <2>12, <2>13,
       <2>14, <2>15, <2>16, <2>17, <2>18, <2>19, <2>20, <2>21, <2>22 DEF Next
<1> QED
  BY <1>1, <1>2, PTL DEF Spec

-----------------------------------------------------------------------------
(* A tab none of whose sessions was ended is not signed out.               *)

\* What an answer of /auth/me says of the token it was sent with: the server
\* knows it, or it is no token, or its session has ended.
MeIsTrue(f) ==
    f.at = "me" => /\ f.answer = "ok" => f.sent # None
                   /\ f.answer = "401" => f.sent \in ended \cup {None}

\* A check may lose its token between two attempts; a re-check asks once.
RechecksTrue ==
    \A c \in Checks :
        recheck[c] # NoFlight =>
            MeIsTrue(recheck[c]) /\ (recheck[c].at = "me" => recheck[c].sent # None)

ChecksTrue == (check # NoFlight => MeIsTrue(check)) /\ RechecksTrue

\* A check that was sent without a token is not overtaken by a login.
NoneAsked == check # NoFlight /\ check.sent = None => token = None

\* A token that nobody checks is a signed-in user's, or waits for the server.
Settled ==
    ended = {} /\ token # None /\ check = NoFlight => loading \/ unconfirmed \/ user # None

SessionInv == TypeOK /\ ChecksTrue /\ NoneAsked /\ Settled

\* A request carries the token of its moment and no answer yet.
LEMMA FreshTrue ==
    /\ \A tok : Fresh(tok).at = "status" /\ Fresh(tok).sent = tok
    /\ AskStatus.at = "status"
    /\ \A n : AskMe(n).sent = token /\ AskMe(n).answer = "none"
  BY DEF Fresh, AskStatus, AskMe

\* A request under way is told from none.
LEMMA NewFlights ==
    ASSUME token \in Token0
    PROVE  /\ AskStatus # NoFlight
           /\ \A n \in 1 .. Tries : AskMe(n) # NoFlight
           /\ \A tok \in Token0 : Fresh(tok) # NoFlight
  BY Flights, Asking

\* What is known of the re-checks survives the start and the end of one, and
\* every step that leaves them alone.
LEMMA RunRecheckTrue ==
    ASSUME TypeOK, RechecksTrue, RunRecheck, ended' = ended PROVE RechecksTrue'
  BY FreshTrue DEF TypeOK, RechecksTrue, RunRecheck, MeIsTrue

LEMMA RecheckDoneTrue ==
    ASSUME TypeOK, RechecksTrue, NEW d \in Checks, RetryLater(d) \/ Answered(d), ended' = ended
    PROVE  RechecksTrue'
<1>1. recheck' = [recheck EXCEPT ![d] = NoFlight]
  BY DEF RetryLater, Answered
<1> QED BY <1>1 DEF TypeOK, RechecksTrue, MeIsTrue

LEMMA RechecksKept ==
    ASSUME RechecksTrue, recheck' = recheck, ended \subseteq ended' PROVE RechecksTrue'
  BY DEF RechecksTrue, MeIsTrue

LEMMA CheckKept ==
    ASSUME check # NoFlight => MeIsTrue(check), check' = check, ended \subseteq ended'
    PROVE  check' # NoFlight => MeIsTrue(check)'
  BY DEF MeIsTrue

LEMMA ChecksKept ==
    ASSUME ChecksTrue, check' = check, recheck' = recheck, ended \subseteq ended'
    PROVE  ChecksTrue'
  BY DEF ChecksTrue, RechecksTrue, MeIsTrue

\* The server refuses ended sessions only.
LEMMA VerdictTrue ==
    ASSUME NEW tok \in Token0
    PROVE  /\ Verdict(tok) = "401" => tok \in ended \cup {None}
           /\ Verdict(tok) = "ok" => tok # None
  BY DEF Verdict, Token0

\* Every step keeps the invariant.
LEMMA SessionInvStep == ASSUME SessionInv, Next, TypeOK' PROVE SessionInv'
<1> USE DEF SessionInv
<1>0. TypeOK /\ ChecksTrue /\ NoneAsked /\ Settled /\ RechecksTrue /\ token \in Token0
  BY DEF ChecksTrue, RechecksTrue, TypeOK, Token0
<1>c. (check' # NoFlight => MeIsTrue(check)') /\ RechecksTrue' => ChecksTrue'
  BY DEF ChecksTrue, RechecksTrue
<1>e. ended = {} => loud = {}
  BY DEF TypeOK
<1>k. check # NoFlight => MeIsTrue(check)
  BY <1>0 DEF ChecksTrue
<1>1. CASE ServerDown \/ ServerUp
  BY <1>0, <1>1, ChecksKept DEF ServerDown, ServerUp, auth, retries, NoneAsked, Settled
<1>3. ASSUME NEW t \in Tokens, SessionEnds(t) PROVE SessionInv'
  BY <1>0, <1>3, ChecksKept DEF SessionEnds, auth, retries, NoneAsked, Settled
<1>4. ASSUME NEW t \in Tokens, Login(t) PROVE SessionInv'
  <2>1. RechecksTrue' /\ MeIsTrue(check)'
    BY <1>0, <1>4, FreshTrue, RechecksKept DEF Login, retries, MeIsTrue
  <2>2. NoneAsked' /\ Settled'
    BY <1>4, FreshTrue, Flights DEF Login, NoneAsked, Settled, Token0
  <2> QED BY <1>c, <2>1, <2>2
<1>5. ASSUME NEW t \in Tokens, LoginWithToken(t) PROVE SessionInv'
  BY <1>0, <1>5, ChecksKept DEF LoginWithToken, LoginForm, retries, NoneAsked, Settled
<1>6. CASE CheckIsAnswered
  <2>0. check \in Flight /\ check.sent \in Token0 /\ check' \in Flight \cup {NoFlight}
    BY <1>0, <1>6, Flights DEF CheckIsAnswered, TypeOK
  <2>1. /\ check'.at = check.at /\ check'.sent = check.sent
        /\ check.at = "me" => check'.answer = Verdict(check.sent)
    BY <1>6, <2>0 DEF CheckIsAnswered, Flight
  <2>2. MeIsTrue(check)'
    BY <1>0, <1>6, <2>0, <2>1, VerdictTrue
    DEF CheckIsAnswered, server, MeIsTrue
  <2>3. RechecksTrue'
    BY <1>0, <1>6, RechecksKept DEF CheckIsAnswered, server, retries
  <2>4. check' # NoFlight
    BY <1>0, <1>6, <2>0, Flights, Verdicts DEF CheckIsAnswered, Answers
  <2>5. NoneAsked' /\ Settled'
    BY <1>0, <1>6, <2>1, <2>4 DEF CheckIsAnswered, server, auth, NoneAsked, Settled
  <2> QED BY <1>c, <2>2, <2>3, <2>5
<1>7. CASE CheckStatus
  <2>1. RechecksTrue'
    BY <1>0, <1>7, RunRecheckTrue, RechecksKept
    DEF CheckStatus, KeptUnanswered, server, retries
  <2>2. /\ check' # NoFlight => MeIsTrue(check)'
        /\ NoneAsked'
    BY <1>0, <1>7, FreshTrue
    DEF CheckStatus, KeptUnanswered, CheckEnds, server, NoneAsked, MeIsTrue
  <2>3. AskMe(1) # NoFlight
    BY <1>0, NewFlights
  <2>4. Settled'
    BY <1>0, <1>7, <2>3 DEF CheckStatus, KeptUnanswered, CheckEnds, server, NoneAsked, Settled
  <2> QED BY <1>c, <2>1, <2>2, <2>4
<1>8. CASE CheckMe
  <2>0. /\ check.answer = "ok" => check.sent # None
        /\ check.answer = "401" => check.sent \in ended \cup {None}
        /\ check.sent = None => token = None
    BY <1>0, <1>8, <1>k DEF CheckMe, MeIsTrue, NoneAsked
  <2>1. RechecksTrue'
    BY <1>0, <1>8, RunRecheckTrue, RechecksKept DEF CheckMe, KeptUnanswered, server, retries
  <2>2. /\ check' # NoFlight => MeIsTrue(check)'
        /\ NoneAsked'
    BY <1>0, <1>8, FreshTrue
    DEF CheckMe, KeptUnanswered, CheckEnds, server, NoneAsked, MeIsTrue
  <2>3. check.try < Tries => AskMe(check.try + 1) # NoFlight
    <3>1. check.try \in 1 .. Tries
      BY <1>0, <1>8, Flights DEF CheckMe, TypeOK
    <3> QED BY <1>0, <3>1, NewFlights
  <2>4. Settled'
    BY <1>0, <1>8, <2>0, <2>3 DEF CheckMe, KeptUnanswered, CheckEnds, server, Settled
  <2> QED BY <1>c, <2>1, <2>2, <2>4
<1>9. ASSUME NEW c \in Checks, RecheckIsAnswered(c) PROVE SessionInv'
  <2>0. recheck[c] \in Flight /\ recheck[c].sent \in Token0
    BY <1>0, <1>9, Flights DEF RecheckIsAnswered, TypeOK
  <2>1. \A d \in Checks : d # c => recheck'[d] = recheck[d]
    BY <1>0, <1>9 DEF RecheckIsAnswered, TypeOK
  <2>2. /\ recheck'[c].at = recheck[c].at /\ recheck'[c].sent = recheck[c].sent
        /\ recheck[c].at = "me" => recheck'[c].answer = Verdict(recheck[c].sent)
    BY <1>0, <1>9, <2>0 DEF RecheckIsAnswered, Flight, TypeOK
  <2>3. RechecksTrue'
    BY <1>0, <1>9, <2>0, <2>1, <2>2, VerdictTrue
    DEF RecheckIsAnswered, server, RechecksTrue, MeIsTrue
  <2>4. NoneAsked' /\ Settled' /\ (check' # NoFlight => MeIsTrue(check)')
    BY <1>0, <1>9, <1>k, CheckKept DEF RecheckIsAnswered, server, auth, NoneAsked, Settled
  <2> QED BY <1>c, <2>3, <2>4
<1>10. ASSUME NEW c \in Checks, RecheckStatus(c) PROVE SessionInv'
  <2>1. CASE recheck[c].answer = "ok" /\ token # None
    <3>1. recheck' = [recheck EXCEPT ![c] = AskMe(1)]
      BY <1>10, <2>1 DEF RecheckStatus
    <3>2. RechecksTrue'
      BY <1>0, <1>10, <2>1, <3>1, FreshTrue
      DEF RecheckStatus, server, RechecksTrue, MeIsTrue, TypeOK
    <3>3. NoneAsked' /\ Settled' /\ (check' # NoFlight => MeIsTrue(check)')
      BY <1>0, <1>10, <2>1, <1>k, CheckKept DEF RecheckStatus, server, NoneAsked, Settled
    <3> QED BY <1>c, <3>2, <3>3
  <2>2. CASE ~(recheck[c].answer = "ok" /\ token # None)
    <3>1. RechecksTrue'
      BY <1>0, <1>10, <2>2, RecheckDoneTrue DEF RecheckStatus, server
    <3>2. NoneAsked' /\ Settled' /\ (check' # NoFlight => MeIsTrue(check)')
      BY <1>0, <1>10, <2>2, <1>k, CheckKept DEF RecheckStatus, server, auth, NoneAsked, Settled
    <3> QED BY <1>c, <3>1, <3>2
  <2> QED BY <2>1, <2>2
<1>11. ASSUME NEW c \in Checks, RecheckMe(c) PROVE SessionInv'
  <2>0. /\ recheck[c].answer = "ok" => recheck[c].sent # None
        /\ recheck[c].answer = "401" => ended # {}
    BY <1>0, <1>11 DEF RecheckMe, RechecksTrue, MeIsTrue
  <2>1. RechecksTrue'
    BY <1>0, <1>11, RecheckDoneTrue DEF RecheckMe, server
  <2>2. NoneAsked' /\ Settled' /\ (check' # NoFlight => MeIsTrue(check)')
    BY <1>0, <1>11, <2>0, <1>k, CheckKept DEF RecheckMe, server, NoneAsked, Settled
  <2> QED BY <1>c, <2>1, <2>2
<1>12. CASE TimerFires
  <2>1. RechecksTrue'
    BY <1>0, <1>12, FreshTrue DEF TimerFires, server, RechecksTrue, MeIsTrue, TypeOK
  <2>2. NoneAsked' /\ Settled' /\ (check' # NoFlight => MeIsTrue(check)')
    BY <1>0, <1>12, <1>k, CheckKept DEF TimerFires, server, auth, NoneAsked, Settled
  <2> QED BY <1>c, <2>1, <2>2
<1>13. CASE Logout
  BY <1>0, <1>13, <1>c, FreshTrue DEF Logout, NoneAsked, Settled, RechecksTrue, MeIsTrue
<1>14. CASE PollSent
  BY <1>0, <1>14, ChecksKept DEF PollSent, server, auth, retries, NoneAsked, Settled
<1>15. CASE PollArrives
  BY <1>0, <1>15, <1>e, ChecksKept DEF PollArrives, Refused, server, retries, NoneAsked, Settled
<1>16. CASE \/ Mount \/ Unmount \/ MintIsAnswered \/ LateMintIsAnswered
            \/ SocketOpens \/ SocketFails \/ WaitOver
  BY <1>0, <1>16, ChecksKept
  DEF Mount, Unmount, MintIsAnswered, LateMintIsAnswered, SocketOpens, SocketFails, WaitOver, server, auth,
      retries, NoneAsked, Settled
<1>17. CASE MintArrives \/ LateMintArrives
  <2>1. RechecksTrue'
    BY <1>0, <1>17, RunRecheckTrue, RechecksKept DEF MintArrives, LateMintArrives, server, retries
  <2>2. NoneAsked' /\ Settled' /\ (check' # NoFlight => MeIsTrue(check)')
    BY <1>0, <1>17, <1>e, <1>k, CheckKept
    DEF MintArrives, LateMintArrives, Refused, server, NoneAsked, Settled
  <2> QED BY <1>c, <2>1, <2>2
<1>18. CASE SocketRefused
  <2>1. RechecksTrue'
    BY <1>0, <1>18, RunRecheckTrue DEF SocketRefused, server
  <2>2. NoneAsked' /\ Settled' /\ (check' # NoFlight => MeIsTrue(check)')
    BY <1>0, <1>18, <1>k, CheckKept DEF SocketRefused, server, auth, NoneAsked, Settled
  <2> QED BY <1>c, <2>1, <2>2
<1> QED
  BY <1>1, <1>3, <1>4, <1>5, <1>6, <1>7, <1>8, <1>9, <1>10, <1>11, <1>12, <1>13, <1>14,
     <1>15, <1>16, <1>17, <1>18 DEF Next

\* The inductive invariant of the two theorems below.
LEMMA SessionInvHolds == Spec => []SessionInv
<1>1. Init => SessionInv
  <2> SUFFICES ASSUME Init PROVE SessionInv
    OBVIOUS
  <2>1. TypeOK
    BY SessionTypesInit
  <2>2. PICK tok \in Token0 : Load(tok)
    BY DEF Init
  <2> QED
    BY <2>1, <2>2, FreshTrue DEF Load, SessionInv, ChecksTrue, RechecksTrue, MeIsTrue, NoneAsked, Settled
<1>2. ASSUME SessionInv, [Next]_vars, TypeOK' PROVE SessionInv'
  <2>1. CASE Next
    BY <1>2, <2>1, SessionInvStep
  <2>2. CASE UNCHANGED vars
    BY <1>2, <2>2 DEF vars, server, auth, retries, SessionInv, ChecksTrue, RechecksTrue,
                      MeIsTrue, NoneAsked, Settled
  <2> QED BY <1>2, <2>1, <2>2
<1> QED
  BY <1>1, <1>2, SessionTypes, PTL DEF Spec

\* An outage, however long and whenever it begins, does not send a tab with an
\* intact session to the login page.
THEOREM SessionNotSignedOut == Spec => []NotSignedOut
<1>1. SessionInv => NotSignedOut
  BY DEF SessionInv, Settled, NotSignedOut, LoginPage
<1> QED BY <1>1, SessionInvHolds, PTL

\* No step but the user's logout takes the token of such a tab away.
THEOREM SessionTokenKept == Spec => TokenKept
<1>1. ASSUME SessionInv, Next, ended = {}, token # None, token' = None PROVE Logout
  <2>e. loud = {} /\ None \notin Tokens
    BY <1>1 DEF SessionInv, TypeOK
  <2>1. \/ CheckMe \/ \E c \in Checks : RecheckMe(c)
        \/ PollArrives \/ MintArrives \/ LateMintArrives \/ Logout
        \/ UNCHANGED token \/ token' \in Tokens
    BY <1>1 DEF Next, ServerDown, ServerUp, SessionEnds, Login, LoginWithToken,
        CheckIsAnswered, CheckStatus, KeptUnanswered, RecheckIsAnswered, RecheckStatus,
        TimerFires, PollSent, Mount, Unmount, MintIsAnswered, LateMintIsAnswered, SocketOpens,
        SocketFails, SocketRefused, WaitOver, auth
  <2>2. ~CheckMe
    BY <1>1 DEF CheckMe, KeptUnanswered, SessionInv, ChecksTrue, MeIsTrue, NoneAsked
  <2>3. ASSUME NEW c \in Checks, RecheckMe(c) PROVE FALSE
    BY <1>1, <2>3 DEF RecheckMe, SessionInv, ChecksTrue, RechecksTrue, MeIsTrue
  <2>4. ~PollArrives /\ ~MintArrives /\ ~LateMintArrives
    BY <1>1, <2>e DEF PollArrives, MintArrives, LateMintArrives, Refused
  <2> QED BY <1>1, <2>e, <2>1, <2>2, <2>3, <2>4
<1>2. SessionInv /\ [Next]_vars
        => (ended = {} /\ token # None /\ token' = None => Logout)
  BY <1>1 DEF vars, auth
<1> QED BY <1>2, SessionInvHolds, PTL DEF Spec, TokenKept

=============================================================================
