------------------------------ MODULE SliceJobs ------------------------------
(***************************************************************************)
(* Background slicing: the in-memory dispatcher of the backend             *)
(* (services/slice_dispatch.py, api/routes/slice_jobs.py) and the tracker  *)
(* in one browser tab (contexts/SliceJobTrackerContext.tsx) that polls it, *)
(* shows one progress toast per job and announces each job's end.          *)
(*                                                                         *)
(* A POST enqueues a job and answers its id; the tab adds the id to React  *)
(* state, a later render copies that state to a ref, and a later effect    *)
(* restarts the poll timer when the number of jobs changed.  The three     *)
(* steps are separate actions: timers and answers come between them.       *)
(***************************************************************************)
EXTENDS Naturals, FiniteSets

CONSTANTS
    Works,        \* the files and archives anyone slices, each once
    MaxId,        \* bound: job ids are 1..MaxId
    MaxRestarts,  \* bound: restarts of the backend process
    MaxLost,      \* bound: answers the network loses
    ReadAll,      \* the tab's user holds LIBRARY_READ_ALL
    NoJob, NoRound, NoAnswer, Nothing

ASSUME SliceAssumption ==
    /\ MaxId \in Nat /\ MaxRestarts \in Nat /\ MaxLost \in Nat
    /\ ReadAll \in BOOLEAN
    /\ NoJob \notin [work : Works, mine : BOOLEAN,
                     status : {"pending", "running", "completed", "failed"}]

Ids == 1 .. MaxId

Statuses == {"pending", "running", "completed", "failed"}
Terminal == {"completed", "failed"}

SliceJob == [work : Works, mine : BOOLEAN, status : Statuses]
TrackedJob == [id : Ids, name : Works]

\* What a poll may be answered: the job's body, or an error (404, network).
Error == [status |-> "error"]
Answer == [status : Statuses, of : Works] \cup {Error}

VARIABLES
    jobs,        \* slice_dispatch._jobs
    nextId,      \* slice_dispatch._next_id
    aged,        \* finished jobs older than the retention window
    replies,     \* answers to this tab's POSTs, not yet received
    activeJobs,  \* React state of the tracker
    activeRef,   \* activeJobsRef.current: the state as of the last render
    startedAt,   \* ids with an entry in startedAtRef (and phase/progressRef)
    finished,    \* finishedRef
    toasts,      \* ids of the persistent progress toasts on screen
    effectLen,   \* activeJobs.length the poll effect was set up with
    round,       \* the poll round in flight, when polling is true
    sliceError,  \* the failure shown in the modal
    armed, told, \* history: calls of trackJob, and announcements, per id
    spoken,      \* history: the latest announcement and the job it was of
    used, restarts, lost

server == <<jobs, nextId, aged>>
tracker == <<activeJobs, startedAt, finished, toasts, sliceError>>
history == <<armed, told, spoken>>
bounds == <<used, restarts, lost>>
vars == <<server, replies, tracker, activeRef, effectLen, round, history, bounds>>

IdsOf(S) == {j.id : j \in S}

Init ==
    /\ jobs = [i \in Ids |-> NoJob]
    /\ nextId = 1
    /\ aged = {} /\ replies = {}
    /\ activeJobs = {} /\ activeRef = {}
    /\ startedAt = {} /\ finished = {} /\ toasts = {}
    /\ effectLen = 0
    /\ round = NoRound
    /\ sliceError = Nothing
    /\ armed = [i \in Ids |-> 0] /\ told = [i \in Ids |-> 0]
    /\ spoken = Nothing
    /\ used = {} /\ restarts = 0 /\ lost = 0

-----------------------------------------------------------------------------
(* The dispatcher.                                                         *)

\* _sweep_locked: the jobs that stay.
Sweep(J) == [i \in Ids |-> IF i \in aged THEN NoJob ELSE J[i]]

\* enqueue: this tab's POST or somebody else's.
Enqueue(w, mine) ==
    /\ w \notin used /\ nextId \in Ids
    /\ jobs' = Sweep([jobs EXCEPT ![nextId] =
                        [work |-> w, mine |-> mine, status |-> "pending"]])
    /\ aged' = {}
    /\ nextId' = nextId + 1
    /\ replies' = IF mine THEN replies \cup {[id |-> nextId, name |-> w]} ELSE replies
    /\ used' = used \cup {w}
    /\ UNCHANGED <<tracker, activeRef, effectLen, round, history, restarts, lost>>

SetStatus(i, s) ==
    /\ jobs' = [jobs EXCEPT ![i].status = s]
    /\ UNCHANGED <<nextId, aged, replies, tracker, activeRef, effectLen, round,
                   history, bounds>>

\* _run_job up to `await run(...)`.
RunJob(i) == jobs[i] # NoJob /\ jobs[i].status = "pending" /\ SetStatus(i, "running")

\* _run_job after it: the result or the error is kept on the job.
FinishJob(i) ==
    /\ jobs[i] # NoJob /\ jobs[i].status = "running"
    /\ \E s \in Terminal : SetStatus(i, s)

\* Thirty minutes pass after the end of a job (a tab may be suspended).
Ages(i) ==
    /\ jobs[i] # NoJob /\ jobs[i].status \in Terminal /\ i \notin aged
    /\ aged' = aged \cup {i}
    /\ UNCHANGED <<jobs, nextId, replies, tracker, activeRef, effectLen, round,
                   history, bounds>>

\* (mutant: ids start at zero)
RestartAtZero ==
    /\ restarts < MaxRestarts
    /\ restarts' = restarts + 1
    /\ jobs' = [i \in Ids |-> NoJob]
    /\ nextId' = 0
    /\ aged' = {}
    /\ UNCHANGED <<replies, tracker, activeRef, effectLen, round, history, used, lost>>

\* The process stops and starts: every job is forgotten, ids start again.
Restart ==
    /\ restarts < MaxRestarts
    /\ restarts' = restarts + 1
    /\ jobs' = [i \in Ids |-> NoJob]
    /\ nextId' = 1
    /\ aged' = {}
    /\ UNCHANGED <<replies, tracker, activeRef, effectLen, round, history, used, lost>>

\* get_slice_job: an unknown job, or one the user may not read, is a 404.
GetSliceJob(i) ==
    IF jobs[i] # NoJob /\ (ReadAll \/ jobs[i].mine)
    THEN [status |-> jobs[i].status, of |-> jobs[i].work]
    ELSE Error

-----------------------------------------------------------------------------
(* The tracker.                                                            *)

\* trackJob, called by SliceModal with the POST's answer.
TrackJob(r) ==
    /\ r \in replies
    /\ replies' = replies \ {r}
    /\ activeJobs' = IF r.id \in IdsOf(activeJobs) THEN activeJobs
                                                   ELSE activeJobs \cup {r}
    /\ finished' = finished \ {r.id}
    /\ startedAt' = startedAt \cup {r.id}
    /\ toasts' = toasts \cup {r.id}
    /\ armed' = [armed EXCEPT ![r.id] = @ + 1]
    /\ UNCHANGED <<server, sliceError, activeRef, effectLen, round, told, spoken, bounds>>

\* The POST's answer is lost: SliceModal shows an error, nothing is tracked.
LoseReply(r) ==
    /\ r \in replies /\ lost < MaxLost
    /\ replies' = replies \ {r}
    /\ lost' = lost + 1
    /\ UNCHANGED <<server, tracker, activeRef, effectLen, round, history, used, restarts>>

\* A render: activeJobsRef.current = activeJobs.
Render ==
    /\ activeRef # activeJobs
    /\ activeRef' = activeJobs
    /\ UNCHANGED <<server, replies, tracker, effectLen, round, history, bounds>>

\* The poll effect, whose dependency is activeJobs.length: the clean-up cancels
\* the round in flight (what it receives later it drops), the set-up starts a
\* new timer with polling = false.
PollEffect ==
    /\ Cardinality(activeRef) # effectLen
    /\ effectLen' = Cardinality(activeRef)
    /\ round' = NoRound
    /\ UNCHANGED <<server, replies, tracker, activeRef, history, bounds>>

\* The requests go out one after the other, in any order.
Ask(S) == IF S = {} THEN round' = NoRound
          ELSE \E j \in S : round' = [job |-> j, todo |-> S \ {j}, answer |-> NoAnswer]

\* The interval fires: one round at a time.
PollTick ==
    /\ effectLen > 0 /\ round = NoRound /\ activeRef # {}
    /\ Ask(activeRef)
    /\ UNCHANGED <<server, replies, tracker, activeRef, effectLen, history, bounds>>

\* (mutant: the answers of a round are matched to the wrong jobs)
ServerAnswersMixed ==
    /\ round # NoRound /\ round.answer = NoAnswer
    /\ \E j \in {round.job} \cup round.todo :
         round' = [round EXCEPT !.answer = GetSliceJob(j.id)]
    /\ UNCHANGED <<server, replies, tracker, activeRef, effectLen, history, bounds>>

\* The server reads the job and answers; the answer then travels.
ServerAnswers ==
    /\ round # NoRound /\ round.answer = NoAnswer
    /\ round' = [round EXCEPT !.answer = GetSliceJob(round.job.id)]
    /\ UNCHANGED <<server, replies, tracker, activeRef, effectLen, history, bounds>>

LoseAnswer ==
    /\ round # NoRound /\ round.answer = NoAnswer /\ lost < MaxLost
    /\ round' = [round EXCEPT !.answer = Error]
    /\ lost' = lost + 1
    /\ UNCHANGED <<server, replies, tracker, activeRef, effectLen, history, used, restarts>>

\* (mutant: no guard)
CompleteJobAgain(j, a) ==
    /\ finished' = finished \cup {j.id}
    /\ activeJobs' = {k \in activeJobs : k.id # j.id}
    /\ startedAt' = startedAt \ {j.id}
    /\ toasts' = toasts \ {j.id}
    /\ sliceError' = IF a.status = "failed" THEN j.name ELSE sliceError
    /\ told' = [told EXCEPT ![j.id] = @ + 1]
    /\ spoken' = [name |-> j.name, of |-> a.of, as |-> a.status]
    /\ UNCHANGED armed

\* completeJob, behind its guard.
CompleteJob(j, a) ==
    IF j.id \in finished THEN UNCHANGED <<tracker, history>>
    ELSE /\ finished' = finished \cup {j.id}
         /\ activeJobs' = {k \in activeJobs : k.id # j.id}
         /\ startedAt' = startedAt \ {j.id}
         /\ toasts' = toasts \ {j.id}
         /\ sliceError' = IF a.status = "failed" THEN j.name ELSE sliceError
         /\ told' = [told EXCEPT ![j.id] = @ + 1]
         /\ spoken' = [name |-> j.name, of |-> a.of, as |-> a.status]
         /\ UNCHANGED armed

\* (mutant: an error ends the round without resetting polling)
PollHangs ==
    /\ round # NoRound /\ round.answer \notin {NoAnswer, Error}
    /\ IF round.answer.status \in Terminal
       THEN CompleteJob(round.job, round.answer)
       ELSE UNCHANGED <<tracker, history>>
    /\ Ask(round.todo)
    /\ UNCHANGED <<server, replies, activeRef, effectLen, bounds>>

\* (mutant: a job that could not be read is taken for gone)
PollDropsUnread ==
    /\ round # NoRound /\ round.answer # NoAnswer
    /\ IF round.answer.status \in Terminal
       THEN CompleteJob(round.job, round.answer)
       ELSE /\ activeJobs' = IF round.answer = Error THEN activeJobs \ {round.job} ELSE activeJobs
            /\ startedAt' = IdsOf(activeJobs')
            /\ toasts' = toasts \cap startedAt'
            /\ UNCHANGED <<finished, sliceError, history>>
    /\ Ask(round.todo)
    /\ UNCHANGED <<server, replies, activeRef, effectLen, bounds>>

\* The round goes on with the answer: an error leaves the job tracked.
PollResumes ==
    /\ round # NoRound /\ round.answer # NoAnswer
    /\ IF round.answer.status \in Terminal
       THEN CompleteJob(round.job, round.answer)
       ELSE UNCHANGED <<tracker, history>>
    /\ Ask(round.todo)
    /\ UNCHANGED <<server, replies, activeRef, effectLen, bounds>>

\* (mutant: every job of the ref gets a toast)
RenderProgressToastAlways(S) == toasts' = toasts \cup IdsOf(S)

\* renderProgressToast, which returns when the job has no start time.
RenderProgressToast(S) == toasts' = toasts \cup {i \in IdsOf(S) : i \in startedAt}

\* The 1 Hz tick draws the toast of every job in the ref again.
Tick ==
    /\ effectLen > 0
    /\ RenderProgressToast(activeRef)
    /\ toasts' # toasts
    /\ UNCHANGED <<server, replies, activeJobs, startedAt, finished, sliceError,
                   activeRef, effectLen, round, history, bounds>>

\* The user closes a progress toast, or the failure modal.
DismissToast(i) ==
    /\ i \in toasts
    /\ toasts' = toasts \ {i}
    /\ UNCHANGED <<server, replies, activeJobs, startedAt, finished, sliceError,
                   activeRef, effectLen, round, history, bounds>>

CloseModal ==
    /\ sliceError # Nothing
    /\ sliceError' = Nothing
    /\ UNCHANGED <<server, replies, activeJobs, startedAt, finished, toasts,
                   activeRef, effectLen, round, history, bounds>>

Next ==
    \/ \E w \in Works, mine \in BOOLEAN : Enqueue(w, mine)
    \/ \E i \in Ids : RunJob(i) \/ FinishJob(i) \/ Ages(i) \/ DismissToast(i)
    \/ \E r \in replies : TrackJob(r) \/ LoseReply(r)
    \/ Restart \/ Render \/ PollEffect \/ PollTick \/ ServerAnswers
    \/ LoseAnswer \/ PollResumes \/ Tick \/ CloseModal

Spec == Init /\ [][Next]_vars

\* The slicer ends every job (its HTTP calls have timeouts), React renders and
\* runs its effects, timers fire, requests are answered or fail.
Fairness ==
    /\ \A i \in Ids : WF_vars(RunJob(i)) /\ WF_vars(FinishJob(i))
    /\ WF_vars(Render) /\ WF_vars(PollEffect) /\ WF_vars(PollTick)
    /\ WF_vars(ServerAnswers) /\ WF_vars(PollResumes)

FairSpec == Spec /\ Fairness

-----------------------------------------------------------------------------
(* Properties.                                                             *)

Job0 == SliceJob \cup {NoJob}
Round0 == [job : TrackedJob, todo : SUBSET TrackedJob, answer : Answer \cup {NoAnswer}]
          \cup {NoRound}

\* The variables hold what the code keeps in them.
TypeOK ==
    /\ jobs \in [Ids -> Job0] /\ nextId \in 1 .. MaxId + 1
    /\ aged \subseteq Ids /\ replies \subseteq TrackedJob
    /\ activeJobs \subseteq TrackedJob /\ IsFiniteSet(activeJobs)
    /\ activeRef \subseteq TrackedJob /\ IsFiniteSet(activeRef)
    /\ startedAt \subseteq Ids /\ finished \subseteq Ids /\ toasts \subseteq Ids
    /\ effectLen \in Nat
    /\ round \in Round0
    /\ sliceError \in Works \cup {Nothing}
    /\ armed \in [Ids -> Nat] /\ told \in [Ids -> Nat]
    /\ spoken \in [name : Works, of : Works, as : Terminal] \cup {Nothing}
    /\ used \subseteq Works /\ restarts \in 0 .. MaxRestarts /\ lost \in 0 .. MaxLost

\* completeJob runs its side effects at most once per call of trackJob, however
\* many rounds, renders and effects come between: no stream of "Sliced X"
\* toasts for one slice (SliceJobTrackerContext.tsx:76-80, 248-256).
AnnouncedOnce == \A i \in Ids : told[i] <= armed[i]

\* No progress toast outlives its job: one on screen always belongs to a job
\* that is still tracked, although the tick works from a ref that lags behind
\* (SliceJobTrackerContext.tsx:71, 86, 297-306).
ToastsHaveJobs == toasts \subseteq IdsOf(activeJobs)

\* Without a restart of the backend, "Sliced X" is said of X's own job.
ToldTheTruth == restarts = 0 /\ spoken # Nothing => spoken.name = spoken.of

\* A tracked job leaves the tracker by its announcement alone: no lost answer, no
\* 404 and no round that outlived its effect lets go of it in silence
\* (SliceJobTrackerContext.tsx:173-177, 264-266).
LeftWasTold == \A i \in Ids : armed[i] > 0 /\ i \notin IdsOf(activeJobs) => told[i] > 0

\* A tracked job whose record the server keeps is announced in the end, and its
\* toast goes; only a restart or the retention window leaves it tracked.
Gone(i) == GetSliceJob(i) = Error
TrackedEnds ==
    \A i \in Ids : i \in IdsOf(activeJobs) ~> i \notin IdsOf(activeJobs) \/ Gone(i)

=============================================================================
