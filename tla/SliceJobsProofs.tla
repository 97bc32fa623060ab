--------------------------- MODULE SliceJobsProofs ---------------------------
(***************************************************************************)
(* Proofs about SliceJobs for any number of jobs, restarts and losses: the *)
(* types, one announcement per tracking, no toast without its job, and the *)
(* announcement's truth while the backend does not restart.                *)
(***************************************************************************)
EXTENDS SliceJobs, FiniteSetTheorems, TLAPS

\* It starts with nothing sliced and nothing tracked.
LEMMA InitTypeOK == Init => TypeOK
BY SliceAssumption, FS_EmptySet DEF Init, TypeOK, Ids, Job0, Round0

\* A round that asks about jobs of the tab is a round.
LEMMA AskType ==
    ASSUME NEW S, S \subseteq TrackedJob, Ask(S)
    PROVE  round' \in Round0
BY DEF Ask, Round0

\* get_slice_job answers a body or an error.
LEMMA AnswerType ==
    ASSUME TypeOK, NEW i \in Ids
    PROVE  GetSliceJob(i) \in Answer
BY DEF TypeOK, GetSliceJob, Answer, Job0, SliceJob

\* Every step of the dispatcher and of the tab keeps the types.
LEMMA NextTypeOK == TypeOK /\ [Next]_vars => TypeOK'
<1> SUFFICES ASSUME TypeOK, [Next]_vars PROVE TypeOK'
  OBVIOUS
<1> USE SliceAssumption
<1> USE DEF TypeOK
<1>1. ASSUME NEW w \in Works, NEW mine \in BOOLEAN, Enqueue(w, mine) PROVE TypeOK'
  <2>1. jobs' \in [Ids -> Job0]
    BY <1>1 DEF Enqueue, Sweep, Job0, SliceJob, Statuses
  <2>2. nextId' \in 1 .. MaxId + 1
    BY <1>1 DEF Enqueue, Ids
  <2>3. replies' \subseteq TrackedJob
    BY <1>1 DEF Enqueue, TrackedJob
  <2> QED BY <1>1, <2>1, <2>2, <2>3 DEF Enqueue, tracker, history
<1>2. ASSUME NEW i \in Ids, RunJob(i) PROVE TypeOK'
  BY <1>2 DEF RunJob, SetStatus, Job0, SliceJob, Statuses, tracker, history, bounds
<1>3. ASSUME NEW i \in Ids, FinishJob(i) PROVE TypeOK'
  BY <1>3 DEF FinishJob, SetStatus, Job0, SliceJob, Statuses, Terminal, tracker,
              history, bounds
<1>4. ASSUME NEW i \in Ids, Ages(i) PROVE TypeOK'
  BY <1>4 DEF Ages, tracker, history, bounds
<1>5. CASE Restart
  BY <1>5 DEF Restart, Job0, tracker, history
<1>6. ASSUME NEW r \in replies, TrackJob(r) PROVE TypeOK'
  <2>1. IsFiniteSet(activeJobs \cup {r})
    BY FS_AddElement
  <2> QED BY <1>6, <2>1 DEF TrackJob, TrackedJob, IdsOf, server, bounds
<1>7. ASSUME NEW r \in replies, LoseReply(r) PROVE TypeOK'
  BY <1>7 DEF LoseReply, server, tracker, history
<1>8. CASE Render
  BY <1>8 DEF Render, server, tracker, history, bounds
<1>9. CASE PollEffect
  <2>1. Cardinality(activeRef) \in Nat
    BY FS_CardinalityType
  <2> QED BY <1>9, <2>1 DEF PollEffect, Round0, server, tracker, history, bounds
<1>10. CASE PollTick
  BY <1>10, AskType DEF PollTick, server, tracker, history, bounds
<1>11. CASE ServerAnswers
  <2>1. round \in Round0 /\ round # NoRound /\ round.job.id \in Ids
    BY <1>11 DEF ServerAnswers, Round0, TrackedJob
  <2>2. round' \in Round0
    BY <1>11, <2>1, AnswerType DEF ServerAnswers, Round0
  <2> QED BY <1>11, <2>2 DEF ServerAnswers, server, tracker, history, bounds
<1>12. CASE LoseAnswer
  BY <1>12 DEF LoseAnswer, Round0, Answer, server, tracker, history
<1>13. CASE PollResumes
  <2>1. round.todo \subseteq TrackedJob /\ round.job \in TrackedJob /\ round.answer \in Answer
    BY <1>13 DEF PollResumes, Round0
  <2>2. round' \in Round0
    BY <1>13, <2>1, AskType DEF PollResumes
  <2>3. IsFiniteSet({k \in activeJobs : k.id # round.job.id})
    BY FS_Subset
  <2>4. CASE UNCHANGED <<tracker, history>>
    BY <1>13, <2>2, <2>4 DEF PollResumes, server, tracker, history, bounds
  <2>5. CASE /\ round.answer.status \in Terminal
             /\ round.job.id \notin finished
             /\ CompleteJob(round.job, round.answer)
    <3>1. round.answer \in [status : Statuses, of : Works]
      BY <2>1, <2>5 DEF Answer, Error, Terminal
    <3>2. round.job.id \in Ids /\ round.job.name \in Works
      BY <2>1 DEF TrackedJob
    <3>3. /\ activeJobs' \subseteq TrackedJob /\ IsFiniteSet(activeJobs')
          /\ startedAt' \subseteq Ids /\ finished' \subseteq Ids /\ toasts' \subseteq Ids
          /\ sliceError' \in Works \cup {Nothing}
      BY <2>3, <2>5, <3>2 DEF CompleteJob
    <3>4. told' \in [Ids -> Nat] /\ armed' = armed
      BY <2>5, <3>2 DEF CompleteJob
    <3>5. spoken' \in [name : Works, of : Works, as : Terminal] \cup {Nothing}
      BY <2>5, <3>1, <3>2 DEF CompleteJob
    <3> QED BY <1>13, <2>2, <3>3, <3>4, <3>5 DEF PollResumes, server, bounds
  <2> QED BY <1>13, <2>4, <2>5 DEF PollResumes, CompleteJob
<1>14. CASE Tick
  BY <1>14 DEF Tick, RenderProgressToast, IdsOf, TrackedJob, server, history, bounds
<1>15. ASSUME NEW i \in Ids, DismissToast(i) PROVE TypeOK'
  BY <1>15 DEF DismissToast, server, history, bounds
<1>16. CASE CloseModal
  BY <1>16 DEF CloseModal, server, history, bounds
<1>17. CASE UNCHANGED vars
  BY <1>17 DEF vars, server, tracker, history, bounds
<1> QED BY <1>1, <1>2, <1>3, <1>4, <1>5, <1>6, <1>7, <1>8, <1>9, <1>10, <1>11,
           <1>12, <1>13, <1>14, <1>15, <1>16, <1>17 DEF Next

\* Every variable keeps its type.
THEOREM SliceTypes == Spec => []TypeOK
BY InitTypeOK, NextTypeOK, PTL DEF Spec

-----------------------------------------------------------------------------
\* A progress toast is drawn only for an id with a start time, and ids have one
\* exactly while they are tracked.
ToastInv == startedAt = IdsOf(activeJobs) /\ toasts \subseteq startedAt

\* The tick, which works from a stale ref, is held back by the start times.
LEMMA NextToastInv == ToastInv /\ [Next]_vars => ToastInv'
<1> SUFFICES ASSUME ToastInv, [Next]_vars PROVE ToastInv'
  OBVIOUS
<1> USE DEF ToastInv, IdsOf
<1>1. ASSUME NEW r \in replies, TrackJob(r) PROVE ToastInv'
  BY <1>1 DEF TrackJob
<1>2. CASE PollResumes
  BY <1>2 DEF PollResumes, CompleteJob, tracker
<1>3. CASE Tick
  BY <1>3 DEF Tick, RenderProgressToast
<1>4. ASSUME NEW i \in Ids, DismissToast(i) PROVE ToastInv'
  BY <1>4 DEF DismissToast
<1>5. CASE UNCHANGED <<activeJobs, startedAt, toasts>>
  BY <1>5
<1> QED
  BY <1>1, <1>2, <1>3, <1>4, <1>5
     DEF Next, vars, tracker, Enqueue, RunJob, FinishJob, SetStatus, Ages, Restart, LoseReply,
         Render, PollEffect, PollTick, ServerAnswers, LoseAnswer, CloseModal

\* No progress toast outlives its job.
THEOREM SliceToasts == Spec => []ToastsHaveJobs
<1>1. Init => ToastInv
  BY DEF Init, ToastInv, IdsOf
<1>2. ToastInv => ToastsHaveJobs
  BY DEF ToastInv, ToastsHaveJobs
<1> QED BY <1>1, <1>2, NextToastInv, PTL DEF Spec

-----------------------------------------------------------------------------
\* Only completeJob takes a job off the list, and it announces it; trackJob puts it
\* there, however often it is called.
LEMMA NextLeftWasTold == TypeOK /\ LeftWasTold /\ [Next]_vars => LeftWasTold'
<1> SUFFICES ASSUME TypeOK, LeftWasTold, [Next]_vars PROVE LeftWasTold'
  OBVIOUS
<1> USE DEF LeftWasTold, IdsOf
<1>0. armed \in [Ids -> Nat] /\ told \in [Ids -> Nat] /\ activeJobs \subseteq TrackedJob
  BY DEF TypeOK
<1>1. ASSUME NEW r \in replies, TrackJob(r) PROVE LeftWasTold'
  <2>1. told' = told /\ \A i \in Ids : i # r.id => armed'[i] = armed[i]
    BY <1>0, <1>1 DEF TrackJob
  <2>2. IdsOf(activeJobs') = IdsOf(activeJobs) \cup {r.id}
    BY <1>1 DEF TrackJob
  <2> QED BY <2>1, <2>2
<1>2. CASE PollResumes
  <2>1. round.job \in TrackedJob /\ round.job.id \in Ids
    BY <1>2 DEF PollResumes, TypeOK, Round0, TrackedJob
  <2>2. CASE UNCHANGED <<tracker, history>>
    BY <2>2 DEF tracker, history
  <2>3. CASE round.job.id \notin finished /\ CompleteJob(round.job, round.answer)
    <3>1. \A i \in Ids : told'[i] = IF i = round.job.id THEN told[i] + 1 ELSE told[i]
      BY <1>0, <2>1, <2>3 DEF CompleteJob
    <3>2. armed' = armed /\ IdsOf(activeJobs') = IdsOf(activeJobs) \ {round.job.id}
      BY <2>3 DEF CompleteJob
    <3> QED BY <1>0, <2>1, <3>1, <3>2
  <2> QED BY <1>2, <2>2, <2>3 DEF PollResumes, CompleteJob
<1>3. CASE UNCHANGED <<activeJobs, armed, told>>
  BY <1>3
<1> QED
  BY <1>1, <1>2, <1>3
     DEF Next, vars, tracker, history, Enqueue, RunJob, FinishJob, SetStatus, Ages, Restart, LoseReply,
         Render, PollEffect, PollTick, ServerAnswers, LoseAnswer, Tick, DismissToast, CloseModal

\* No slice a tab has tracked is dropped without a word, whatever is lost on the way.
THEOREM SliceLeaves == Spec => []LeftWasTold
<1>1. Init => LeftWasTold
  BY DEF Init, LeftWasTold, IdsOf
<1> QED BY <1>1, InitTypeOK, NextTypeOK, NextLeftWasTold, PTL DEF Spec

-----------------------------------------------------------------------------
InRound == IF round = NoRound THEN {} ELSE {round.job} \cup round.todo

\* Whatever the tab holds was armed, and an armed id that is not finished still
\* has an announcement to make.
OnceInv ==
    /\ \A j \in activeJobs \cup activeRef \cup InRound : armed[j.id] > 0
    /\ \A i \in Ids : /\ told[i] <= armed[i]
                      /\ i \notin finished /\ armed[i] > 0 => told[i] < armed[i]

\* completeJob's guard keeps it, whatever round the answer belongs to.
LEMMA NextOnceInv == TypeOK /\ OnceInv /\ [Next]_vars => OnceInv'
<1> SUFFICES ASSUME TypeOK, OnceInv, [Next]_vars PROVE OnceInv'
  OBVIOUS
<1>1. ASSUME NEW r \in replies, TrackJob(r) PROVE OnceInv'
  <2>1. r.id \in Ids
    BY DEF TypeOK, TrackedJob
  <2>2. \A i \in Ids : armed'[i] = IF i = r.id THEN armed[i] + 1 ELSE armed[i]
    BY <1>1, <2>1 DEF TrackJob, TypeOK
  <2>3. \A j \in activeJobs \cup activeRef \cup InRound : j.id \in Ids
    BY DEF TypeOK, InRound, Round0, TrackedJob
  <2>4. armed \in [Ids -> Nat] /\ told \in [Ids -> Nat]
    BY DEF TypeOK
  <2> QED BY <1>1, <2>1, <2>2, <2>3, <2>4 DEF TrackJob, OnceInv, InRound
<1>2. CASE PollResumes
  <2>1. round.todo \subseteq TrackedJob /\ round.job \in TrackedJob /\ round # NoRound
    BY <1>2 DEF PollResumes, TypeOK, Round0
  <2>2. (InRound)' \subseteq InRound
    BY <1>2, <2>1 DEF PollResumes, Ask, InRound
  <2>3. CASE UNCHANGED <<tracker, history>>
    BY <1>2, <2>2, <2>3 DEF PollResumes, OnceInv, tracker, history
  <2>4. CASE round.job.id \notin finished /\ CompleteJob(round.job, round.answer)
    <3>1. round.job.id \in Ids /\ armed[round.job.id] > 0
      BY <2>1 DEF TrackedJob, OnceInv, InRound
    <3>2. \A i \in Ids : told'[i] = IF i = round.job.id THEN told[i] + 1 ELSE told[i]
      BY <2>4, <3>1 DEF CompleteJob, TypeOK
    <3>3. armed \in [Ids -> Nat] /\ told \in [Ids -> Nat]
      BY DEF TypeOK
    <3>4. /\ armed' = armed /\ activeJobs' \subseteq activeJobs /\ activeRef' = activeRef
          /\ finished' = finished \cup {round.job.id}
      BY <1>2, <2>4 DEF CompleteJob, PollResumes
    <3>5. \A j \in (activeJobs \cup activeRef \cup InRound)' : armed'[j.id] > 0
      BY <2>2, <3>4 DEF OnceInv
    <3>6. ASSUME NEW i \in Ids
          PROVE  /\ told'[i] <= armed'[i]
                 /\ i \notin finished' /\ armed'[i] > 0 => told'[i] < armed'[i]
      <4>1. told[i] \in Nat /\ armed[i] \in Nat
        BY <3>3
      <4>2. CASE i = round.job.id
        BY <2>4, <3>1, <3>2, <3>4, <4>1, <4>2 DEF OnceInv
      <4>3. CASE i # round.job.id
        BY <3>2, <3>4, <4>1, <4>3 DEF OnceInv
      <4> QED BY <4>2, <4>3
    <3> QED BY <3>5, <3>6 DEF OnceInv
  <2> QED BY <1>2, <2>3, <2>4 DEF PollResumes, CompleteJob
<1>3. CASE /\ UNCHANGED <<finished, history, activeJobs>>
           /\ (activeRef \cup InRound)' \subseteq activeJobs \cup activeRef \cup InRound
  BY <1>3 DEF OnceInv, history
<1>4. CASE PollEffect
  BY <1>4, <1>3 DEF PollEffect, InRound, tracker
<1>5. CASE PollTick
  BY <1>5, <1>3 DEF PollTick, Ask, InRound, tracker
<1>6. CASE ServerAnswers
  BY <1>6, <1>3 DEF ServerAnswers, InRound, TypeOK, Round0, tracker
<1>7. CASE LoseAnswer
  BY <1>7, <1>3 DEF LoseAnswer, InRound, TypeOK, Round0, tracker
<1>8. CASE Render
  BY <1>8, <1>3 DEF Render, InRound, tracker
<1>9. CASE UNCHANGED <<finished, history, activeJobs, activeRef, round>>
  BY <1>9, <1>3 DEF InRound
<1> QED
  BY <1>1, <1>2, <1>4, <1>5, <1>6, <1>7, <1>8, <1>9
     DEF Next, vars, tracker, Enqueue, RunJob, FinishJob, SetStatus, Ages, Restart, LoseReply,
         Tick, DismissToast, CloseModal

\* One announcement per call of trackJob.
THEOREM SliceOnce == Spec => []AnnouncedOnce
<1>1. Init => OnceInv
  BY DEF Init, OnceInv, InRound
<1>2. OnceInv => AnnouncedOnce
  BY DEF OnceInv, AnnouncedOnce
<1> QED BY <1>1, <1>2, InitTypeOK, NextTypeOK, NextOnceInv, PTL DEF Spec

-----------------------------------------------------------------------------
Known == activeJobs \cup activeRef \cup InRound \cup replies

\* Until a restart an id is given once: what the tab believes of an id is what
\* the dispatcher holds under it, or the dispatcher holds nothing any more.
Issued == \A i \in Ids : jobs[i] # NoJob => i < nextId
Believed == \A j \in Known :
              /\ j.id < nextId
              /\ jobs[j.id] # NoJob => jobs[j.id].work = j.name
Answered == round # NoRound /\ round.answer # NoAnswer /\ round.answer # Error
              => round.answer.of = round.job.name
Said == spoken # Nothing => spoken.name = spoken.of

TruthInv == restarts = 0 => Issued /\ Believed /\ Answered /\ Said

\* Every step but a restart keeps it.
LEMMA NextTruthInv == TypeOK /\ TruthInv /\ [Next]_vars => TruthInv'
<1> SUFFICES ASSUME TypeOK, TruthInv, [Next]_vars, restarts' = 0
             PROVE  (Issued /\ Believed /\ Answered /\ Said)'
  BY DEF TruthInv
<1>a. ~Restart
  BY DEF Restart, TypeOK
<1>b. restarts' = restarts
  BY <1>a DEF Next, vars, bounds, Enqueue, RunJob, FinishJob, SetStatus, Ages,
              TrackJob, LoseReply, Render, PollEffect, PollTick, ServerAnswers, LoseAnswer,
              PollResumes, Tick, DismissToast, CloseModal
<1>c. Issued /\ Believed /\ Answered /\ Said
  BY <1>b DEF TruthInv
<1> USE <1>c
<1>0. Known \subseteq TrackedJob /\ nextId \in Nat
  BY SliceAssumption DEF Known, InRound, TypeOK, Round0
<1>1. ASSUME NEW w \in Works, NEW mine \in BOOLEAN, Enqueue(w, mine)
      PROVE  (Issued /\ Believed /\ Answered /\ Said)'
  <2>1. \A i \in Ids : \/ jobs'[i] = NoJob
                       \/ i = nextId /\ jobs'[i].work = w
                       \/ i # nextId /\ jobs'[i] = jobs[i]
    BY <1>1 DEF Enqueue, Sweep, TypeOK
  <2>2. nextId' = nextId + 1 /\ Known' \subseteq Known \cup {[id |-> nextId, name |-> w]}
    BY <1>1 DEF Enqueue, Known, InRound, tracker
  <2>3. Believed'
    <3>1. SUFFICES ASSUME NEW j \in Known'
                   PROVE  j.id < nextId' /\ (jobs'[j.id] # NoJob => jobs'[j.id].work = j.name)
      BY DEF Believed
    <3>2. CASE j \in Known
      <4>1. j.id \in Ids /\ j.id < nextId /\ j.id \in Nat
        <5>1. j \in TrackedJob
          BY <1>0, <3>2
        <5>2. j.id \in Ids
          BY <5>1 DEF TrackedJob
        <5> QED BY SliceAssumption, <3>2, <5>2 DEF Believed, Ids
      <4>2. jobs'[j.id] = NoJob \/ jobs'[j.id] = jobs[j.id]
        BY <1>0, <2>1, <4>1
      <4> QED BY <1>0, <2>2, <3>2, <4>1, <4>2 DEF Believed
    <3>3. CASE j = [id |-> nextId, name |-> w]
      <4>1. nextId \in Ids
        BY <1>1 DEF Enqueue
      <4> QED BY <1>0, <2>1, <2>2, <3>3, <4>1
    <3> QED BY <2>2, <3>2, <3>3
  <2>4. Issued'
    BY <1>0, <2>1, <2>2 DEF Issued, Ids
  <2> QED BY <1>1, <2>3, <2>4 DEF Enqueue, Answered, Said, history
<1>2. ASSUME NEW i \in Ids, NEW s, jobs[i] # NoJob, SetStatus(i, s)
      PROVE  (Issued /\ Believed /\ Answered /\ Said)'
  <2>1. jobs[i] \in SliceJob
    BY <1>2 DEF TypeOK, Job0
  <2>2. \A k \in Ids : k # i => jobs'[k] = jobs[k]
    BY <1>2 DEF SetStatus, TypeOK
  <2>3. jobs'[i].work = jobs[i].work
    BY <1>2, <2>1 DEF SetStatus, TypeOK, SliceJob
  <2>4. UNCHANGED <<nextId, Known, round, spoken>>
    BY <1>2 DEF SetStatus, Known, InRound, tracker, history
  <2>5. Issued'
    BY <1>2, <2>2, <2>4 DEF Issued
  <2>6. Believed'
    BY <1>0, <1>2, <2>2, <2>3, <2>4 DEF Believed, TrackedJob
  <2> QED BY <2>4, <2>5, <2>6 DEF Answered, Said
<1>3. CASE ServerAnswers
  <2>1. round.job \in Known /\ round # NoRound /\ round \in Round0
    BY <1>3 DEF ServerAnswers, Known, InRound, TypeOK
  <2>2. round.job \in TrackedJob
    BY <2>1, <1>0
  <2>3. round' # NoRound => round'.job = round.job /\ round'.answer = GetSliceJob(round.job.id)
    BY <1>3, <2>1 DEF ServerAnswers, Round0
  <2>4. Answered'
    <3>1. GetSliceJob(round.job.id) # Error =>
            jobs[round.job.id] # NoJob /\ GetSliceJob(round.job.id).of = jobs[round.job.id].work
      BY DEF GetSliceJob
    <3>2. jobs[round.job.id] # NoJob => jobs[round.job.id].work = round.job.name
      BY <2>1 DEF Believed
    <3> QED BY <2>3, <3>1, <3>2 DEF Answered
  <2>5. (InRound)' \subseteq InRound
    BY <1>3, <2>1 DEF ServerAnswers, InRound, Round0
  <2> QED BY <1>3, <2>4, <2>5
      DEF ServerAnswers, Known, Issued, Believed, Said, server, tracker, history
<1>4. CASE PollResumes
  <2>1. round.todo \subseteq TrackedJob /\ round.job \in TrackedJob /\ round # NoRound
    BY <1>4 DEF PollResumes, TypeOK, Round0
  <2>2. (InRound)' \subseteq InRound
    BY <1>4, <2>1 DEF PollResumes, Ask, InRound
  <2>3. Answered'
    <3>1. round' = NoRound \/ round'.answer = NoAnswer
      BY <1>4 DEF PollResumes, Ask
    <3> QED BY <3>1 DEF Answered
  <2>4. activeJobs' \subseteq activeJobs
    BY <1>4 DEF PollResumes, CompleteJob, tracker
  <2>5. Issued' /\ Believed'
    BY <1>4, <2>2, <2>4 DEF PollResumes, server, Known, Issued, Believed
  <2>6. Said'
    BY <1>4 DEF PollResumes, CompleteJob, history, Said, Answered, Error, Terminal
  <2> QED BY <2>3, <2>5, <2>6
<1>5. CASE /\ UNCHANGED <<nextId, spoken>> /\ jobs' = jobs
           /\ Known' \subseteq Known /\ Answered'
  BY <1>5 DEF Issued, Believed, Said
<1>6. ASSUME NEW r \in replies, TrackJob(r) \/ LoseReply(r)
      PROVE  (Issued /\ Believed /\ Answered /\ Said)'
  BY <1>6, <1>5 DEF TrackJob, LoseReply, Known, InRound, Answered, server, tracker, history
<1>7. CASE PollTick \/ PollEffect \/ Render
  BY <1>7, <1>5 DEF PollTick, PollEffect, Render, Ask, Known, InRound, Answered, server, tracker,
                    history
<1>8. CASE LoseAnswer
  BY <1>8, <1>5 DEF LoseAnswer, Known, InRound, Answered, TypeOK, Round0, server, tracker, history
<1>9. CASE UNCHANGED <<jobs, nextId, spoken, activeJobs, activeRef, replies, round>>
  BY <1>9, <1>5 DEF Known, InRound, Answered
<1> QED
  BY <1>1, <1>2, <1>3, <1>4, <1>6, <1>7, <1>8, <1>9, <1>a
     DEF Next, vars, server, tracker, history, RunJob, FinishJob, Ages, Tick, DismissToast,
         CloseModal

\* Until the backend restarts, a job's end is announced under its own name.
THEOREM SliceTruth == Spec => []ToldTheTruth
<1>1. Init => TruthInv
  BY DEF Init, TruthInv, Issued, Believed, Answered, Said, Known, InRound
<1>2. TruthInv => ToldTheTruth
  BY DEF TruthInv, Said, ToldTheTruth
<1> QED BY <1>1, <1>2, InitTypeOK, NextTypeOK, NextTruthInv, PTL DEF Spec
=============================================================================
