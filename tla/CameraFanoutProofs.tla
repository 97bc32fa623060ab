------------------------- MODULE CameraFanoutProofs -------------------------
(* One live broadcaster, and no socket before the predecessor's is closed.   *)
EXTENDS CameraFanout, TLAPS

\* What the theorems need of the types.
FanoutType ==
  /\ minted \in 0..MaxMinted
  /\ stopped \in [Ids -> BOOLEAN]
  /\ torn_down \in [Ids -> BOOLEAN]
  /\ pump \in [Ids -> PumpStates]
  /\ predecessor \in [Ids -> 0..MaxMinted]
  /\ grace \in [Ids -> {"none", "sleeping", "awaiting"}]
  /\ of \in [Viewers -> 0..minted]
  /\ \A v \in Viewers : viewer[v] \in {"found", "found_again", "watching"} => of[v] # NoOne
  /\ viewer \in [Viewers -> ViewerStates]
  /\ stopper \in [Stoppers -> StopperStates]
  /\ target \in [Stoppers -> 0..minted]
  /\ \A s \in Stoppers : stopper[s] = "awaiting" => target[s] # NoOne
  /\ timeouts \in Nat

\* Inductive: the registry holds the youngest broadcaster, only it may be live,
\* and one that has left its predecessor behind saw it torn down.
FanoutInv ==
  /\ FanoutType
  /\ slot = minted
  /\ \A b \in Ids :
       /\ b > minted => ~stopped[b] /\ pump[b] = "none" /\ grace[b] = "none"
       /\ b < minted => stopped[b]
       /\ grace[b] = "awaiting" => stopped[b]
       /\ torn_down[b] => stopped[b] /\ PumpOver(b)
       /\ pump[b] \in {"waiting", "open"} => ~stopped[b]
       /\ predecessor[b] \in {NoOne, b - 1}
       /\ timeouts = 0 /\ b > 1 /\ b <= minted /\ (SocketOpen(b) \/ (~stopped[b] /\ predecessor[b] = NoOne))
            => torn_down[b - 1]
  /\ \A s \in Stoppers : stopper[s] = "awaiting" => stopped[target[s]]

\* It holds of the empty registry.
LEMMA FanoutInit == Init => FanoutInv
  BY FanoutAssumption DEF Init, FanoutInv, FanoutType, Ids, NoOne, PumpStates, ViewerStates, StopperStates,
     PumpOver, SocketOpen

\* Every step of a viewer, a pump, a grace window or a stop request keeps it.
LEMMA FanoutStep == FanoutInv /\ [Next]_vars => FanoutInv'
  <1> SUFFICES ASSUME FanoutInv, [Next]_vars PROVE FanoutInv'
    OBVIOUS
  <1>. USE FanoutAssumption
       DEF FanoutInv, FanoutType, Ids, NoOne, PumpStates, ViewerStates, StopperStates, PumpOver, SocketOpen
  <1>1. CASE UNCHANGED vars
    BY <1>1 DEF vars, bcVars, viewerVars, stopVars
  <1>2. ASSUME NEW v \in Viewers, Find(v) PROVE FanoutInv'
    <2>1. CASE Usable(slot)
      <3>1. /\ of' = [of EXCEPT ![v] = slot] /\ slot # NoOne
            /\ UNCHANGED <<slot, minted, predecessor, stopped, pump, grace, torn_down, stopper, target, timeouts>>
        BY <1>2, <2>1 DEF Find, Usable, stopVars
      <3>2. /\ viewer' \in [Viewers -> ViewerStates]
            /\ \A w \in Viewers : w # v => viewer'[w] = viewer[w]
        BY <1>2 DEF Find
      <3>3. FanoutType'
        <4>1. of' \in [Viewers -> 0..minted'] /\ target' \in [Stoppers -> 0..minted']
          BY <3>1
        <4>2. \A w \in Viewers : viewer'[w] \in {"found", "found_again", "watching"} => of'[w] # NoOne
          BY <3>1, <3>2
        <4> QED BY <3>1, <3>2, <4>1, <4>2
      <3> QED BY <3>1, <3>3
    <2>2. CASE ~Usable(slot)
      <3>1. /\ minted < MaxMinted /\ minted' = minted + 1 /\ slot' = minted + 1
            /\ slot = NoOne \/ stopped[slot]
            /\ predecessor' = [predecessor EXCEPT ![minted + 1] = slot]
            /\ of' = [of EXCEPT ![v] = minted + 1]
            /\ UNCHANGED <<stopped, pump, grace, torn_down, stopper, target, timeouts>>
        BY <1>2, <2>2 DEF Find, Usable, stopVars
      <3>2. /\ viewer' \in [Viewers -> ViewerStates]
            /\ \A w \in Viewers : w # v => viewer'[w] = viewer[w]
        BY <1>2 DEF Find
      <3>3. FanoutType'
        <4>1. of' \in [Viewers -> 0..minted'] /\ target' \in [Stoppers -> 0..minted']
          BY <3>1
        <4>2. \A w \in Viewers : viewer'[w] \in {"found", "found_again", "watching"} => of'[w] # NoOne
          BY <3>1, <3>2
        <4> QED BY <3>1, <3>2, <4>1, <4>2
      <3>4. \A b \in Ids : b <= minted => stopped[b]
        BY <3>1
      <3>5. ASSUME NEW b \in Ids, b = minted + 1
            PROVE  /\ ~stopped[b] /\ pump[b] = "none" /\ grace[b] = "none" /\ ~torn_down[b]
                   /\ predecessor'[b] = b - 1
                   /\ b > 1 => predecessor'[b] # NoOne
        BY <3>1, <3>5
      <3>6. \A b \in Ids : b # minted + 1 => predecessor'[b] = predecessor[b]
        BY <3>1
      <3> QED BY <3>1, <3>3, <3>4, <3>5, <3>6
    <2> QED BY <2>1, <2>2
  <1>3. ASSUME NEW v \in Viewers, Subscribe(v) PROVE FanoutInv'
    BY <1>3 DEF Subscribe, Joinable, stopVars
  <1>4. ASSUME NEW v \in Viewers, SubscribeFails(v) \/ ReadFrame(v) \/ AskAgain(v) PROVE FanoutInv'
    <2>1. CASE SubscribeFails(v) BY <2>1 DEF SubscribeFails, bcVars, stopVars
    <2>2. CASE ReadFrame(v)      BY <2>2 DEF ReadFrame, bcVars, stopVars
    <2>3. CASE AskAgain(v)       BY <2>3 DEF AskAgain, bcVars, stopVars
    <2> QED BY <1>4, <2>1, <2>2, <2>3
  <1>5. ASSUME NEW v \in Viewers, Leave(v) \/ ReadGone(v) PROVE FanoutInv'
    <2>1. Unsubscribe(v) /\ viewer[v] = "watching"
      BY <1>5 DEF Leave, ReadGone
    <2>2. /\ viewer' \in [Viewers -> ViewerStates]
          /\ \A w \in Viewers : viewer'[w] \in {"found", "found_again", "watching"} => viewer'[w] = viewer[w]
      BY <2>1 DEF Unsubscribe
    <2>3. CASE grace' = grace
      BY <2>1, <2>2, <2>3 DEF Unsubscribe, stopVars
    <2>4. CASE grace' = [grace EXCEPT ![of[v]] = "sleeping"]
      <3>1. of[v] \in 1..minted
        BY <2>1
      <3> QED BY <2>1, <2>2, <2>4, <3>1 DEF Unsubscribe, stopVars
    <2> QED BY <2>1, <2>3, <2>4 DEF Unsubscribe
  <1>6. ASSUME NEW b \in Ids, Dial(b) PROVE FanoutInv'
    BY <1>6 DEF Dial, MayDial, viewerVars, stopVars
  <1>7. ASSUME NEW b \in Ids, Frame(b) PROVE FanoutInv'
    BY <1>7 DEF Frame, stopVars
  <1>8. ASSUME NEW b \in Ids, SocketCloses(b) \/ PumpExits(b) PROVE FanoutInv'
    <2>1. CASE SocketCloses(b) BY <2>1 DEF SocketCloses, viewerVars, stopVars
    <2>2. CASE PumpExits(b)    BY <2>2 DEF PumpExits, stopVars
    <2> QED BY <1>8, <2>1, <2>2
  <1>9. ASSUME NEW b \in Ids, GraceExpires(b) PROVE FanoutInv'
    <2>1. CASE subscribers[b] # {} \/ stopped[b]
      <3>1. /\ grace' = [grace EXCEPT ![b] = "none"]
            /\ UNCHANGED <<stopped, pump, predecessor, slot, minted, torn_down, viewer, of, stopper, target, timeouts>>
        BY <1>9, <2>1 DEF GraceExpires, viewerVars, stopVars
      <3> QED BY <3>1
    <2>2. CASE ~(subscribers[b] # {} \/ stopped[b])
      <3>1. /\ grace' = [grace EXCEPT ![b] = "awaiting"]
            /\ stopped' = [stopped EXCEPT ![b] = TRUE]
            /\ pump' = [pump EXCEPT ![b] = Cancelled(@)]
            /\ predecessor' = [predecessor EXCEPT ![b] = NoOne]
            /\ UNCHANGED <<slot, minted, torn_down, viewer, of, stopper, target, timeouts>>
            /\ ~stopped[b] /\ b <= minted
        BY <1>9, <2>2 DEF GraceExpires, viewerVars, stopVars
      <3>2. Cancelled(pump[b]) \in PumpStates \ {"waiting", "open"}
        BY DEF Cancelled
      <3>3. Cancelled(pump[b]) = "closing" => pump[b] \in {"open", "closing"}
        BY DEF Cancelled
      <3> QED BY <3>1, <3>2, <3>3
    <2> QED BY <2>1, <2>2
  <1>10. ASSUME NEW b \in Ids, GraceEnds(b) PROVE FanoutInv'
    BY <1>10 DEF GraceEnds, Closed, viewerVars, stopVars
  <1>11. ASSUME NEW s \in Stoppers, ForceShutdown(s) PROVE FanoutInv'
    BY <1>11 DEF ForceShutdown, Usable, Cancelled
  <1>12. ASSUME NEW s \in Stoppers, StopEnds(s) PROVE FanoutInv'
    BY <1>12 DEF StopEnds, Closed, viewerVars
  <1> QED BY <1>1, <1>2, <1>3, <1>4, <1>5, <1>6, <1>7, <1>8, <1>9, <1>10, <1>11, <1>12 DEF Next

\* So it holds of every reachable state.
LEMMA FanoutInvHolds == Spec => []FanoutInv
  BY FanoutInit, FanoutStep, PTL DEF Spec

\* All viewers share one upstream: whatever requests come and go, at most one
\* broadcaster is live, and the next viewer finds it.
THEOREM OneLiveBroadcaster == Spec => []LiveInSlot
  <1>1. FanoutInv => LiveInSlot
    BY FanoutAssumption DEF FanoutInv, FanoutType, LiveInSlot, Ids
  <1> QED BY <1>1, FanoutInvHolds, PTL

\* A broadcaster that declares itself torn down has closed its socket.
THEOREM TornDownClosed == Spec => []TornDownIsClosed
  <1>1. FanoutInv => TornDownIsClosed
    BY DEF FanoutInv, TornDownIsClosed, PumpOver, SocketOpen
  <1> QED BY <1>1, FanoutInvHolds, PTL

\* The predecessor gate holds for any number of replacements.
THEOREM SuccessorsWait == Spec => []SuccessorWaits
  <1>1. FanoutInv => SuccessorWaits
    <2> SUFFICES ASSUME FanoutInv, timeouts = 0, NEW b \in Ids \ {1}, SocketOpen(b)
                 PROVE  ~SocketOpen(b - 1)
      BY DEF SuccessorWaits
    <2>1. b > 1 /\ b <= minted /\ b - 1 \in Ids
      BY FanoutAssumption DEF FanoutInv, FanoutType, Ids, SocketOpen
    <2>2. torn_down[b - 1]
      BY <2>1 DEF FanoutInv
    <2> QED BY <2>1, <2>2 DEF FanoutInv, PumpOver, SocketOpen
  <1> QED BY <1>1, FanoutInvHolds, PTL

-----------------------------------------------------------------------------
(* Types, the bound on the queues among them.                              *)

\* A viewer that found or watches a broadcaster, and a stop request that waits
\* for one, name one that was created.
LEMMA TypeStep == FanoutInv /\ TypeOK /\ [Next]_vars => TypeOK'
  <1> SUFFICES ASSUME FanoutInv, TypeOK, [Next]_vars PROVE TypeOK'
    OBVIOUS
  <1>. USE FanoutAssumption DEF TypeOK, Ids, NoOne, PumpStates, ViewerStates, StopperStates
  <1>0. /\ slot = minted
        /\ \A v \in Viewers : viewer[v] \in {"found", "found_again", "watching"} => of[v] \in Ids
        /\ \A s \in Stoppers : stopper[s] = "awaiting" => target[s] \in Ids
    BY DEF FanoutInv, FanoutType
  <1>1. CASE UNCHANGED vars
    BY <1>1 DEF vars, bcVars, viewerVars, stopVars
  <1>2. ASSUME NEW v \in Viewers, Find(v) PROVE TypeOK'
    <2>1. CASE Usable(slot)  BY <1>2, <2>1, <1>0 DEF Find, stopVars
    <2>2. CASE ~Usable(slot)
      <3>1. /\ minted < MaxMinted /\ minted' = minted + 1 /\ slot' = minted + 1
            /\ predecessor' = [predecessor EXCEPT ![minted + 1] = slot]
            /\ of' = [of EXCEPT ![v] = minted + 1]
            /\ viewer' = [viewer EXCEPT ![v] = IF @ = "away" THEN "found" ELSE "found_again"]
            /\ UNCHANGED <<stopped, subscribers, pump, grace, torn_down, last_chunk, queued, gone,
                           stopVars, frames, timeouts>>
        BY <1>2, <2>2 DEF Find
      <3>2. minted + 1 \in 0..MaxMinted
        BY <3>1
      <3>3. /\ slot' \in 0..MaxMinted /\ minted' \in 0..MaxMinted
            /\ predecessor' \in [Ids -> 0..MaxMinted]
            /\ of' \in [Viewers -> 0..MaxMinted]
        BY <3>1, <3>2
      <3>4. viewer' \in [Viewers -> ViewerStates]
        BY <3>1
      <3> QED BY <3>1, <3>3, <3>4 DEF stopVars
    <2> QED BY <2>1, <2>2
  <1>3. ASSUME NEW v \in Viewers, Subscribe(v) PROVE TypeOK'
    <2>1. of[v] \in Ids
      BY <1>3, <1>0 DEF Subscribe
    <2>2. queued' \in [Viewers -> 0..QueueSize]
      BY <1>3 DEF Subscribe
    <2>3. /\ subscribers' \in [Ids -> SUBSET Viewers]
          /\ pump' \in [Ids -> PumpStates]
          /\ grace' \in [Ids -> {"none", "sleeping", "awaiting"}]
          /\ viewer' \in [Viewers -> ViewerStates]
      BY <1>3, <2>1 DEF Subscribe
    <2>4. UNCHANGED <<slot, minted, stopped, predecessor, torn_down, last_chunk, of, gone, stopper, target,
                      frames, timeouts>>
      BY <1>3 DEF Subscribe, stopVars
    <2> QED BY <2>2, <2>3, <2>4
  <1>4. ASSUME NEW v \in Viewers, SubscribeFails(v) \/ ReadFrame(v) \/ AskAgain(v) PROVE TypeOK'
    <2>1. CASE SubscribeFails(v) BY <2>1 DEF SubscribeFails, bcVars, stopVars
    <2>2. CASE ReadFrame(v)      BY <2>2 DEF ReadFrame, bcVars, stopVars
    <2>3. CASE AskAgain(v)       BY <2>3 DEF AskAgain, bcVars, stopVars
    <2> QED BY <1>4, <2>1, <2>2, <2>3
  <1>5. ASSUME NEW v \in Viewers, Leave(v) \/ ReadGone(v) PROVE TypeOK'
    <2>1. Unsubscribe(v) /\ of[v] \in Ids
      BY <1>5, <1>0 DEF Leave, ReadGone
    <2>2. grace' \in [Ids -> {"none", "sleeping", "awaiting"}]
      BY <2>1 DEF Unsubscribe
    <2>3. /\ viewer' \in [Viewers -> ViewerStates]
          /\ queued' \in [Viewers -> 0..QueueSize]
          /\ gone' \in [Viewers -> BOOLEAN]
          /\ subscribers' \in [Ids -> SUBSET Viewers]
      BY <2>1 DEF Unsubscribe
    <2>4. UNCHANGED <<slot, minted, stopped, pump, predecessor, torn_down, last_chunk, of, stopper, target,
                      frames, timeouts>>
      BY <2>1 DEF Unsubscribe, stopVars
    <2> QED BY <2>2, <2>3, <2>4
  <1>6. ASSUME NEW b \in Ids, Dial(b) \/ SocketCloses(b) PROVE TypeOK'
    <2>1. CASE Dial(b)
      <3>1. timeouts' \in 0..MaxTimeouts
        BY <2>1 DEF Dial
      <3> QED BY <2>1, <3>1 DEF Dial, viewerVars, stopVars
    <2>2. CASE SocketCloses(b) BY <2>2 DEF SocketCloses, viewerVars, stopVars
    <2> QED BY <1>6, <2>1, <2>2
  <1>7. ASSUME NEW b \in Ids, Frame(b) PROVE TypeOK'
    <2>1. queued' \in [Viewers -> 0..QueueSize]
      BY <1>7 DEF Frame, Room
    <2> QED BY <1>7, <2>1 DEF Frame, stopVars
  <1>8. ASSUME NEW V \in SUBSET Viewers, gone' = Notified(V) PROVE gone' \in [Viewers -> BOOLEAN]
    BY <1>8 DEF Notified, Room
  <1>9. ASSUME NEW b \in Ids, PumpExits(b) PROVE TypeOK'
    <2>1. gone' \in [Viewers -> BOOLEAN]
      BY <1>9, <1>8 DEF PumpExits, ToWake
    <2> QED BY <1>9, <2>1 DEF PumpExits, stopVars
  <1>10. ASSUME NEW b \in Ids, GraceExpires(b) \/ GraceEnds(b) PROVE TypeOK'
    <2>1. CASE GraceExpires(b)
      <3>1. CASE subscribers[b] # {} \/ stopped[b]
        BY <2>1, <3>1 DEF GraceExpires, viewerVars, stopVars
      <3>2. CASE ~(subscribers[b] # {} \/ stopped[b])
        <4>1. /\ grace' = [grace EXCEPT ![b] = "awaiting"]
              /\ stopped' = [stopped EXCEPT ![b] = TRUE]
              /\ pump' = [pump EXCEPT ![b] = Cancelled(@)]
              /\ predecessor' = [predecessor EXCEPT ![b] = NoOne]
          BY <2>1, <3>2 DEF GraceExpires
        <4>2. Cancelled(pump[b]) \in PumpStates
          BY DEF Cancelled
        <4>3. UNCHANGED <<slot, minted, subscribers, torn_down, last_chunk, viewerVars, stopVars, frames, timeouts>>
          BY <2>1 DEF GraceExpires
        <4> QED BY <4>1, <4>2, <4>3 DEF viewerVars, stopVars
      <3> QED BY <3>1, <3>2
    <2>2. CASE GraceEnds(b) BY <2>2 DEF GraceEnds, viewerVars, stopVars
    <2> QED BY <1>10, <2>1, <2>2
  <1>11. ASSUME NEW s \in Stoppers, ForceShutdown(s) PROVE TypeOK'
    <2>1. slot \in Ids
      BY <1>11, <1>0 DEF ForceShutdown, Usable
    <2>2. gone' \in [Viewers -> BOOLEAN]
      BY <1>11, <2>1, <1>8 DEF ForceShutdown
    <2> QED BY <1>11, <2>1, <2>2 DEF ForceShutdown, Cancelled
  <1>12. ASSUME NEW s \in Stoppers, StopEnds(s) PROVE TypeOK'
    BY <1>12, <1>0 DEF StopEnds, viewerVars
  <1> QED BY <1>1, <1>2, <1>3, <1>4, <1>5, <1>6, <1>7, <1>9, <1>10, <1>11, <1>12 DEF Next

\* Every variable of the fan-out keeps its type; no viewer's queue outgrows its
\* bound, whatever its client does (subscribe, _pump).
THEOREM FanoutTypeCorrect == Spec => []TypeOK
  <1>1. Init => TypeOK
    BY FanoutAssumption DEF Init, TypeOK, Ids, NoOne, PumpStates, ViewerStates, StopperStates
  <1> QED BY <1>1, TypeStep, FanoutInvHolds, PTL DEF Spec

-----------------------------------------------------------------------------
(* The grace window cuts nobody off.                                       *)

\* A broadcaster the grace window stopped had no viewer then, and takes none
\* after: subscribe finds it stopped.
LEMMA CutOffStep ==
  FanoutInv /\ TypeOK /\ NoViewerCutOff /\ [Next]_vars => NoViewerCutOff'
  <1> SUFFICES ASSUME FanoutInv, TypeOK, NoViewerCutOff, [Next]_vars PROVE NoViewerCutOff'
    OBVIOUS
  <1>. USE DEF NoViewerCutOff, TypeOK
  <1>1. CASE UNCHANGED <<grace, subscribers>>
    BY <1>1
  <1>2. ASSUME NEW v \in Viewers, Subscribe(v) PROVE NoViewerCutOff'
    <2>1. ~stopped[of[v]] /\ of[v] \in Ids
      BY <1>2 DEF Subscribe, Joinable, FanoutInv, FanoutType, NoOne, Ids
    <2>2. grace[of[v]] # "awaiting"
      BY <2>1 DEF FanoutInv
    <2> QED BY <1>2, <2>1, <2>2 DEF Subscribe
  <1>3. ASSUME NEW v \in Viewers, Unsubscribe(v) PROVE NoViewerCutOff'
    BY <1>3 DEF Unsubscribe
  <1>4. ASSUME NEW b \in Ids, GraceExpires(b) \/ GraceEnds(b) PROVE NoViewerCutOff'
    BY <1>4 DEF GraceExpires, GraceEnds
  <1>5. ASSUME NEW s \in Stoppers, ForceShutdown(s) PROVE NoViewerCutOff'
    BY <1>5 DEF ForceShutdown
  <1>6. ASSUME NEW v \in Viewers, Find(v) \/ SubscribeFails(v) \/ ReadFrame(v) \/ AskAgain(v)
        PROVE  UNCHANGED <<grace, subscribers>>
    BY <1>6 DEF Find, SubscribeFails, ReadFrame, AskAgain, bcVars
  <1>7. ASSUME NEW b \in Ids, Dial(b) \/ Frame(b) \/ SocketCloses(b) \/ PumpExits(b)
        PROVE  UNCHANGED <<grace, subscribers>>
    BY <1>7 DEF Dial, Frame, SocketCloses, PumpExits
  <1>8. ASSUME NEW s \in Stoppers, StopEnds(s) PROVE UNCHANGED <<grace, subscribers>>
    BY <1>8 DEF StopEnds
  <1> QED BY <1>1, <1>2, <1>3, <1>4, <1>5, <1>6, <1>7, <1>8 DEF Next, Leave, ReadGone, vars, bcVars

\* A viewer that comes back within the grace window is never left on a
\* broadcaster that is going away, whichever of the two is scheduled first.
THEOREM RejoinIsSafe == Spec => []NoViewerCutOff
  <1>1. Init => NoViewerCutOff
    BY DEF Init, NoViewerCutOff
  <1> QED BY <1>1, CutOffStep, FanoutInvHolds, FanoutTypeCorrect, PTL DEF Spec
=============================================================================
