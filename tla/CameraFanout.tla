---------------------------- MODULE CameraFanout ----------------------------
(***************************************************************************)
(* The camera fan-out of one printer (services/camera_fanout.py): a          *)
(* registry slot holds the current broadcaster, whose pump coroutine reads   *)
(* one upstream and copies each frame to the queue of every viewer.  A       *)
(* broadcaster that stopped is replaced, and its successor is to wait for    *)
(* the old upstream to close: the printer serves one connection.             *)
(*                                                                           *)
(* No lock is held across an await, so a lock is always found free and a     *)
(* coroutine does not yield at it: a step is what runs up to the next wait   *)
(* for a frame, a socket, a clock or another task.  Only between the lookup  *)
(* of a broadcaster and its subscription is a switch allowed all the same:   *)
(* the stream route (api/routes/camera.py) has a retry written for one.      *)
(***************************************************************************)
EXTENDS Naturals, FiniteSets

CONSTANTS
  Viewers,      \* HTTP requests for the stream
  Stoppers,     \* HTTP requests that stop it (camera/stop, printer deleted)
  MaxMinted,    \* bound on the broadcasters ever created
  QueueSize,    \* _SUBSCRIBER_QUEUE_SIZE
  MaxFrames,    \* bound on the frames an upstream yields
  MaxTimeouts   \* bound on waits for a predecessor that run out

ASSUME FanoutAssumption ==
  /\ MaxMinted \in Nat \ {0} /\ QueueSize \in Nat \ {0}
  /\ MaxFrames \in Nat /\ MaxTimeouts \in Nat

NoOne == 0
Ids == 1..MaxMinted
PumpStates == {"none", "waiting", "open", "closing", "exiting", "done"}
ViewerStates == {"away", "found", "found_again", "watching", "served"}
StopperStates == {"idle", "awaiting", "done"}

VARIABLES
  slot, minted,                                   \* _broadcasters[key]
  stopped, subscribers, pump, predecessor, grace, torn_down, last_chunk,  \* per broadcaster
  viewer, of, queued, gone,                       \* per viewer; gone: sentinel queued
  stopper, target,                                \* per stop request
  frames, timeouts                                \* what the bounds count

bcVars     == <<stopped, subscribers, pump, predecessor, grace, torn_down, last_chunk>>
viewerVars == <<viewer, of, queued, gone>>
stopVars   == <<stopper, target>>
vars == <<slot, minted, bcVars, viewerVars, stopVars, frames, timeouts>>

TypeOK ==
  /\ slot \in 0..MaxMinted /\ minted \in 0..MaxMinted
  /\ stopped \in [Ids -> BOOLEAN]
  /\ subscribers \in [Ids -> SUBSET Viewers]
  /\ pump \in [Ids -> PumpStates]
  /\ predecessor \in [Ids -> 0..MaxMinted]
  /\ grace \in [Ids -> {"none", "sleeping", "awaiting"}]
  /\ torn_down \in [Ids -> BOOLEAN] /\ last_chunk \in [Ids -> BOOLEAN]
  /\ viewer \in [Viewers -> ViewerStates]
  /\ of \in [Viewers -> 0..MaxMinted]
  /\ queued \in [Viewers -> 0..QueueSize]
  /\ gone \in [Viewers -> BOOLEAN]
  /\ stopper \in [Stoppers -> StopperStates]
  /\ target \in [Stoppers -> 0..MaxMinted]
  /\ frames \in 0..MaxFrames /\ timeouts \in 0..MaxTimeouts

Init ==
  /\ slot = NoOne /\ minted = 0
  /\ stopped = [b \in Ids |-> FALSE]
  /\ subscribers = [b \in Ids |-> {}]
  /\ pump = [b \in Ids |-> "none"]
  /\ predecessor = [b \in Ids |-> NoOne]
  /\ grace = [b \in Ids |-> "none"]
  /\ torn_down = [b \in Ids |-> FALSE] /\ last_chunk = [b \in Ids |-> FALSE]
  /\ viewer = [v \in Viewers |-> "away"]
  /\ of = [v \in Viewers |-> NoOne]
  /\ queued = [v \in Viewers |-> 0]
  /\ gone = [v \in Viewers |-> FALSE]
  /\ stopper = [s \in Stoppers |-> "idle"]
  /\ target = [s \in Stoppers |-> NoOne]
  /\ frames = 0 /\ timeouts = 0

SocketOpen(b) == pump[b] \in {"open", "closing"}
Room(v) == queued[v] < QueueSize

\* The sentinel goes to every queue of V that has room for it.
Notified(V) == [v \in Viewers |-> gone[v] \/ (v \in V /\ Room(v))]

\* The state of a pump that was cancelled: one that dialled closes its socket.
\* Mutant: the pump is detached and left to run.
CancelledNot(state) == state
Cancelled(state) == CASE state = "waiting" -> "exiting" [] state = "open" -> "closing" [] OTHER -> state
PumpOver(b) == pump[b] \in {"none", "done"}

-----------------------------------------------------------------------------
(* Viewers: get_or_create_broadcaster, subscribe, iter_subscriber.           *)

\* Mutant of Usable: every viewer gets a broadcaster of its own.
UsableNever(b) == FALSE
Usable(b) == b # NoOne /\ ~stopped[b]

Find(v) ==
  /\ viewer[v] \in {"away", "found"}
  /\ viewer[v] = "found" => stopped[of[v]]
  /\ viewer' = [viewer EXCEPT ![v] = IF @ = "away" THEN "found" ELSE "found_again"]
  /\ IF Usable(slot)
     THEN /\ of' = [of EXCEPT ![v] = slot]
          /\ UNCHANGED <<slot, minted, predecessor>>
     ELSE /\ minted < MaxMinted
          /\ minted' = minted + 1
          /\ slot' = minted + 1
          /\ predecessor' = [predecessor EXCEPT ![minted + 1] = slot]
          /\ of' = [of EXCEPT ![v] = minted + 1]
  /\ UNCHANGED <<stopped, subscribers, pump, grace, torn_down, last_chunk, queued, gone, stopVars, frames, timeouts>>

\* Mutant of Joinable: nobody looks whether the broadcaster was stopped.
JoinableAlways(b) == TRUE
Joinable(b) == ~stopped[b]

\* A shutdown pending for the grace window is called off; a frame already
\* pumped is shown at once; a pump that ended is started again.
Subscribe(v) ==
  LET b == of[v] IN
  /\ viewer[v] \in {"found", "found_again"}
  /\ Joinable(b)
  /\ subscribers' = [subscribers EXCEPT ![b] = @ \cup {v}]
  /\ grace' = [grace EXCEPT ![b] = IF @ = "sleeping" THEN "none" ELSE @]
  /\ queued' = [queued EXCEPT ![v] = IF last_chunk[b] THEN 1 ELSE 0]
  /\ pump' = [pump EXCEPT ![b] = IF PumpOver(b) THEN "waiting" ELSE @]
  /\ viewer' = [viewer EXCEPT ![v] = "watching"]
  /\ UNCHANGED <<slot, minted, stopped, predecessor, torn_down, last_chunk, of, gone, stopVars, frames, timeouts>>

\* The second broadcaster is stopped as well: the request fails.
SubscribeFails(v) ==
  /\ viewer[v] = "found_again" /\ stopped[of[v]]
  /\ viewer' = [viewer EXCEPT ![v] = "served"]
  /\ UNCHANGED <<slot, minted, bcVars, of, queued, gone, stopVars, frames, timeouts>>

ReadFrame(v) ==
  /\ viewer[v] = "watching" /\ queued[v] > 0
  /\ queued' = [queued EXCEPT ![v] = @ - 1]
  /\ UNCHANGED <<slot, minted, bcVars, viewer, of, gone, stopVars, frames, timeouts>>

Unsubscribe(v) ==
  LET b == of[v] IN
  /\ viewer' = [viewer EXCEPT ![v] = "served"]
  /\ queued' = [queued EXCEPT ![v] = 0]
  /\ gone' = [gone EXCEPT ![v] = FALSE]
  /\ subscribers' = [subscribers EXCEPT ![b] = @ \ {v}]
  /\ grace' = IF subscribers[b] = {v} /\ ~stopped[b]
              THEN [grace EXCEPT ![b] = "sleeping"] ELSE grace
  /\ UNCHANGED <<slot, minted, stopped, pump, predecessor, torn_down, last_chunk, of, stopVars, frames, timeouts>>

\* The client left, or the sentinel was read.
Leave(v) == viewer[v] = "watching" /\ Unsubscribe(v)
ReadGone(v) == viewer[v] = "watching" /\ queued[v] = 0 /\ gone[v] /\ Unsubscribe(v)

\* The browser asks for the stream again.
AskAgain(v) ==
  /\ viewer[v] = "served"
  /\ viewer' = [viewer EXCEPT ![v] = "away"]
  /\ of' = [of EXCEPT ![v] = NoOne]
  /\ UNCHANGED <<slot, minted, bcVars, queued, gone, stopVars, frames, timeouts>>

-----------------------------------------------------------------------------
(* The pump coroutine (_pump).                                               *)

\* Mutant of MayDial: the pump does not wait for its predecessor.
MayDialAtOnce(b) == TRUE
MayDial(b) == predecessor[b] # NoOne => torn_down[predecessor[b]]

Dial(b) ==
  /\ pump[b] = "waiting"
  /\ \/ MayDial(b) /\ UNCHANGED timeouts
     \/ ~MayDial(b) /\ timeouts < MaxTimeouts /\ timeouts' = timeouts + 1
  /\ pump' = [pump EXCEPT ![b] = "open"]
  /\ predecessor' = [predecessor EXCEPT ![b] = NoOne]
  /\ UNCHANGED <<slot, minted, stopped, subscribers, grace, torn_down, last_chunk, viewerVars, stopVars, frames>>

\* A frame; a viewer whose queue is full misses it, and one that has the
\* sentinel in its queue reads no further.
Frame(b) ==
  /\ pump[b] = "open" /\ frames < MaxFrames
  /\ frames' = frames + 1
  /\ last_chunk' = [last_chunk EXCEPT ![b] = TRUE]
  /\ queued' = [v \in Viewers |-> IF v \in subscribers[b] /\ ~gone[v] /\ Room(v) THEN queued[v] + 1 ELSE queued[v]]
  /\ UNCHANGED <<slot, minted, stopped, subscribers, pump, predecessor, grace, torn_down, viewer, of, gone, stopVars, timeouts>>

\* The upstream ended or crashed, or closed after a cancellation.
SocketCloses(b) ==
  /\ SocketOpen(b)
  /\ pump' = [pump EXCEPT ![b] = "exiting"]
  /\ UNCHANGED <<slot, minted, stopped, subscribers, predecessor, grace, torn_down, last_chunk, viewerVars, stopVars, frames, timeouts>>

\* Mutant of ToWake: the pump ends without a word to its viewers.
ToWakeNone(b) == {}
ToWake(b) == subscribers[b]

PumpExits(b) ==
  /\ pump[b] = "exiting"
  /\ pump' = [pump EXCEPT ![b] = "done"]
  /\ gone' = Notified(ToWake(b))
  /\ UNCHANGED <<slot, minted, stopped, subscribers, predecessor, grace, torn_down, last_chunk, viewer, of, queued, stopVars, frames, timeouts>>

-----------------------------------------------------------------------------
(* Teardown: _grace_then_stop, shutdown_broadcaster, force_shutdown.         *)

\* Nobody came back; a viewer who did ends the wait.
GraceExpires(b) ==
  /\ grace[b] = "sleeping"
  /\ IF subscribers[b] # {} \/ stopped[b]
     THEN grace' = [grace EXCEPT ![b] = "none"] /\ UNCHANGED <<stopped, pump, predecessor>>
     ELSE /\ grace' = [grace EXCEPT ![b] = "awaiting"]
          /\ stopped' = [stopped EXCEPT ![b] = TRUE]
          /\ pump' = [pump EXCEPT ![b] = Cancelled(@)]
          /\ predecessor' = [predecessor EXCEPT ![b] = NoOne]
  /\ UNCHANGED <<slot, minted, subscribers, torn_down, last_chunk, viewerVars, stopVars, frames, timeouts>>

\* Mutant of Closed: the end of the cancelled pump is not awaited.
ClosedAtOnce(b) == TRUE
Closed(b) == PumpOver(b)

GraceEnds(b) ==
  /\ grace[b] = "awaiting" /\ Closed(b)
  /\ grace' = [grace EXCEPT ![b] = "none"]
  /\ torn_down' = [torn_down EXCEPT ![b] = TRUE]
  /\ UNCHANGED <<slot, minted, stopped, subscribers, pump, predecessor, last_chunk, viewerVars, stopVars, frames, timeouts>>

\* shutdown_broadcaster finds the broadcaster live and marks it stopped; it
\* stays in the registry.  /camera/stop asks for it only when nobody watches, the
\* deletion of a printer always: the second case includes the first.
ForceShutdown(s) ==
  LET b == slot IN
  /\ stopper[s] = "idle"
  /\ Usable(b)
  /\ target' = [target EXCEPT ![s] = b]
  /\ stopper' = [stopper EXCEPT ![s] = "awaiting"]
  /\ stopped' = [stopped EXCEPT ![b] = TRUE]
  /\ gone' = Notified(subscribers[b])
  /\ subscribers' = [subscribers EXCEPT ![b] = {}]
  /\ pump' = [pump EXCEPT ![b] = Cancelled(@)]
  /\ predecessor' = [predecessor EXCEPT ![b] = NoOne]
  /\ grace' = [grace EXCEPT ![b] = "none"]
  /\ UNCHANGED <<slot, minted, torn_down, last_chunk, viewer, of, queued, frames, timeouts>>

StopEnds(s) ==
  /\ stopper[s] = "awaiting" /\ Closed(target[s])
  /\ torn_down' = [torn_down EXCEPT ![target[s]] = TRUE]
  /\ stopper' = [stopper EXCEPT ![s] = "done"]
  /\ UNCHANGED <<slot, minted, stopped, subscribers, pump, predecessor, grace, last_chunk, viewerVars, target, frames, timeouts>>

-----------------------------------------------------------------------------
Next ==
  \/ \E v \in Viewers : \/ Find(v) \/ Subscribe(v) \/ SubscribeFails(v)
                        \/ ReadFrame(v) \/ Leave(v) \/ ReadGone(v) \/ AskAgain(v)
  \/ \E b \in Ids : \/ Dial(b) \/ Frame(b) \/ SocketCloses(b) \/ PumpExits(b)
                    \/ GraceExpires(b) \/ GraceEnds(b)
  \/ \E s \in Stoppers : ForceShutdown(s) \/ StopEnds(s)

Spec == Init /\ [][Next]_vars

\* Coroutines get their turn, a cancelled upstream closes, a viewer reads its
\* queue; no viewer need leave, no upstream that serves need end.
Fairness ==
  /\ \A v \in Viewers : WF_vars(ReadFrame(v)) /\ WF_vars(ReadGone(v))
  /\ \A b \in Ids :
       /\ WF_vars(Dial(b)) /\ WF_vars(PumpExits(b))
       /\ WF_vars(pump[b] = "closing" /\ SocketCloses(b))
       /\ WF_vars(GraceExpires(b)) /\ WF_vars(GraceEnds(b))
  /\ \A s \in Stoppers : WF_vars(StopEnds(s))

FairSpec == Spec /\ Fairness

-----------------------------------------------------------------------------
(* Properties.                                                             *)

\* Viewers share one upstream: a broadcaster that is not stopped is the one in
\* the registry, where the next viewer finds it (get_or_create_broadcaster).
LiveInSlot == \A b \in 1..minted : stopped[b] \/ slot = b

\* "Set once teardown is fully complete": a broadcaster that declares itself
\* torn down has no socket open.
TornDownIsClosed == \A b \in Ids : torn_down[b] => ~SocketOpen(b)

\* A broadcaster never opens its upstream while the one it replaced has its
\* socket open, unless the bounded wait ran out (the predecessor gate, #2521).
SuccessorWaits ==
  timeouts = 0 => \A b \in Ids \ {1} : ~(SocketOpen(b) /\ SocketOpen(b - 1))

\* No viewer watches a broadcaster the grace window stopped: a rejoin always
\* calls the shutdown off.
NoViewerCutOff == \A b \in Ids : grace[b] = "awaiting" => subscribers[b] = {}

\* An upstream nobody watches is closed in the end, or someone watches again.
UnwatchedCloses ==
  \A b \in Ids : (SocketOpen(b) /\ subscribers[b] = {}) ~> (~SocketOpen(b) \/ subscribers[b] # {})

\* A viewer whose upstream is gone is told so, and its stream ends.
ViewerReleased ==
  \A v \in Viewers :
    (viewer[v] = "watching" /\ of[v] # NoOne /\ PumpOver(of[v])) ~> (viewer[v] # "watching" \/ ~PumpOver(of[v]))
=============================================================================
