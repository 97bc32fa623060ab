---------------------------- MODULE DispatchToast ----------------------------
(***************************************************************************)
(* The dispatch toast: what the scheduler tells the owner of a queue item  *)
(* about its upload and start, over the tab's web socket, and what the tab *)
(* makes of it (contexts/ToastContext.tsx, hooks/useWebSocket.ts,          *)
(* services/print_scheduler.py, core/websocket.py).                        *)
(*                                                                         *)
(* One tab of the owner.  A row of the toast appears with the upload,      *)
(* turns green or red with its end, and the whole toast is taken away by a *)
(* timer 3.5 s after every row has ended, if until then no toast of the    *)
(* tab, whatever it is about, comes, changes or goes.                      *)
(***************************************************************************)
EXTENDS Naturals, Sequences, FiniteSets

CONSTANTS
    Items,         \* queue items of the tab's user
    MaxDispatches, \* bound: dispatches in all
    MaxFaults,     \* bound: drops of the tab's socket and restarts of the backend
    MaxInTransit   \* bound: messages under way at once

ASSUME ToastAssumption ==
    MaxDispatches \in Nat /\ MaxFaults \in Nat /\ MaxInTransit \in Nat

Stages == {"queued", "uploading", "sent", "over"}
RowStates == {"absent", "processing", "completed", "failed"}
Events == {"uploading", "upload_progress", "acked", "failed"}
Message == [type : Events, item : Items]

VARIABLES
    stage,     \* where the dispatch of an item is
    dispatches, \* dispatches so far
    progress,  \* items whose upload has reported its progress
    up,        \* the tab's socket is open and registered
    channel,   \* messages on their way: the socket, then messageQueueRef
    rows,      \* jobs of the toast's dispatchData; all absent: no toast
    timer,     \* timeoutRefs holds the toast's auto-dismiss timer
    effectDue, \* toasts changed and the auto-dismiss effect has not run yet;
               \* when it runs, the timer starts again
    last,      \* history: the last event sent about an item
    untold,    \* history: items whose latest dispatch ended without an event
    missed,    \* history: items an event of whose latest dispatch was lost
    faults

backend == <<stage, dispatches, progress>>
toast == <<rows, timer, effectDue>>
vars == <<backend, up, channel, toast, last, untold, missed, faults>>

NoToast == [i \in Items |-> "absent"]

Init ==
    /\ stage = [i \in Items |-> "queued"]
    /\ dispatches = 0 /\ progress = {}
    /\ up = TRUE /\ channel = <<>>
    /\ rows = NoToast /\ timer = FALSE /\ effectDue = FALSE
    /\ last = [i \in Items |-> "none"] /\ untold = {} /\ missed = {}
    /\ faults = 0

-----------------------------------------------------------------------------
(* The scheduler.                                                          *)

\* broadcast_to_user: every registered socket of the user, or nobody.
Send(i, e) ==
    /\ last' = [last EXCEPT ![i] = e]
    /\ IF up THEN /\ Len(channel) < MaxInTransit
                  /\ channel' = Append(channel, [type |-> e, item |-> i])
                  /\ missed' = IF e = "uploading" THEN missed \ {i} ELSE missed
             ELSE missed' = missed \cup {i} /\ UNCHANGED channel

Unsent == UNCHANGED <<channel, last, missed>>

\* _start_print up to the FTP upload.
BeginUpload(i) ==
    /\ stage[i] = "queued" /\ dispatches < MaxDispatches
    /\ stage' = [stage EXCEPT ![i] = "uploading"]
    /\ dispatches' = dispatches + 1
    /\ progress' = progress \ {i}
    /\ untold' = untold \ {i}
    /\ Send(i, "uploading")
    /\ UNCHANGED <<up, toast, faults>>

\* _UploadProgressBridge; bound: one report per upload.
UploadProgress(i) ==
    /\ stage[i] = "uploading" /\ i \notin progress
    /\ progress' = progress \cup {i}
    /\ Send(i, "upload_progress")
    /\ UNCHANGED <<stage, dispatches, up, toast, untold, faults>>

\* The dispatch goes on to a new stage, with the event that says so.
Tell(i, from, to, e) ==
    /\ stage[i] = from
    /\ stage' = [stage EXCEPT ![i] = to]
    /\ Send(i, e)
    /\ UNCHANGED <<dispatches, progress, up, toast, untold, faults>>

\* The same without an event: nobody tells the tab.
Silently(i, from, to) ==
    /\ stage[i] = from
    /\ stage' = [stage EXCEPT ![i] = to]
    /\ untold' = untold \cup {i}
    /\ Unsent
    /\ UNCHANGED <<dispatches, progress, up, toast, faults>>

\* (mutant: the requeue says nothing)
UploadRefusedSilently(i) ==
    /\ stage[i] = "uploading"
    /\ stage' = [stage EXCEPT ![i] = "queued"]
    /\ Unsent
    /\ UNCHANGED <<dispatches, progress, up, toast, untold, faults>>

\* _requeue_after_upload_refused.
UploadRefused(i) == Tell(i, "uploading", "queued", "failed")
\* The upload failed, the item was cancelled under it, its nozzle pick no longer
\* fits, or start_print() was refused by an idle printer.
DispatchFailed(i) == Tell(i, "uploading", "over", "failed")
\* The printer turned busy: _defer_until_printer_idle.
StartDeferred(i) == Silently(i, "uploading", "queued")
\* An exception in _start_print: the finally blocks of _dispatch_one only.
DispatchRaised(i) == Silently(i, "uploading", "queued")
\* project_file is published and the watchdog spawned.
StartSent(i) ==
    /\ stage[i] = "uploading"
    /\ stage' = [stage EXCEPT ![i] = "sent"]
    /\ Unsent
    /\ UNCHANGED <<dispatches, progress, up, toast, untold, faults>>

\* _watchdog_print_start: an active state, either phase.
WatchAcked(i) == Tell(i, "sent", "over", "acked")
\* (mutant: giving up says nothing)
WatchGaveUpSilently(i) ==
    /\ stage[i] = "sent"
    /\ stage' = [stage EXCEPT ![i] = "over"]
    /\ Unsent
    /\ UNCHANGED <<dispatches, progress, up, toast, untold, faults>>

\* Command rejected, or the retry budget spent: _notify_dispatch_gave_up.
WatchGaveUp(i) == Tell(i, "sent", "over", "failed")
\* Reverted to pending: the next dispatch will tell.
WatchReverted(i) == Silently(i, "sent", "queued")
\* The row has moved on (stopped before its start), or the printer is offline.
WatchLeft(i) == Silently(i, "sent", "over")

UploadEnds(i) == \/ UploadRefused(i) \/ DispatchFailed(i) \/ StartDeferred(i)
                 \/ DispatchRaised(i) \/ StartSent(i)
WatchEnds(i) == WatchAcked(i) \/ WatchGaveUp(i) \/ WatchReverted(i) \/ WatchLeft(i)

-----------------------------------------------------------------------------
(* The socket: what is under way may be lost with it.                      *)

ItemsIn(s) == {s[k].item : k \in DOMAIN s}

LoseTail ==
    \E k \in 0 .. Len(channel) :
        /\ channel' = SubSeq(channel, 1, k)
        /\ missed' = missed \cup ItemsIn(SubSeq(channel, k + 1, Len(channel)))

SocketDrops ==
    /\ up /\ faults < MaxFaults
    /\ faults' = faults + 1 /\ up' = FALSE
    /\ LoseTail
    /\ UNCHANGED <<backend, toast, last, untold>>

SocketReconnects ==
    /\ ~up
    /\ up' = TRUE
    /\ UNCHANGED <<backend, channel, toast, last, untold, missed, faults>>

\* The backend restarts: uploads and watchdogs are gone without a word.
Crash ==
    /\ faults < MaxFaults
    /\ faults' = faults + 1 /\ up' = FALSE
    /\ stage' = [i \in Items |-> CASE stage[i] = "uploading" -> "queued"
                                   [] stage[i] = "sent" -> "over"
                                   [] OTHER -> stage[i]]
    /\ untold' = untold \cup {i \in Items : stage[i] \in {"uploading", "sent"}}
    /\ LoseTail
    /\ UNCHANGED <<dispatches, progress, toast, last>>

-----------------------------------------------------------------------------
(* The tab.                                                                *)

Shown == \E i \in Items : rows[i] # "absent"
Processing == {i \in Items : rows[i] = "processing"}

\* (mutant: the status is taken from the event's type)
RowAfterVerbatim(m) ==
    IF m.type = "uploading" THEN "processing"
    ELSE IF rows[m.item] = "absent" \/ m.type = "upload_progress" THEN rows[m.item]
    ELSE m.type

\* What the event makes of the item's row: only an upload brings one up, and
\* progress leaves its status alone.
RowAfter(m) ==
    IF m.type = "uploading" THEN "processing"
    ELSE IF rows[m.item] = "absent" \/ m.type = "upload_progress" THEN rows[m.item]
    ELSE IF m.type = "acked" THEN "completed" ELSE "failed"

\* (mutant: the latest message first)
OnLatestEvent ==
    /\ channel # <<>>
    /\ LET m == channel[Len(channel)] IN
        /\ rows' = [rows EXCEPT ![m.item] = RowAfter(m)]
        /\ effectDue' = (effectDue \/ RowAfter(m) # "absent")
    /\ channel' = SubSeq(channel, 1, Len(channel) - 1)
    /\ UNCHANGED <<backend, up, timer, last, untold, missed, faults>>

\* processNext hands one message to onDispatchEvent.
OnDispatchEvent ==
    /\ channel # <<>>
    /\ LET m == Head(channel) IN
        /\ rows' = [rows EXCEPT ![m.item] = RowAfter(m)]
        /\ effectDue' = (effectDue \/ RowAfter(m) # "absent")
    /\ channel' = Tail(channel)
    /\ UNCHANGED <<backend, up, timer, last, untold, missed, faults>>

\* (mutant: only a toast without failures is dismissed)
AutoDismissOfSuccess ==
    /\ effectDue
    /\ effectDue' = FALSE
    /\ timer' = (timer \/ (Shown /\ \A i \in Items : rows[i] \in {"absent", "completed"}))
    /\ UNCHANGED <<backend, up, channel, rows, last, untold, missed, faults>>

\* The effect on [toasts]: it starts the timer, or starts it again, when every row
\* has ended, and returns before the timer otherwise.
AutoDismissEffect ==
    /\ effectDue
    /\ effectDue' = FALSE
    /\ timer' = (timer \/ (Shown /\ Processing = {}))
    /\ UNCHANGED <<backend, up, channel, rows, last, untold, missed, faults>>

\* Another toast of the tab comes, goes or is drawn again (that of a tracked slice
\* is, every second): the array is new, and the effect runs.
OtherToastChanges ==
    /\ effectDue' = TRUE
    /\ UNCHANGED <<backend, up, channel, rows, timer, last, untold, missed, faults>>

\* 3.5 seconds after it was last started.
TimerFires ==
    /\ timer
    /\ timer' = FALSE
    /\ rows' = NoToast
    /\ effectDue' = TRUE
    /\ UNCHANGED <<backend, up, channel, last, untold, missed, faults>>

\* The user closes the toast: dismissToast clears its timer too.
DismissToast ==
    /\ Shown
    /\ timer' = FALSE
    /\ rows' = NoToast
    /\ effectDue' = TRUE
    /\ UNCHANGED <<backend, up, channel, last, untold, missed, faults>>

Next ==
    \/ \E i \in Items : \/ BeginUpload(i) \/ UploadProgress(i)
                        \/ UploadEnds(i) \/ WatchEnds(i)
    \/ SocketDrops \/ SocketReconnects \/ Crash
    \/ OnDispatchEvent \/ AutoDismissEffect \/ OtherToastChanges
    \/ TimerFires \/ DismissToast

Spec == Init /\ [][Next]_vars

\* Uploads have deadlines and the watchdog has two; the tab's effects run, and its
\* timer fires if it is not started again for ever.  Nothing is assumed of new
\* dispatches, of the network, of other toasts or of the user.
Fairness ==
    /\ \A i \in Items : WF_vars(UploadEnds(i)) /\ WF_vars(WatchEnds(i))
    /\ WF_vars(OnDispatchEvent) /\ WF_vars(AutoDismissEffect)
    /\ WF_vars(TimerFires /\ ~effectDue)

FairSpec == Spec /\ Fairness

-----------------------------------------------------------------------------
(* Properties.                                                             *)

\* The variables hold what the code keeps in them.
TypeOK ==
    /\ stage \in [Items -> Stages]
    /\ dispatches \in 0 .. MaxDispatches /\ progress \subseteq Items
    /\ up \in BOOLEAN /\ channel \in Seq(Message)
    /\ rows \in [Items -> RowStates]
    /\ timer \in BOOLEAN /\ effectDue \in BOOLEAN
    /\ last \in [Items -> Events \cup {"none"}]
    /\ untold \subseteq Items /\ missed \subseteq Items
    /\ faults \in 0 .. MaxFaults

InTransit(i) == i \in ItemsIn(channel)

\* What the last event of an item says of its row.
Means(e) == CASE e = "acked" -> "completed" [] e = "failed" -> "failed"
              [] OTHER -> "processing"

\* Once every event about an item has been handled, its row shows what the
\* scheduler last said of it, unless an event was lost with the socket: late
\* progress, retries and other items' events leave no other trace.
RowShowsLastWord ==
    \A i \in Items :
        rows[i] # "absent" /\ ~InTransit(i) /\ i \notin missed => rows[i] = Means(last[i])

\* A row only spins for a dispatch that is going on, or one whose end was not
\* told or was lost: no other order of events leaves it behind.
SpinsForAReason ==
    \A i \in Items :
        rows[i] = "processing" /\ ~InTransit(i)
            => stage[i] \in {"uploading", "sent"} \/ i \in untold \cup missed

\* The wrapper is dismissed on its own only "once every job has reached a
\* terminal state" (ToastContext.tsx:307).
DismissedWhenAllEnded == [][TimerFires => Processing = {}]_vars

\* A row that spins ends in the end, unless nobody tells its end.
SpinningEnds ==
    \A i \in Items :
        rows[i] = "processing" ~> rows[i] # "processing" \/ i \in untold \cup missed

\* A toast all of whose rows have ended goes away, or another upload begins, once
\* the other toasts of the tab leave the array alone: the timer's restarts, whatever
\* order they come in with events and drops, lose it no dismissal.  While a slice is
\* tracked, which may be for ever, the code gives no such promise.
EndedToastGoes ==
    <>[][~OtherToastChanges]_vars =>
        ((Shown /\ Processing = {}) ~> (~Shown \/ Processing # {}))

=============================================================================
