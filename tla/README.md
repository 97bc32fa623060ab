# Bambuddy in TLA+

Bambuddy manages Bambu Lab printers: a FastAPI backend (`src/backend/app/`) holds
an MQTT session per printer, a print queue in SQL, archives, budgets, spool
tracking, camera streams and virtual printers; a React frontend and a scale/NFC
daemon are its clients. This directory specifies the parts of it that are
concurrent and hard to test, checks them with TLC on small instances, and proves
the results that matter most with TLAPS for every instance.

What is modelled is the print queue, from the selection of a row to the end of its
print; the camera fan-out; and three protocols between the backend and a browser tab:
background slicing, the toast of a dispatch, and the tab's session. The inventory
below says what else there is.

## 1. Inventory

The backend is one process with one asyncio event loop. Coroutines switch only at
an `await`, but nearly every database, MQTT or FTP operation is one. State lives in
the database (it survives a restart), in dictionaries of the services (it does not)
and in the printers, which are known only through what they last reported.

| Component | Code | State | Operations |
|---|---|---|---|
| Queue dispatch | `services/print_scheduler.py` | `print_queue` rows; `_inflight`, `_dispatch_holds`, `_upload_backoff`, `_sent_unstarted`, `_terminal_since` | `check_queue`, `_dispatch_one`, `_start_print`, `_watchdog_print_start`, sweeps |
| Queue routes | `api/routes/print_queue.py` | the same rows | create, edit, bulk edit, cancel, stop, delete, resume |
| Print callbacks | `main.py` | `_expected_prints`, archives, plate gate | `on_print_start`, `on_print_complete`, reconciliation |
| Printer connections | `services/bambu_mqtt.py`, `printer_manager.py` | session, `gcode_state`, AMS, HMS | reports, `start_print`, reconnects |
| Camera fan-out | `services/camera_fanout.py` | `_broadcasters`, subscriber queues, pump tasks | subscribe, pump, grace window, shutdown |
| Camera routes | `api/routes/camera.py` | ffmpeg processes | stream, stop, snapshot |
| Budget and billing | `services/finance_budget.py`, `finance_billing.py` | reservations, ledger | reserve, release, settle |
| Batches and orders | `services/print_batch.py` | orders and their rows | targets, requeue, completion |
| Smart plugs | `services/smart_plug_manager.py` | timers | switch off when idle or cool |
| Virtual printers | `services/virtual_printer/` | sessions of slicers | FTP, MQTT and TCP bridges |
| Spools, filament | `services/usage_tracker.py`, `spoolman*.py` | usage sessions | book usage at the end of a print |
| Archives, library | `services/archive*.py`, `library_trash.py` | files and rows | store, merge, purge |
| Slicing | `services/slice_dispatch.py`, `api/routes/slice_jobs.py`, `slicer_api.py` | job table, ids, retention | enqueue, run, poll |
| Slice tracker | `contexts/SliceJobTrackerContext.tsx` | tracked jobs (React state and a ref), poll and tick timers, toasts | `trackJob`, poll, `completeJob` |
| Dispatch toast | `contexts/ToastContext.tsx`, `core/websocket.py` | rows of the toast, dismissal timer | `onDispatchEvent`, auto-dismiss |
| Tab session | `contexts/AuthContext.tsx`, `api/client.ts`, `hooks/useWebSocket.ts` | token, user, re-check timer, socket | check, re-check, login, logout, connect |
| Auth, settings, notifications, backup, updates | `services/`, `core/`, `api/routes/` | rows | requests, output |
| Rest of the frontend, SpoolBuddy, installers | `src/frontend`, `src/spoolbuddy`, `src/install`, `src/deploy` | - | pages, devices, packaging |

How the queue's parts meet: `check_queue` picks rows and launches one coroutine
per row (`_dispatch_one`); the routes write the same rows from HTTP requests while
that coroutine uploads for minutes; `start_print` publishes an MQTT command and the
printer reports, seconds later, that it started; `on_print_start` and
`on_print_complete` are callbacks of that report; a watchdog coroutine per sent
print waits for the first, and the sweep `_close_stranded_printing_items` covers for
a second that never comes. Nothing but compare-and-set updates, the `dispatching_at`
column and a few dictionaries keeps them apart.

How a tab and the backend meet: the tab sends requests with a stored token and holds
one WebSocket, for which it mints a token of its own. The scheduler and its watchdogs
send events of a dispatch over that socket, best effort; the tab draws them into one
toast. A slice is a POST that answers a job id, which the tab then polls. JavaScript
has one thread, too: what interleaves are timers, answers, renders and effects, and
the refs that carry state from one to the next.

What makes these parts correct:

* Queue dispatch and routes: a printer gets one job at a time; what a person
  cancelled or moved is not printed anyhow or elsewhere; a print that does not
  start is retried a bounded number of times; no row, claim, expected print or
  budget reservation is stranded by an abort, a lost report or a restart.
* Camera: one upstream per printer however many viewers; no upstream without
  viewers for long; no viewer that waits for a stream that is gone.
* Slicing: the end of a slice is announced once, of the right file, and it is
  announced; a progress toast does not outlive its job.
* Dispatch toast: a row shows what the scheduler last said of its item, and does not
  spin for a dispatch that is over.
* Tab session: an outage signs nobody out; a session that ended is noticed in every
  state the tab may be in; live updates come back.
* Budget: what is reserved is settled or released exactly once.
* Batches: an order closes when, and only when, its copies are printed.
* Smart plugs: no timer of the last print cuts the power of the next.
* Spools: a print is booked once.

The hazards behind these, each at its line, are listed in `PROJECT.json`. Some more
belong to parts that no module models: the preheat pin that a lost claim has to
unwind (`print_scheduler.py:2829`), two jobs of one library file consumed by its
dispatch (2019), starvation by shortest-job-first (1661).

## 2. Modules

    PrintQueueAbstract   leases: what the queue promises
      ^ implemented by
    QueueDispatch        rows, coroutines, watchdogs, sweeps, routes, callbacks, printers
    CameraFanout         one printer's broadcasters, viewers and stop requests
    SliceJobs            the slice dispatcher and a tab that tracks its jobs
    DispatchToast        scheduler, socket and a tab that draws their events
    TabSession           server, token, re-checks and the socket of one tab

    MC<Module>                                                 instances for TLC
    <Module>Proofs                                             theorems
    QueuePromisesProofs, QueueRefinementProofs                 more of them, on QueueDispatch;
                                                               both extend QueueDispatchProofs

Definitions keep the names of the code (`snake_case` became `CamelCase` for
actions); `PROJECT.json` maps each of them to its lines. Definitions commented
"Mutant of ..." or "(mutant: ...)" are not part of a specification: each is a plausible bug that the
property named with it in `PROJECT.json` must catch.

### QueueDispatch

State. The columns of `print_queue` that decide anything (`status`, `printer_id`,
`dispatching_at`, `dispatch_attempts`; `pinned` for rows created for one printer),
one budget reservation per row (`reserved`), the plate gate; the scheduler's
dictionaries; `main._expected_prints`; and per printer the session, the last
`gcode_state`, the job file received and not started (`loaded`) and the job it runs.
The program counter `pc` of a row's dispatch has one value per stretch between
awaits at which somebody else can see a difference:

    idle -> spawned -> claimed -> reserved -> uploading -> registered -> committed -> unwinding -> idle

| Action | Code |
|---|---|
| `Launch`, `AssignOnly` | `check_queue` selects a row for a printer; the upload pool has room or not |
| `ClaimForDispatch` | the claim in the database: still pending, same printer, unclaimed |
| `ReserveBudget`, `BudgetRefused`, `RecheckRow`, `PrinterNotConnected` | the first half of `_start_print` |
| `UploadDone`, `UploadRefused`, `UploadFailed` | the FTP upload and `register_expected_print`; `_requeue_after_upload_refused` |
| `MarkPrinting`, `Publish`, `DeferUntilIdle`, `SendFailed` | the compare-and-set to printing, `start_print` and its refusals |
| `DispatchRaises`, `Unwind` | an exception at any await; the `finally` block that rolls back what was not confirmed |
| `PrinterSeenActive`, `WatchdogGivesUp`, `WatchdogReads`/`RevertWrites`, `WatchdogWriteFails` | `_watchdog_print_start`, `_do_revert`; the pair when another's commit comes between its read and its write |
| `CloseStranded`, `ClearStaleClaims`, `ExpireHolds` | what a pass of the loop does before it selects |
| `CancelQueueItem`, `DeleteQueueItem`, `StopQueueItem`, `BulkUpdate`, `UpdateBegins`/`UpdateWrites` | the routes; `PATCH /{id}` awaits its validations between its checks and its write, hence two actions |
| `CancelReads`, `StopReads`, `RouteWrites` | a cancel or a stop with another's commit between its read and its write |
| `PrinterStarts`, `PrinterEnds`, `OnPrintComplete`, `CompletionReads`/`CompletionWrites` | the printer and the callbacks; the queue block of `on_print_complete` runs long after the report, and it too awaits between its read and its write |
| `PrinterDrops`, `HandStart`, `Disconnect`, `Reconnect`, `ClearPlate` | what printers and people do |
| `Restart` | the process dies: dictionaries and coroutines go, the database stays, `_release_stuck_budget_reservations` runs |

Abstractions, and why they are allowed:

* A pass of `check_queue` is atomic per launched row: its conditions are evaluated
  and `_inflight` is set without an await that could invalidate them in between.
  Which selectable row comes first is left open, so shortest-job-first, positions
  and priorities are all included; starvation by them is not examined.
* Clocks are gone. A hold, a backoff or a watchdog may expire at any time at which
  nothing in the code forbids it. Two orderings of deadlines are kept because the
  code relies on them: the watchdog's 270 s are over before the sweep's 300 s
  (`GraceOver`), and a print does not start and end within the time in which
  `start_print` returns (`Sending`).
* Cancel, stop, `_do_revert` and `on_print_complete` select a row, await, and write it by
  its id alone. Nothing in the database keeps a commit out of that gap: a SELECT of
  SQLite's driver takes no write lock, and PostgreSQL's READ COMMITTED lets both writes
  through. Each of the four is modelled twice: as one step, when nothing comes between,
  and as a read that notes itself in `readers` (or in `completing[p].row`) and a write
  that no longer looks. The second form counts as a fault, so that a bound says how many
  handlers are overtaken at once. `_fail_dispatch` and `_defer_until_printer_idle` read
  and write in one guarded UPDATE and are one step; so is the sweep, which awaits nothing
  between its SELECT and its commit (only the commit itself may be overtaken). The bulk edit and `PATCH /{id}` are described above.
* The sweep's clock is kept per row, where the code has one per printer (`setdefault`,
  1539). The model relies on a sweep seeing the printer without a finished state between
  two rows that follow each other; the loop looks about every 30 s.
* A deleted row is modelled as a cancelled one, `skipped` rows not at all. The
  TTL of expected prints, rows dispatched when the printer had no status yet (they
  have no watchdog) and completions without a file name are left out.
* What a printer does while it is out of contact is decided when it reconnects.
* A file is a model value; `Belongs` compares files as the code compares names.

Faults (`FaultKinds`) are actions counted against a bound: a restart, a failed
database write, a refused upload, a lost completion, a hand-started print, a
disconnection, an exception, a route overtaken between its read and its write
(`crossed_route`), a watchdog or a completion so overtaken (`crossed_callback`).

### PrintQueueAbstract

Each row is waiting, printing or over, may lease a printer, and has been sent some
number of times. `Take` leases a free printer; `Begin`, `Send`, `GiveBack`, `End` and
`Release` are the only other steps. What is over stays over unless `Reopens`, which the
mapping sets where a watchdog that has tries left may be overtaken: that is the one step
of the code that takes an end back. The refinement mapping is `Abstract` at the end of
`QueueDispatch`: a row leases the printer its coroutine works for, or else the one
it is printing on. `PrintQueueAbstractProofs` shows that this is worth implementing:
leases are exclusive. `QueueRefinementProofs` shows that every step of `QueueDispatch` is a
step of it or leaves it alone.

### CameraFanout

The registry slot of one printer and the broadcasters that ever were in it, in the
order they were created. Locks in this code are never held across an await, so a
lock does not make anybody wait, and a step runs up to the next wait for a frame, a
socket, a clock or a task. Between the lookup of a broadcaster and `subscribe` a
switch is allowed although today's code has none, because the stream route is
written to retry after one. `_await_pump_cancellation` is split: the cancellation
is one step, `GraceEnds` and `StopEnds` are what follows the awaited end.

### SliceJobs

The dispatcher is `_jobs`, `_next_id` and the retention sweep of `enqueue`; a job goes
from pending to running to an end, and its result stays until it has aged. The tab
is one instance of `SliceJobTrackerProvider`. Its three steps after a change of
`activeJobs` are separate actions, because timers and answers come between them: the
state itself, the render that copies it to `activeJobsRef` (`Render`), and the poll
effect, which is torn down and set up again when the number of jobs changed
(`PollEffect`: the round in flight is cancelled, a new timer starts with `polling`
false). A round asks for one job after the other (`PollTick`, `ServerAnswers`,
`PollResumes`); the order within a round is left open.

Jobs are started by this tab or by somebody else, each for another file (`Works`).
`armed`, `told` and `spoken` are history: how often a job was tracked and announced,
and of which job the latest announcement was. Live progress, wording and the
invalidation of queries are left out. The restart forgets every job and starts the
ids again.

### DispatchToast

A queue item is queued, uploading, sent or over. The actions of the scheduler are the
points of `_start_print` and `_watchdog_print_start` at which a stretch ends, each with
the event it sends (`Tell`) or with none (`Silently`). The channel is what the socket
and the tab's message queue hold, in order: the queue hands over one message at a
time and keeps the order. When the socket drops, a tail of the channel is lost; while
it is down, events go to nobody. The tab has a status per row, the pending dismissal
timer, and whether the effect on `toasts` is due; its rows come and go with
`onDispatchEvent`, the timer and the user. The effect depends on the whole array, so any
other toast that comes, goes or is drawn again (`OtherToastChanges`) starts the timer
again. `last`, `untold` and `missed` are history:
the last event sent, the items whose dispatch ended without an event, and those of
which an event was lost.

### TabSession

The server is up or down and knows which sessions have ended, and which of them
"loudly": with a message `request()` takes for an invalid token (expiry,
deactivation), against one it does not know (a password change, a revocation). The
tab's state is the module-level token, the context's `user`, `authEnabled`, `loading`
and `authUnconfirmed`, the check in flight, the re-checks in flight with their timers
(`recheckTimerRef` knows one of them), one request of the pages, and the socket. Each
request is split at its answer: it is asked with the token of that moment, answered
by the server of a later one, and handled by the tab of a later one still. A token mint under way
when the provider of the socket unmounts goes on (`late`): what it would open is dropped,
but a refusal is handled like any other, because `connect()` looks at it before it looks at
`disposedRef`. One such mint at a time is modelled.

Authentication is on. A page load is an initial state, with any token of any session
and the server up or down; a reload is another one. `logout()` clears the token before
`api.logout()` builds its header, so the server is not told; the model follows the
code. Keys of kiosks (403), the first setup and permissions are left out. A handshake
that is refused looks to the tab like a server that is down and is only retried; a
socket that was open and is closed with 4401 asks for a re-check, also when no
session ended (a scope refresh that failed).

## 3. Runs

Passing runs. The first five are of `MCQueueDispatch`.

| Run | Instance | Faults (once each unless noted) | Shows |
|---|---|---|---|
| `two_printers` | 2 rows of one file, 2 printers, `PATCH /bulk` | - | `OneRowPerPrinter`, `OneDispatchPerPrinter`; `DispatchInv`, the inductive invariant of the proofs; `ImplementsAbstract` |
| `moves` | 1 row, 2 printers, both edit routes | refused upload, hand start, disconnection, lost completion | `NotReassignedInFlight`; `CompletedWasSent`; `TypeOK` |
| `crashes` | 2 rows of one file, 1 printer | restart, exception | `ImplementsAbstract`; `ExpectationJustified`, `ReservationJustified`, `ClaimJustified`: nothing is left behind |
| `own_files` | 2 rows, own files, 1 printer, 2 tries | overtaken cancel or stop | `CompletionClosesOwnRow`, `LateStartExpected` |
| `recovery` | 1 row, 2 tries, fair | lost completion, failed write, restart, overtaken watchdog or completion | `EveryRowEnds`, `ClaimReleased`, `RetryBudget`, `EndStandsUnlessCrossed` |
| `camera` | 2 viewers, 1 stopper, 3 broadcasters, fair | 1 wait that runs out | `LiveInSlot`, `SuccessorWaits`, `TornDownIsClosed`, `NoViewerCutOff`, `UnwatchedCloses`, `ViewerReleased` |
| `slice_jobs` | 2 files, 2 ids, fair | restart, lost answer | `AnnouncedOnce`, `LeftWasTold`, `ToastsHaveJobs`, `ToldTheTruth`, `TrackedEnds`, `TypeOK` |
| `dispatch_toast` | 2 items, 3 dispatches, 2 events in transit, fair | socket drop or crash | `RowShowsLastWord`, `SpinsForAReason`, `SpinningEnds`, `EndedToastGoes`, `TypeOK` |
| `tab_session` | 1 session, 2 re-checks at once, 2 tries, fair | 2 outages | `NotSignedOut`, `TokenKept`, `WaitEnds`, `EndedIsSeen`, `SocketReturns`, `TypeOK` |

Runs that end in a violation, each a disagreement between the code and what it says
of itself (quoted under "findings" in `PROJECT.json`):

* `single_edit`: `update_queue_item` checks status and claim, awaits its
  validations, and re-reads the claim only. If a dispatch was claimed, sent and
  released meanwhile, it moves a printing row to a printer where another prints.
  `bulk_update_queue_items` re-reads both, and `two_printers` shows that to suffice.
* `toast_dismiss`: the effect that dismisses the toast returns without clearing its
  pending timer when another upload has begun. An upload that starts within 3.5 s of
  the last end loses its toast, and its later events find no row.
* `session_late_answer`: the answer of `/auth/me` is applied without looking whether
  the token it was asked with is still there. If another request's 401 cleared the
  token and the user first, the tab shows the user again, without a token; its pages
  are answered "Authentication required", which signs nobody out. (It needs a session
  that expires while a re-check is under way, and both answers handled before React
  unmounts `WebSocketProvider`, that is within one commit: once it has unmounted, the late
  answer mounts it again, its mint is refused, and the re-check that follows signs the tab
  out. `EndedIsSeen`, which does hold, is about tabs that still have their token.)

**Known deviations** the models show, or that were met while writing them, and no run
is kept for:

* Overwritten ends. `_do_revert` writes what it made of a row it read as printing. If the
  row was stopped or completed in between, it is failed, or pending again and sent once
  more, although the comment at `print_scheduler.py:10273` says that a row that has
  "already moved on" is left alone (the code checks that at the read only). A cancel or a
  stop overwrites a completion, a late completion overwrites a stop, and a cancel overtaken by
  the commit of printing leaves a cancelled row whose print goes out.
  `EndStandsUnlessCrossed` says that these four writes are all that does so, and that only
  the first opens a row again; `RetryBudget`, `CompletionClosesOwnRow` and `EveryRowEnds`
  hold in spite of them.
* Queue. A stop between the commit of `printing` and `start_print` does not keep the
  command back. Two copies of one file share their expected print and the name their
  completions are compared by, so `LateStartExpected` and `CompletionClosesOwnRow` hold
  only of rows with files of their own (`own_files`). An earlier print of a row that starts
  late while the row is dispatched again consumes the expectation both share; if the printer
  then drops off and boots before the send, the second print goes out unexpected
  (`LateStartExpected` is proved up to the first disconnection). After a restart between that
  commit and the send, the sweep gives the row the outcome of whatever print left the
  printer's state, so `CompletedWasSent` is run without restarts. A print started and
  ended by hand during an upload raises the plate gate, and the dispatch clears it
  unread.
* Watchdog. `_do_revert` fails the row of a printer that rejects commands without
  `release_budget_reservation`, which its branch for spent retries calls
  (`print_scheduler.py:10313`, 10353); the reservation stays until the next restart. And
  "Printer disconnected — don't mess with the DB" (10177) is reached for deleted printers
  only: `get_status` answers for a disconnected one, whose row is reverted or failed.
* Camera. A broadcaster stopped before it dialled declares its teardown complete
  although its predecessor's socket may be open, so its own successor may dial a second
  one (`camera_fanout.py:72-74` says there never are two); `SuccessorWaits` is the weaker
  promise that holds, between direct neighbours. The sentinel of the end is dropped when
  a viewer's queue is full (255), and the viewer drains it and waits on; in `camera` the
  queues have room.
* Slicing. `SliceJobTrackerContext.tsx:159-160` says that ids come from a database
  sequence; they come from a counter of the process (`slice_dispatch.py:65`). After a
  restart a tab that tracks an old id follows, and announces under the old name, the new
  job of that id, which is why `ToldTheTruth` excepts restarts. A job the server has
  forgotten is answered 404 and polled for ever: `TrackedEnds` excepts it. A second
  failure replaces an unread first one in the modal.
* Dispatch toast. A dispatch that is deferred, reverted by its watchdog or broken off by
  an exception sends no event, so its row spins until the next attempt, although the
  comment at `print_scheduler.py:2966` knows that the toast then "keeps spinning on an
  upload that has ended". An end whose event is lost with the socket is not repaired. A
  toast all of whose rows have ended stays as long as other toasts change within every
  3.5 s (`ToastContext.tsx:308-321`): a tracked slice draws its own every second
  (`SliceJobTrackerContext.tsx:281`), and a job the backend has forgotten is tracked for
  ever. `EndedToastGoes` is stated of tabs whose other toasts come to rest.
* Session. A 401 for an old token that arrives after a new sign-in clears the new token
  (`client.ts:201` means to clear one only "if it's actually invalid"). The logout route
  says it revokes the current token (`auth.py:815`), but the tab calls it without one.

**Bounds.** Two rows and two printers are what an exclusion between rows needs; the
hazards listed are all races of one row with itself (its dispatch, its watchdog, an
edit) or of two rows on a printer. Each kind of fault may strike once, at any point:
the recovery from one fault is what the code is written for, and one handler that is
overtaken is enough for a lost update. In `own_files` the rows are pinned to the one
printer (`AllPinned`), since a row nobody pinned differs from a pinned one only until its
first launch, and each has its own name for a file, so that the two may be exchanged;
overtaken watchdogs are left to `recovery`, because with one `LateStartExpected` would
have to be excused. `MaxAttempts` is 2
where retries matter and 1 elsewhere (the code has 3), the upload pool has room
for two where dispatches are to overlap, and in `two_printers` its limit changes
between passes. In the camera run three broadcasters are the shortest
chain with a predecessor that has one itself, `QueueSize` exceeds `MaxFrames` so that
the sentinel fits, and one wait may run out. Symmetry (rows of one file, printers)
is used in runs of safety properties only.

In `slice_jobs` two ids are what an exchange of answers needs, and a restart gives the
first one away again. In `dispatch_toast` a third dispatch lets one item be dispatched
again while the other's toast ends; two events in transit suffice for every order of
two. In `tab_session` two re-checks at once are what loses a timer (a third only adds a
request), two tries stand for the code's three, and the second outage may hit the
recovery from the first; one session suffices because a new sign-in starts from the
login page with nothing stored, and its deviation is listed above.

**Deadlock** checking is off in all runs: when every row is over and nobody uses a
route, or when a bound of the instance is used up, the system rests. That it does
not rest too early is what `EveryRowEnds` says; the tab's models rest when nobody
slices, prints or asks, and their liveness properties say the same for them.

**Fairness.** Weak fairness of the coroutines and of the sweeps is what the event
loop gives: a coroutine whose await is over gets its turn, and `run` ticks for ever.
Of the environment it is assumed that a printer which received a job starts it or
loses it, ends what it prints, reports it unless that report is lost (a counted
fault), and comes back on line; and that a person clears a full plate. Nobody has to
cancel, stop or edit. For the camera: a cancelled upstream closes and a viewer reads
its queue; no viewer has to leave and no serving upstream has to end. For the tab: React
renders and runs its effects, timers fire unless they are started again for ever, requests
are answered or fail, and the server comes back after each outage. A session that ends
without a message the tab knows closes its socket with 4401: every route that invalidates
a user's tokens calls `close_user` (`users.py:434`, 726, 796, `auth.py:1326`,
`mfa.py:1328`), and the one that does not, a logout with the token (`auth.py:836`), is
never sent by a tab. A route that has read a row writes it. A slice ends (the slicer's calls have timeouts),
an upload and a watchdog end (they have deadlines). Nobody has to dispatch again, close
a toast or sign in, and the network has to lose or keep nothing.

## 4. Proofs

The assumptions are those of the modules (`ItemsAssumption`, `FilesAssumption`,
`LimitsAssumption`, `FanoutAssumption`, `SliceAssumption`, `ToastAssumption`,
`SessionAssumption`): the model values for "none" are no ids, every row has a file,
limits are natural numbers or positive. They say nothing of sizes or of how many faults
there are.

| Theorem | Statement | Argument |
|---|---|---|
| `TypeCorrect` | `Spec => []TypeOK` | with `LaunchedFor`: a coroutine that runs has a printer |
| `ClaimedRowStays` | `Spec => []NotReassignedInFlight` | `ClaimHolds`: what is in transit is claimed, and no edit writes a claimed row; holds with both edit routes |
| `DispatchInvHolds`, `PrinterPrintsOneRow`, `PrinterHasOneDispatch` | `"single" \notin EditRoutes` implies `Spec => []DispatchInv` and its two parts | below |
| `RetriesAreBounded` | `Spec => []RetryBudget` | `RetryInv`: every send of a row that may be sent again has been counted in `dispatch_attempts` |
| `EndsStand` | `Spec => EndStandsUnlessCrossed`, under every fault and edit | each action that writes a status is guarded by it, or is the write of a reader |
| `CoroutinesNeverShare` | `Spec => []CoroutinesApart`, with every edit route | `Busy` at the launch, and no edit redirects a coroutine |
| `NoBudgetLeftBehind`, `NoClaimLeftBehind`, `NoExpectationLeftBehind` | `Spec => []ReservationJustified`, `[]ClaimJustified`, `[]ExpectationJustified` | `ReservationInv`, `ClaimInv`, `ExpectationInv`, below |
| `CompletedRowsWereSent` | `OwnFiles` and `NoRowMovedAcross` imply `Spec => [](Spared({"restart", "raise"}) => CompletedWasSent)` | `CompletedInv`, below |
| `CompletionsFindTheirRow` | `OwnFiles` implies `Spec => CompletionClosesOwnRow` | names are all the callback compares; `RowMatched` keeps the comparison for a row it has read |
| `LateStartsAreExpected` | `OwnFiles` implies `Spec => [](Spared({"restart", "raise", "offline", "crossed_callback"}) => LateStartExpected)` | `LateInv`, below |
| `QueueImplementsAbstract` | `"single" \notin EditRoutes` implies `Spec => ImplementsAbstract` | `RefinementInv`, below |
| `LeasesAreExclusive` | abstract `Spec => []Exclusive` | only `Take` creates a lease |
| `OneLiveBroadcaster` | `Spec => []LiveInSlot` | a broadcaster is created only when the slot's one is stopped |
| `FanoutTypeCorrect` | `Spec => []TypeOK` of the fan-out | a full queue takes nothing: the bound on the queues is part of the type |
| `SliceTypes`, `SliceOnce`, `SliceLeaves`, `SliceToasts`, `SliceTruth` | `Spec => []TypeOK` of the slices, `[]AnnouncedOnce`, `[]LeftWasTold`, `[]ToastsHaveJobs`, `[]ToldTheTruth` | below |
| `ToastTypes`, `ToastLastWord`, `ToastSpins` | `Spec => []TypeOK` of the toast, `[]RowShowsLastWord`, `[]SpinsForAReason` | `ToastInv`, below |
| `SessionTypes`, `SessionNotSignedOut`, `SessionTokenKept` | `Spec => []TypeOK` of the session, `[]NotSignedOut`, `TokenKept` | `SessionInv`, below |
| `TornDownClosed`, `SuccessorsWait`, `RejoinIsSafe` | `Spec => []TornDownIsClosed`, `[]SuccessorWaits`, `[]NoViewerCutOff` | `FanoutInv`, below |

`OneRowPerPrinter` alone is not inductive: a row begins to print at `MarkPrinting`,
which looks at no other row. It has to be known that the coroutine that takes that
step is the only one working for its printer and that no other row prints there
(`OneDispatchPerPrinter`), that its row is still assigned to that printer (`ClaimHolds`,
which is why `dispatching_at` exists), and that coroutines and `_inflight` agree
(`LaunchedFor`). `DispatchInv` is their conjunction. Its premise, that `PATCH /{id}` is
not in use, cannot be dropped: `single_edit` is the counterexample.

`RetryBudget` is not inductive either, because `sends` is incremented by `Publish`
and `dispatch_attempts` only later, by the watchdog. `RetryInv` says where the
difference may be: a printing row may have one send that is not counted, a pending
or committed one none; and a watched row is not in its dispatch any more. As
`dispatch_attempts` is a column, restarts do not disturb it. A revert that has read its row
counts like a printing one whatever became of the row since: it will count the send it
watched, so even a row it opens again has a try left.

What a dispatch leaves behind (`QueuePromisesProofs`). None of the three promises is
inductive, because each speaks of a dispatch that is over. Their invariants say who still
knows about the thing while it is not: a reservation of a row that was not sent is marked
in `unconfirmed` (the mark is set before the reservation, and the stages before it have
none); a claim belongs to a coroutine past `ClaimForDispatch`; an expected print is marked
too, or its file was sent there, and the mark occurs only from `registered` on. A dispatch
can then end only through `Unwind`, which looks at the marks. The first two hold until the
process dies or the database refuses a write (`Spared`); the third holds under every fault.

What a completion means. `CompletedInv`: a row that is printing and was not sent has a
coroutine between the commit and the send, and what a printer has loaded, runs or has
finished was sent to it (`JobsWereSent`). A completion then meets a row that was sent,
because the name of its job is that of the row's file (`OwnFiles`), and so does the sweep,
because its grace period excludes a printer whose row still has a coroutine. That argument
looks at one row per printer; `NoRowMovedAcross` (no `PATCH /{id}`, or one row, as in
`moves`) provides it. A row moved onto the printer by an edit could start the sweep's clock
while the other row is between its commit and its send. A crash or an exception at that
same place leaves a printing row that was not sent, which is why the theorem ends there.

Late starts. `LateInv`: while no process died, no exception was raised, no printer
disconnected and no callback was overtaken (a row opened again has lost its expectation
with its end), a printer that is active has nothing loaded, and a dispatch from its
registration to its send finds its print expected or the printer active (an earlier print of
the row has started late and consumed the expectation, and `Publish` will refuse); a
dispatch that is unwinding with the mark has no earlier print of its row waiting, so that
its rollback withdraws nobody else's expectation.

The refinement. A row's lease is its coroutine's printer, or the one it prints on. That it
does not change when the coroutine ends or the process restarts is `PrintingLease`: a
printing row that still has a coroutine prints where the coroutine works. `DispatchInv`
gives the guard of `Take` (a printer that is not `Busy` is leased by nobody) and keeps rows
from moving, `RetryInv` that of `Send`, `PrintingStage` that a coroutine that loses its
claim does not release a printing row. The proof has one lemma for each abstract step: rows
that end (`EndsRows`), leases given up by rows that do not print (`ReleasesRows`), `Take`,
`Begin`, `Send` and `GiveBack`; routes, callbacks, sweeps and most stages of a dispatch are
instances of the first, with no row or some. A revert that opens a row again is a `GiveBack` under
`Reopens`; `CrossedInv` (a pending revert has been counted as a fault) provides that. The
premise is again that of `DispatchInv`.

`FanoutInv` says of the order of broadcasters what the two camera properties need:
the slot holds the newest one and all before it are stopped; only a stopped one whose
pump is over is torn down; a pump that waits or reads is not stopped, so nothing that
was torn down ever dials; and a predecessor is the broadcaster right before, until
the pump has dialled.

Slicing. `ToastsHaveJobs` needs `startedAt = IdsOf(activeJobs)`: the guard of
`renderProgressToast` is what keeps the lagging ref from drawing a toast again.
`AnnouncedOnce` needs to know where a job may still be completed from: a job on the way
to a completion (in the state, the ref or the round) that is not `finished` has been
tracked more often than it was announced. `LeftWasTold` is inductive as it stands; with
`TrackedEnds` it says that what leaves the tracker was announced. `ToldTheTruth` needs, while there was no
restart, that every job known to the tab is known by the name of the job the server
issued its id to, or has forgotten, and that an answer in the round is of the job it is
about.

Toast. `RowShowsLastWord` speaks of rows without events in transit; `ToastInv`
(`WordInv`) extends it to the channel: of an item of which no event was lost, the last
event in the channel is the last one sent, and it is the row's if there is none in the
channel. `Told` says what that last event is at each stage of a dispatch. The channel
has no bound in the proofs (`MaxInTransit` is any number).

Session. `NotSignedOut` and `TokenKept` follow from `SessionInv`: as long as no session
has ended, an answer of `/auth/me` in flight that was asked with a token is "ok" or an
error (`ChecksTrue`); a check that was asked without one is not overtaken by a sign-in
(`NoneAsked`), for which the login form must be gone while it runs; and a token nobody
checks is a shown user's or one that waits for the server (`Settled`).

The inductive invariants were checked by TLC on the instances of the runs before they
were proved; `DispatchInv` stays in `two_printers`. What only TLC shows is liveness:
`EveryRowEnds`, `ClaimReleased`, `UnwatchedCloses`, `ViewerReleased`, `TrackedEnds`,
`SpinningEnds`, `EndedToastGoes`, `WaitEnds`, `EndedIsSeen`, `SocketReturns` (fairness and
ENABLED are out of the prover's reach). Every safety and action property of a passing run
is a theorem. The theorems are wider than the runs where the premise says so: the runs of
`CompletedWasSent` and `LateStartExpected` allow fewer faults than their `Spared`.

## 5. Not modelled

Of the queue: creation and reordering of rows, batches, manual start, filament
matching and its holds, `require_previous_success` and resume, preheat, keep-warm,
drying, power-on by smart plugs, shortest-job-first. Of the camera:
`retire_broadcasters` and `shutdown_all_broadcasters` (several keys), ffmpeg,
snapshots. Of the callbacks: archives, usage, notifications, reconciliation after a
restart. Of slicing: the slicer's HTTP calls, live progress, pipelines, deleted owners.
Of the web socket: printer scopes and their refresh, and what the tab does with the
other messages (it invalidates queries). Of the session: API keys of kiosks, setup,
permissions, 2FA and OIDC up to the token they yield.

The other components of the inventory are untouched; their entries in `PROJECT.json`
say whether they are planned or out of reach (wire protocols, files). Pages, forms and
translations of the frontend are most of the repository's lines; they render queries
and send requests, and keep no state with a protocol of its own.

## 6. Plan

In order of how much depends on it:

1. The sweep's clock as the code keeps it, one per printer, and its commit overtaken.
2. The previous-success gate and resume (`check_queue`, `resume_queue_item`), as a
   further condition of `Selectable` with its route.
3. `BudgetReservation`: amounts and windows of a cost centre, two reservations that
   validate at once, settlement and release once each; composed with the queue by
   its reserve, release and settle actions.
4. `SocketAdmission`: the checks around `connect()` and the refresh of printer scopes
   against sessions, keys and groups that change meanwhile.
5. `SmartPlug`: pending switch-offs against prints that start.
6. `PrintBatch`: targets and completion of an order.
7. Preheat and keep-warm pins, which a lost claim has to unwind.
8. Reconciliation of active prints at start-up, and usage booked once.
