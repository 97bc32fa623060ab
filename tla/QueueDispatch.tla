--------------------------- MODULE QueueDispatch ---------------------------
(***************************************************************************)
(* The print queue of Bambuddy: rows of the print_queue table, the         *)
(* scheduler that dispatches them (services/print_scheduler.py), the HTTP  *)
(* routes that edit and end them (api/routes/print_queue.py), the print    *)
(* completion callback (main.py) and the printers as the backend sees them.*)
(*                                                                         *)
(* The scheduler loop is one coroutine, but every selected row is uploaded *)
(* by a coroutine of its own, every sent print is watched by another, and  *)
(* the routes and callbacks run between their awaits.  An action is what   *)
(* one of them does between two awaits at which another may see the        *)
(* difference.  Clocks are abstracted: a timeout may fire whenever the     *)
(* code's ordering of its deadlines allows it.                             *)
(***************************************************************************)
EXTENDS Naturals, FiniteSets

CONSTANTS
  Items,              \* ids of the queue rows
  Printers,           \* ids of the printers
  NoPrinter,          \* SQL NULL in printer_id, and "no entry" in the dicts
  Files,              \* names a row's 3MF can have on the printer
  FileOf,             \* the file each row prints; copies of a batch share one
  NoItem,             \* no row: nothing, or a job the queue did not send
  MaxAttempts,        \* DISPATCH_MAX_ATTEMPTS
  UploadLimits,       \* values the setting queue_max_concurrent_uploads takes
  RequirePlateClear,  \* setting require_plate_clear
  EditRoutes,         \* edit routes in use: "single" (PATCH /{id}), "bulk"
  MaxFaults           \* bound on each kind of fault: a function on FaultKinds

\* The last two: another's commit lands between the read of a row and the
\* unconditional write of a route, or of a watchdog or completion callback.
FaultKinds == {"restart", "db", "refused", "lost", "foreign", "offline", "raise",
               "crossed_route", "crossed_callback"}

ASSUME ItemsAssumption == NoPrinter \notin Printers /\ NoItem \notin Items
ASSUME FilesAssumption == FileOf \in [Items -> Files]
ASSUME LimitsAssumption ==
  /\ MaxAttempts \in Nat \ {0}
  /\ UploadLimits \subseteq Nat \ {0}
  /\ RequirePlateClear \in BOOLEAN
  /\ EditRoutes \subseteq {"single", "bulk"}
  /\ MaxFaults \in [FaultKinds -> Nat]

VARIABLES
  \* Persistent: columns of print_queue, printers and budget_reservations.
  status, printer_id, pinned, dispatching_at, dispatch_attempts, reserved,
  awaiting_plate_clear,
  \* The dispatch coroutine of each row: where it is, the printer it was
  \* launched for (_inflight) and what its finally block would undo.
  pc, inflight, unconfirmed,
  \* The rest of the scheduler's memory, and main._expected_prints.
  dispatch_holds, upload_backoff, watchdog, sent_unstarted, terminal_since,
  expected_prints,
  \* Each printer: the MQTT session, the last reported gcode_state, the job
  \* file it received but has not started, the job it runs.
  connected, gcode_state, loaded, job,
  \* A print completion callback that has not yet written the row it ends, an
  \* edit request between its first check and its write, and what has read a
  \* row and will write it unconditionally.
  completing, editing, readers,
  \* History: print commands published per row, the printers they went to,
  \* and the faults that have happened.
  sends, sent_to, faults

rowVars     == <<status, printer_id, pinned, dispatching_at, dispatch_attempts, reserved>>
taskVars    == <<pc, inflight, unconfirmed>>
memoryVars  == <<dispatch_holds, upload_backoff, watchdog, sent_unstarted, terminal_since, expected_prints>>
printerVars == <<connected, gcode_state, loaded, job>>
routeVars   == <<completing, editing, readers>>
historyVars == <<sends, sent_to, faults>>
vars == <<rowVars, awaiting_plate_clear, taskVars, memoryVars, printerVars, routeVars, historyVars>>

Terminal == {"completed", "failed", "cancelled"}
Statuses == {"pending", "printing"} \cup Terminal
Stages   == {"idle", "spawned", "claimed", "reserved", "uploading", "registered", "committed", "unwinding"}
GcodeStates == {"IDLE", "RUNNING", "FINISH", "FAILED"}
PrinterOrNone == Printers \cup {NoPrinter}
ItemOrNone == Items \cup {NoItem}
Outcomes == {"completed", "failed", "cancelled"}
NoEnd    == [job |-> NoItem, outcome |-> "none", row |-> NoItem]
Ends     == [job : ItemOrNone, outcome : Outcomes, row : ItemOrNone] \cup {NoEnd}
\* "cancel": writes cancelled and releases; "stop": leaves the release to the
\* completion; "revert": the watchdog's new try or its end.
Readers  == {"cancel", "stop", "revert"}

TypeOK ==
  /\ status \in [Items -> Statuses]
  /\ printer_id \in [Items -> PrinterOrNone]
  /\ pinned \in [Items -> BOOLEAN]
  /\ dispatching_at \in [Items -> BOOLEAN]
  /\ dispatch_attempts \in [Items -> Nat]
  /\ reserved \in [Items -> BOOLEAN]
  /\ awaiting_plate_clear \in [Printers -> BOOLEAN]
  /\ pc \in [Items -> Stages]
  /\ inflight \in [Items -> PrinterOrNone]
  /\ unconfirmed \in [Items -> SUBSET {"expected", "budget"}]
  /\ dispatch_holds \in [Printers -> BOOLEAN]
  /\ upload_backoff \in [Printers -> BOOLEAN]
  /\ watchdog \in [Items -> PrinterOrNone]
  /\ sent_unstarted \in [Items -> PrinterOrNone]
  /\ terminal_since \in [Printers -> ItemOrNone]
  /\ expected_prints \in [Printers -> SUBSET Files]
  /\ connected \in [Printers -> BOOLEAN]
  /\ gcode_state \in [Printers -> GcodeStates]
  /\ loaded \in [Printers -> ItemOrNone]
  /\ job \in [Printers -> ItemOrNone]
  /\ completing \in [Printers -> Ends]
  /\ editing \in [Items -> PrinterOrNone]
  /\ readers \in [Items -> SUBSET Readers]
  /\ sends \in [Items -> Nat]
  /\ sent_to \in [Items -> SUBSET Printers]
  /\ faults \in [FaultKinds -> Nat]

Init ==
  /\ status = [i \in Items |-> "pending"]
  /\ pinned \in [Items -> BOOLEAN]
  /\ printer_id \in [Items -> PrinterOrNone]
  /\ \A i \in Items : pinned[i] <=> printer_id[i] # NoPrinter
  /\ dispatching_at = [i \in Items |-> FALSE]
  /\ dispatch_attempts = [i \in Items |-> 0]
  /\ reserved = [i \in Items |-> FALSE]
  /\ awaiting_plate_clear = [p \in Printers |-> FALSE]
  /\ pc = [i \in Items |-> "idle"]
  /\ inflight = [i \in Items |-> NoPrinter]
  /\ unconfirmed = [i \in Items |-> {}]
  /\ dispatch_holds = [p \in Printers |-> FALSE]
  /\ upload_backoff = [p \in Printers |-> FALSE]
  /\ watchdog = [i \in Items |-> NoPrinter]
  /\ sent_unstarted = [i \in Items |-> NoPrinter]
  /\ terminal_since = [p \in Printers |-> NoItem]
  /\ expected_prints = [p \in Printers |-> {}]
  /\ connected = [p \in Printers |-> TRUE]
  /\ gcode_state = [p \in Printers |-> "IDLE"]
  /\ loaded = [p \in Printers |-> NoItem]
  /\ job = [p \in Printers |-> NoItem]
  /\ completing = [p \in Printers |-> NoEnd]
  /\ editing = [i \in Items |-> NoPrinter]
  /\ readers = [i \in Items |-> {}]
  /\ sends = [i \in Items |-> 0]
  /\ sent_to = [i \in Items |-> {}]
  /\ faults = [k \in FaultKinds |-> 0]

-----------------------------------------------------------------------------
(* Shared by the actions.                                                  *)

Printing(p) == {i \in Items : status[i] = "printing" /\ printer_id[i] = p}
InFlight == {i \in Items : inflight[i] # NoPrinter}
InTransit(i) == pc[i] \in {"claimed", "reserved", "uploading", "registered", "committed"}
Active(p) == gcode_state[p] = "RUNNING"

Fault(k) ==
  /\ faults[k] < MaxFaults[k]
  /\ faults' = [faults EXCEPT ![k] = @ + 1]

\* Mutants of Busy: only what the scheduler remembers, only what the table says.
BusyInMemory(p) == dispatch_holds[p] \/ \E i \in Items : inflight[i] = p
BusyInTable(p) == Printing(p) # {} \/ dispatch_holds[p]

\* check_queue's busy_printers, before the loop over the rows.
Busy(p) ==
  \/ Printing(p) # {}
  \/ dispatch_holds[p]
  \/ \E i \in Items : inflight[i] = p

IsPrinterIdle(p) ==
  /\ connected[p]
  /\ RequirePlateClear => ~awaiting_plate_clear[p]
  /\ ~Active(p)

\* Mutant of Failed: the row is failed without being read again.
FailedUnread(i) == "failed"

\* The status _fail_dispatch leaves: a cancel or a completion stands.
Failed(i) == IF status[i] \in {"pending", "printing"} THEN "failed" ELSE status[i]

-----------------------------------------------------------------------------
(* check_queue: one row selected for one printer.                          *)

Selectable(i, p) ==
  /\ status[i] = "pending"
  /\ ~dispatching_at[i]
  /\ inflight[i] = NoPrinter
  /\ printer_id[i] = p \/ (printer_id[i] = NoPrinter /\ ~pinned[i])
  /\ ~Busy(p)
  /\ ~upload_backoff[p]
  /\ IsPrinterIdle(p)

\* The row goes out: _launch_uploads spawns its dispatch coroutine.  The limit of
\* the pool is read in every pass, and a person may have changed it.
Launch(i, p) ==
  /\ Selectable(i, p)
  /\ \E limit \in UploadLimits : Cardinality(InFlight) < limit
  /\ printer_id' = [printer_id EXCEPT ![i] = p]
  /\ inflight' = [inflight EXCEPT ![i] = p]
  /\ pc' = [pc EXCEPT ![i] = "spawned"]
  /\ UNCHANGED <<status, pinned, dispatching_at, dispatch_attempts, reserved, awaiting_plate_clear,
                 unconfirmed, memoryVars, printerVars, routeVars, historyVars>>

\* The upload pool is full: a model row keeps the printer it was given.
AssignOnly(i, p) ==
  /\ Selectable(i, p)
  /\ \E limit \in UploadLimits : Cardinality(InFlight) >= limit
  /\ printer_id[i] = NoPrinter
  /\ printer_id' = [printer_id EXCEPT ![i] = p]
  /\ UNCHANGED <<status, pinned, dispatching_at, dispatch_attempts, reserved, awaiting_plate_clear,
                 taskVars, memoryVars, printerVars, routeVars, historyVars>>

\* An upload back-off or a dispatch hold that has run out, dropped on read.
ExpireHolds(p) ==
  /\ \/ /\ upload_backoff[p]
        /\ upload_backoff' = [upload_backoff EXCEPT ![p] = FALSE]
        /\ UNCHANGED dispatch_holds
     \/ /\ dispatch_holds[p]
        /\ dispatch_holds' = [dispatch_holds EXCEPT ![p] = FALSE]
        /\ UNCHANGED upload_backoff
  /\ UNCHANGED <<rowVars, awaiting_plate_clear, taskVars, watchdog, sent_unstarted, terminal_since,
                 expected_prints, printerVars, routeVars, historyVars>>

-----------------------------------------------------------------------------
(* The dispatch coroutine of row i: _dispatch_one and _start_print.        *)

\* The claim is a compare-and-set on the row; losing it ends the coroutine.
ClaimForDispatch(i) ==
  /\ pc[i] = "spawned"
  /\ IF status[i] = "pending" /\ ~dispatching_at[i] /\ printer_id[i] = inflight[i]
     THEN /\ dispatching_at' = [dispatching_at EXCEPT ![i] = TRUE]
          /\ pc' = [pc EXCEPT ![i] = "claimed"]
          /\ UNCHANGED inflight
     ELSE /\ pc' = [pc EXCEPT ![i] = "idle"]
          /\ inflight' = [inflight EXCEPT ![i] = NoPrinter]
          /\ UNCHANGED dispatching_at
  /\ UNCHANGED <<status, printer_id, pinned, dispatch_attempts, reserved, awaiting_plate_clear,
                 unconfirmed, memoryVars, printerVars, routeVars, historyVars>>

\* Mutant of FailDispatch: the refusal returns before the try, so that the
\* finally block does not run.
FailBeforeTry(i, s) ==
  /\ pc[i] = s
  /\ status' = [status EXCEPT ![i] = Failed(i)]
  /\ pc' = [pc EXCEPT ![i] = "idle"]
  /\ inflight' = [inflight EXCEPT ![i] = NoPrinter]
  /\ UNCHANGED <<printer_id, pinned, dispatching_at, dispatch_attempts, reserved,
                 memoryVars, printerVars, routeVars, historyVars>>

\* The dispatch ends at stage s with the row failed, if it is still open.
FailDispatch(i, s) ==
  /\ pc[i] = s
  /\ status' = [status EXCEPT ![i] = Failed(i)]
  /\ pc' = [pc EXCEPT ![i] = "unwinding"]
  /\ UNCHANGED <<printer_id, pinned, dispatching_at, dispatch_attempts, reserved, inflight,
                 memoryVars, printerVars, routeVars, historyVars>>

\* The marker comes first, the reservation with the commit after it; a
\* refused budget fails the row.
ReserveBudget(i) ==
  /\ pc[i] = "claimed"
  /\ unconfirmed' = [unconfirmed EXCEPT ![i] = {"budget"}]
  /\ reserved' = [reserved EXCEPT ![i] = TRUE]
  /\ pc' = [pc EXCEPT ![i] = "reserved"]
  /\ UNCHANGED <<status, printer_id, pinned, dispatching_at, dispatch_attempts, inflight,
                 awaiting_plate_clear, memoryVars, printerVars, routeVars, historyVars>>

BudgetRefused(i) ==
  /\ unconfirmed' = [unconfirmed EXCEPT ![i] = {"budget"}]
  /\ FailDispatch(i, "claimed")
  /\ UNCHANGED awaiting_plate_clear

\* The row and the printer are read again before the file is sent.
RecheckRow(i) ==
  /\ pc[i] = "reserved"
  /\ connected[inflight[i]]
  /\ pc' = [pc EXCEPT ![i] = IF status[i] = "pending" /\ ~Active(inflight[i])
                             THEN "uploading" ELSE "unwinding"]
  /\ UNCHANGED <<rowVars, awaiting_plate_clear, inflight, unconfirmed, memoryVars, printerVars,
                 routeVars, historyVars>>

PrinterNotConnected(i) ==
  /\ FailDispatch(i, "reserved")
  /\ ~connected[inflight[i]]
  /\ UNCHANGED <<unconfirmed, awaiting_plate_clear>>

\* The file is on the printer: its print is expected from now on.
UploadDone(i) ==
  /\ pc[i] = "uploading"
  /\ expected_prints' = [expected_prints EXCEPT ![inflight[i]] = @ \cup {FileOf[i]}]
  /\ unconfirmed' = [unconfirmed EXCEPT ![i] = @ \cup {"expected"}]
  /\ pc' = [pc EXCEPT ![i] = "registered"]
  /\ UNCHANGED <<rowVars, awaiting_plate_clear, inflight, dispatch_holds, upload_backoff, watchdog,
                 sent_unstarted, terminal_since, printerVars, routeVars, historyVars>>

\* The printer did not take the file: a model row still pending there goes
\* back to the pool, and the printer sits out for a while.
UploadRefused(i) ==
  /\ pc[i] = "uploading"
  /\ Fault("refused")
  /\ upload_backoff' = [upload_backoff EXCEPT ![inflight[i]] = TRUE]
  /\ printer_id' = IF ~pinned[i] /\ status[i] = "pending" /\ printer_id[i] = inflight[i]
                   THEN [printer_id EXCEPT ![i] = NoPrinter] ELSE printer_id
  /\ pc' = [pc EXCEPT ![i] = "unwinding"]
  /\ UNCHANGED <<status, pinned, dispatching_at, dispatch_attempts, reserved, awaiting_plate_clear,
                 inflight, unconfirmed, dispatch_holds, watchdog, sent_unstarted, terminal_since,
                 expected_prints, printerVars, routeVars, sends, sent_to>>

UploadFailed(i) ==
  /\ FailDispatch(i, "uploading")
  /\ UNCHANGED <<unconfirmed, awaiting_plate_clear>>

\* Mutant of MarkPrinting: the move to printing is no compare-and-set.
MarkPrintingBlindly(i) ==
  /\ pc[i] = "registered"
  /\ status' = [status EXCEPT ![i] = "printing"]
  /\ pc' = [pc EXCEPT ![i] = "committed"]
  /\ UNCHANGED <<printer_id, pinned, dispatching_at, dispatch_attempts, reserved,
                 awaiting_plate_clear, inflight, unconfirmed, memoryVars, printerVars, routeVars,
                 historyVars>>

\* The compare-and-set to "printing", before the print command is sent.
MarkPrinting(i) ==
  /\ pc[i] = "registered"
  /\ IF status[i] = "pending"
     THEN /\ status' = [status EXCEPT ![i] = "printing"]
          /\ pc' = [pc EXCEPT ![i] = "committed"]
     ELSE /\ pc' = [pc EXCEPT ![i] = "unwinding"]
          /\ UNCHANGED status
  /\ UNCHANGED <<printer_id, pinned, dispatching_at, dispatch_attempts, reserved,
                 awaiting_plate_clear, inflight, unconfirmed, memoryVars, printerVars, routeVars,
                 historyVars>>

\* start_print publishes the command; what the finally block would have
\* undone is now legitimate, and a watchdog follows the print.
Publish(i) ==
  LET p == inflight[i] IN
  /\ pc[i] = "committed"
  /\ connected[p] /\ ~Active(p)
  /\ loaded' = [loaded EXCEPT ![p] = i]
  /\ sends' = [sends EXCEPT ![i] = @ + 1]
  /\ sent_to' = [sent_to EXCEPT ![i] = @ \cup {p}]
  /\ awaiting_plate_clear' = [awaiting_plate_clear EXCEPT ![p] = FALSE]
  /\ unconfirmed' = [unconfirmed EXCEPT ![i] = {}]
  /\ sent_unstarted' = [sent_unstarted EXCEPT ![i] = p]
  /\ dispatch_holds' = [dispatch_holds EXCEPT ![p] = TRUE]
  /\ watchdog' = [watchdog EXCEPT ![i] = p]
  /\ pc' = [pc EXCEPT ![i] = "unwinding"]
  /\ UNCHANGED <<rowVars, inflight, upload_backoff, terminal_since, expected_prints, connected,
                 gcode_state, job, routeVars, faults>>

\* Mutant of Deferred: the row is not read again before it is written.
DeferredUnread(i) == "pending"

\* The status _defer_until_printer_idle leaves: a stop meanwhile stands.
Deferred(i) == IF status[i] = "printing" THEN "pending" ELSE status[i]

\* start_print refuses a printer that turned busy: the row goes back.
DeferUntilIdle(i) ==
  /\ pc[i] = "committed"
  /\ Active(inflight[i])
  /\ status' = [status EXCEPT ![i] = Deferred(i)]
  /\ awaiting_plate_clear' = [awaiting_plate_clear EXCEPT ![inflight[i]] = FALSE]
  /\ pc' = [pc EXCEPT ![i] = "unwinding"]
  /\ UNCHANGED <<printer_id, pinned, dispatching_at, dispatch_attempts, reserved, inflight,
                 unconfirmed, memoryVars, printerVars, routeVars, historyVars>>

\* Nothing could be sent: no session, or the nozzle-rack pick does not fit.
SendFailed(i) ==
  /\ FailDispatch(i, "committed")
  /\ ~Active(inflight[i])
  /\ awaiting_plate_clear' = [awaiting_plate_clear EXCEPT ![inflight[i]] = FALSE]
  /\ UNCHANGED unconfirmed

\* Any other exception in _start_print: only the finally block runs.
DispatchRaises(i) ==
  /\ InTransit(i)
  /\ Fault("raise")
  /\ pc' = [pc EXCEPT ![i] = "unwinding"]
  /\ UNCHANGED <<rowVars, awaiting_plate_clear, inflight, unconfirmed, memoryVars, printerVars,
                 routeVars, sends, sent_to>>

\* Mutants: nothing is unregistered; a row left pending keeps its budget.
NothingRolledBack(i) == {}
BudgetReleasedAtEnd(i) == "budget" \in unconfirmed[i] /\ status[i] # "pending"

\* What _rollback_unconfirmed_expected_print unregisters, and whether
\* _release_unconfirmed_budget_reservation releases.
RolledBack(i) == IF "expected" \in unconfirmed[i] THEN {FileOf[i]} ELSE {}
BudgetToRelease(i) == "budget" \in unconfirmed[i]

\* The finally block of _dispatch_one. Releasing the reservation and the
\* claim each give up after three failed writes.
Unwind(i) ==
  /\ pc[i] = "unwinding"
  /\ expected_prints' = [expected_prints EXCEPT ![inflight[i]] = @ \ RolledBack(i)]
  /\ \E written \in BOOLEAN :
       /\ IF written THEN UNCHANGED faults ELSE Fault("db")
       /\ \/ /\ dispatching_at' = [dispatching_at EXCEPT ![i] = FALSE]
             /\ reserved' = IF BudgetToRelease(i) /\ written
                            THEN [reserved EXCEPT ![i] = FALSE] ELSE reserved
          \/ /\ ~written
             /\ UNCHANGED <<dispatching_at, reserved>>
  /\ unconfirmed' = [unconfirmed EXCEPT ![i] = {}]
  /\ pc' = [pc EXCEPT ![i] = "idle"]
  /\ inflight' = [inflight EXCEPT ![i] = NoPrinter]
  /\ UNCHANGED <<status, printer_id, pinned, dispatch_attempts, awaiting_plate_clear, dispatch_holds,
                 upload_backoff, watchdog, sent_unstarted, terminal_since, printerVars, routeVars,
                 sends, sent_to>>

-----------------------------------------------------------------------------
(* The watchdog of a sent print, and what a print that never started leaves *)
(* behind (_watchdog_print_start, _forget_unstarted_print).                *)

Watched(i) == watchdog[i] # NoPrinter /\ "revert" \notin readers[i]

\* The printer left its idle states: this is taken for the print starting.
PrinterSeenActive(i) ==
  LET p == watchdog[i] IN
  /\ Watched(i)
  /\ Active(p)
  /\ dispatch_holds' = [dispatch_holds EXCEPT ![p] = FALSE]
  /\ sent_unstarted' = [sent_unstarted EXCEPT ![i] = NoPrinter]
  /\ watchdog' = [watchdog EXCEPT ![i] = NoPrinter]
  /\ UNCHANGED <<rowVars, awaiting_plate_clear, taskVars, upload_backoff, terminal_since,
                 expected_prints, printerVars, routeVars, historyVars>>

\* Withdraws the expectation of every row of S whose printer is not printing.
ForgetUnstarted(S) ==
  LET gone == {i \in S : sent_unstarted[i] # NoPrinter /\ ~Active(sent_unstarted[i])} IN
  /\ sent_unstarted' = [i \in Items |-> IF i \in gone THEN NoPrinter ELSE sent_unstarted[i]]
  /\ expected_prints' = [p \in Printers |->
       expected_prints[p] \ {FileOf[i] : i \in {j \in gone : sent_unstarted[j] = p}}]

\* Mutants: a failed start is not counted; a retry withdraws the expectation.
TriesUncounted(i) == dispatch_attempts[i]
WithdrawnAlways(i, over) == {i}

Tries(i) == dispatch_attempts[i] + 1

\* Whose expectation a row that did not start loses: a late start of a row
\* that gets another try is still to be matched.
Withdrawn(i, over) == IF over THEN {i} ELSE {}

\* What _do_revert writes to a row it read as printing: the printer reported that
\* it does not verify our commands (rejected), or the row gets another try, until
\* its tries are spent.
RevertRow(i, rejected) ==
  LET spent == Tries(i) >= MaxAttempts
      over  == rejected \/ spent IN
  /\ dispatch_attempts' = [dispatch_attempts EXCEPT ![i] = Tries(i)]
  /\ status' = [status EXCEPT ![i] = IF over THEN "failed" ELSE "pending"]
  /\ reserved' = IF rejected \/ ~spent THEN reserved ELSE [reserved EXCEPT ![i] = FALSE]
  /\ ForgetUnstarted(Withdrawn(i, over))

\* The deadline passed and nothing comes between _do_revert's read and its write.
WatchdogGivesUp(i, rejected) ==
  LET p == watchdog[i] IN
  /\ Watched(i)
  /\ ~Active(p)
  /\ dispatch_holds' = [dispatch_holds EXCEPT ![p] = FALSE]
  /\ watchdog' = [watchdog EXCEPT ![i] = NoPrinter]
  /\ IF status[i] = "printing" THEN RevertRow(i, rejected)
     ELSE /\ sent_unstarted' = [sent_unstarted EXCEPT ![i] = NoPrinter]
          /\ UNCHANGED <<status, dispatch_attempts, reserved, expected_prints>>
  /\ UNCHANGED <<printer_id, pinned, dispatching_at, awaiting_plate_clear, taskVars,
                 upload_backoff, terminal_since, printerVars, routeVars, historyVars>>

\* Or something does: _do_revert has read the row as printing, and will write
\* what it makes of that whatever becomes of the row.
WatchdogReads(i) ==
  /\ Watched(i)
  /\ ~Active(watchdog[i]) /\ status[i] = "printing"
  /\ Fault("crossed_callback")
  /\ dispatch_holds' = [dispatch_holds EXCEPT ![watchdog[i]] = FALSE]
  /\ readers' = [readers EXCEPT ![i] = @ \cup {"revert"}]
  /\ UNCHANGED <<rowVars, awaiting_plate_clear, taskVars, upload_backoff, watchdog, sent_unstarted,
                 terminal_since, expected_prints, printerVars, completing, editing, sends, sent_to>>

RevertWrites(i, rejected) ==
  /\ "revert" \in readers[i]
  /\ RevertRow(i, rejected)
  /\ readers' = [readers EXCEPT ![i] = @ \ {"revert"}]
  /\ watchdog' = [watchdog EXCEPT ![i] = NoPrinter]
  /\ UNCHANGED <<printer_id, pinned, dispatching_at, awaiting_plate_clear, taskVars, dispatch_holds,
                 upload_backoff, terminal_since, printerVars, completing, editing, historyVars>>

\* The write of _do_revert failed for good: the row stays as it is, unwatched,
\* and what is expected of its print stays too.
WatchdogWriteFails(i) ==
  LET p == watchdog[i] IN
  /\ p # NoPrinter
  /\ (~Active(p) /\ status[i] = "printing") \/ "revert" \in readers[i]
  /\ Fault("db")
  /\ dispatch_holds' = [dispatch_holds EXCEPT ![p] = FALSE]
  /\ watchdog' = [watchdog EXCEPT ![i] = NoPrinter]
  /\ readers' = [readers EXCEPT ![i] = @ \ {"revert"}]
  /\ UNCHANGED <<rowVars, awaiting_plate_clear, taskVars, upload_backoff, sent_unstarted,
                 terminal_since, expected_prints, printerVars, completing, editing, sends, sent_to>>

-----------------------------------------------------------------------------
(* The sweeps of the scheduler loop.                                       *)

\* Mutants: IDLE is not taken for an end; the status of MQTT reaches the row.
TerminalStateButIdle(p) == connected[p] /\ gcode_state[p] \in {"FINISH", "FAILED"}
StateOutcomeAborted == [s \in {"FINISH", "FAILED", "IDLE"} |->
                          CASE s = "FINISH" -> "completed" [] s = "FAILED" -> "failed" [] OTHER -> "aborted"]

\* _terminal_queue_status: the print is over, and the status that implies.
TerminalState(p) == connected[p] /\ ~Active(p)
StateOutcome == [s \in {"FINISH", "FAILED", "IDLE"} |->
                   CASE s = "FINISH" -> "completed" [] s = "FAILED" -> "failed" [] OTHER -> "cancelled"]

\* The grace period outlasts every watchdog, dispatch and completion callback
\* of the row that started the printer's clock.  The sweep runs on every tick,
\* so it has seen the gap between two rows that follow each other there.
GraceOver(p) ==
  LET i == terminal_since[p] IN
  /\ i \in Printing(p)
  /\ watchdog[i] = NoPrinter /\ pc[i] = "idle"
  /\ completing[p] = NoEnd

\* One pass over the printing rows; elapsed: printers whose grace has run out.
CloseStranded(elapsed) ==
  LET rows   == {i \in Items : status[i] = "printing" /\ printer_id[i] # NoPrinter}
      seen(p) == TerminalState(p) /\ Printing(p) # {}
      over   == {i \in rows : printer_id[i] \in elapsed /\ TerminalState(printer_id[i])} IN
  /\ \A p \in elapsed : GraceOver(p)
  /\ terminal_since' = [p \in Printers |->
       CASE ~seen(p) -> NoItem
         [] seen(p) /\ terminal_since[p] \in Printing(p) -> terminal_since[p]
         [] OTHER -> CHOOSE i \in rows : printer_id[i] = p]
  /\ status' = [i \in Items |-> IF i \in over THEN StateOutcome[gcode_state[printer_id[i]]] ELSE status[i]]
  /\ ForgetUnstarted(over)
  /\ UNCHANGED <<printer_id, pinned, dispatching_at, dispatch_attempts, reserved, awaiting_plate_clear,
                 taskVars, dispatch_holds, upload_backoff, watchdog, printerVars, routeVars, historyVars>>

\* Mutant of ClearStaleClaims: only the claims of rows that are over.
ClearClaimsOfEnded ==
  /\ InFlight = {}
  /\ dispatching_at' = [i \in Items |-> dispatching_at[i] /\ status[i] \notin Terminal]
  /\ UNCHANGED <<status, printer_id, pinned, dispatch_attempts, reserved, awaiting_plate_clear,
                 taskVars, memoryVars, printerVars, routeVars, historyVars>>

\* With no dispatch in flight every claim in the table is an orphan.
ClearStaleClaims ==
  /\ InFlight = {}
  /\ dispatching_at' = [i \in Items |-> FALSE]
  /\ UNCHANGED <<status, printer_id, pinned, dispatch_attempts, reserved, awaiting_plate_clear,
                 taskVars, memoryVars, printerVars, routeVars, historyVars>>

-----------------------------------------------------------------------------
(* The routes, one HTTP request each.                                      *)

\* The row is read as pending and written as cancelled, whatever it is by then;
\* usually (CancelQueueItem) nothing comes between.
CancelReads(i) ==
  /\ status[i] = "pending"
  /\ Fault("crossed_route")
  /\ readers' = [readers EXCEPT ![i] = @ \cup {"cancel"}]
  /\ UNCHANGED <<rowVars, awaiting_plate_clear, taskVars, memoryVars, printerVars, completing, editing,
                 sends, sent_to>>

CancelQueueItem(i) ==
  /\ status[i] = "pending"
  /\ status' = [status EXCEPT ![i] = "cancelled"]
  /\ reserved' = [reserved EXCEPT ![i] = FALSE]
  /\ UNCHANGED <<printer_id, pinned, dispatching_at, dispatch_attempts, awaiting_plate_clear,
                 taskVars, memoryVars, printerVars, routeVars, historyVars>>

\* The row goes, or stays as cancelled: an order can re-queue only from it.
\* What has read a row that goes finds nothing to write; else nobody tells the
\* two apart.
DeleteQueueItem(i) ==
  /\ status[i] # "printing"
  /\ status' = [status EXCEPT ![i] = IF @ = "pending" THEN "cancelled" ELSE @]
  /\ reserved' = [reserved EXCEPT ![i] = FALSE]
  /\ readers' \in {readers, [readers EXCEPT ![i] = {}]}
  /\ UNCHANGED <<printer_id, pinned, dispatching_at, dispatch_attempts, awaiting_plate_clear,
                 taskVars, memoryVars, printerVars, completing, editing, historyVars>>

\* The stop command, if it can be sent, ends the print in a later report;
\* only without one is the reservation released here.
StopReads(i) ==
  /\ status[i] = "printing"
  /\ Fault("crossed_route")
  /\ readers' = [readers EXCEPT ![i] = @ \cup {IF connected[printer_id[i]] THEN "stop" ELSE "cancel"}]
  /\ UNCHANGED <<rowVars, awaiting_plate_clear, taskVars, memoryVars, printerVars, completing, editing,
                 sends, sent_to>>

\* The write of a cancel or a stop, by the id of the row alone.
RouteWrites(i, reader) ==
  /\ reader \in readers[i] \cap {"cancel", "stop"}
  /\ status' = [status EXCEPT ![i] = "cancelled"]
  /\ reserved' = IF reader = "stop" THEN reserved ELSE [reserved EXCEPT ![i] = FALSE]
  /\ readers' = [readers EXCEPT ![i] = @ \ {reader}]
  /\ UNCHANGED <<printer_id, pinned, dispatching_at, dispatch_attempts, awaiting_plate_clear,
                 taskVars, memoryVars, printerVars, completing, editing, historyVars>>

StopQueueItem(i) ==
  /\ status[i] = "printing"
  /\ status' = [status EXCEPT ![i] = "cancelled"]
  /\ reserved' = IF connected[printer_id[i]] THEN reserved ELSE [reserved EXCEPT ![i] = FALSE]
  /\ UNCHANGED <<printer_id, pinned, dispatching_at, dispatch_attempts, awaiting_plate_clear,
                 taskVars, memoryVars, printerVars, routeVars, historyVars>>

\* Mutant of BulkUpdate: it looks at the status alone.
BulkUpdateClaimed(i, q) ==
  /\ "bulk" \in EditRoutes
  /\ status[i] = "pending"
  /\ printer_id' = [printer_id EXCEPT ![i] = q]
  /\ pinned' = [pinned EXCEPT ![i] = TRUE]
  /\ UNCHANGED <<status, dispatching_at, dispatch_attempts, reserved, awaiting_plate_clear,
                 taskVars, memoryVars, printerVars, routeVars, historyVars>>

\* PATCH /bulk reads status and claim again right before it writes.
BulkUpdate(i, q) ==
  /\ "bulk" \in EditRoutes
  /\ status[i] = "pending" /\ ~dispatching_at[i]
  /\ printer_id' = [printer_id EXCEPT ![i] = q]
  /\ pinned' = [pinned EXCEPT ![i] = TRUE]
  /\ UNCHANGED <<status, dispatching_at, dispatch_attempts, reserved, awaiting_plate_clear,
                 taskVars, memoryVars, printerVars, routeVars, historyVars>>

\* PATCH /{id} checks both, validates across awaits, and then reads only the
\* claim again.
UpdateBegins(i, q) ==
  /\ "single" \in EditRoutes
  /\ editing[i] = NoPrinter
  /\ status[i] = "pending" /\ ~dispatching_at[i]
  /\ editing' = [editing EXCEPT ![i] = q]
  /\ UNCHANGED <<rowVars, awaiting_plate_clear, taskVars, memoryVars, printerVars, completing, readers,
                 historyVars>>

UpdateWrites(i) ==
  /\ editing[i] # NoPrinter
  /\ IF dispatching_at[i] THEN UNCHANGED <<printer_id, pinned>>
     ELSE /\ printer_id' = [printer_id EXCEPT ![i] = editing[i]]
          /\ pinned' = [pinned EXCEPT ![i] = TRUE]
  /\ editing' = [editing EXCEPT ![i] = NoPrinter]
  /\ UNCHANGED <<status, dispatching_at, dispatch_attempts, reserved, awaiting_plate_clear,
                 taskVars, memoryVars, printerVars, completing, readers, historyVars>>

ClearPlate(p) ==
  /\ awaiting_plate_clear[p]
  /\ awaiting_plate_clear' = [awaiting_plate_clear EXCEPT ![p] = FALSE]
  /\ UNCHANGED <<rowVars, taskVars, memoryVars, printerVars, routeVars, historyVars>>

-----------------------------------------------------------------------------
(* The printers, as their MQTT reports reach the backend, and the print     *)
(* callbacks of main.py.                                                   *)

\* The sent job starts; on_print_start consumes its expectation.
PrinterStarts(p) ==
  LET i == loaded[p] IN
  /\ i # NoItem
  /\ connected[p] /\ ~Active(p)
  /\ gcode_state' = [gcode_state EXCEPT ![p] = "RUNNING"]
  /\ job' = [job EXCEPT ![p] = i]
  /\ loaded' = [loaded EXCEPT ![p] = NoItem]
  /\ expected_prints' = [expected_prints EXCEPT ![p] = @ \ {FileOf[i]}]
  /\ UNCHANGED <<rowVars, awaiting_plate_clear, taskVars, dispatch_holds, upload_backoff, watchdog,
                 sent_unstarted, terminal_since, connected, routeVars, historyVars>>

\* The sent job never starts: lost on the session, or dismissed there.
PrinterDrops(p) ==
  /\ loaded[p] # NoItem
  /\ loaded' = [loaded EXCEPT ![p] = NoItem]
  /\ UNCHANGED <<rowVars, awaiting_plate_clear, taskVars, memoryVars, connected, gcode_state, job,
                 routeVars, historyVars>>

\* A print started at the printer, of a file the queue knows nothing of.
HandStart(p) ==
  /\ connected[p] /\ ~Active(p)
  /\ Fault("foreign")
  /\ gcode_state' = [gcode_state EXCEPT ![p] = "RUNNING"]
  /\ job' = [job EXCEPT ![p] = NoItem]
  /\ loaded' = [loaded EXCEPT ![p] = NoItem]
  /\ UNCHANGED <<rowVars, awaiting_plate_clear, taskVars, memoryVars, connected, routeVars,
                 sends, sent_to>>

EndStates == [o \in Outcomes |-> CASE o = "completed" -> {"FINISH"}
                                   [] o = "failed" -> {"FAILED"}
                                   [] OTHER -> {"FAILED", "IDLE"}]

\* No print is over between the registration of a dispatch and its send: they
\* are seconds apart, and a print the dispatch did not see began after it.
Sending(p) == \E i \in Items : inflight[i] = p /\ pc[i] \in {"registered", "committed"}

\* The print ends; on_print_complete raises the plate gate at once and closes
\* the row after several awaits, unless the report is never heard.
PrinterEnds(p, outcome) ==
  /\ connected[p] /\ Active(p) /\ ~Sending(p)
  /\ completing[p] = NoEnd
  /\ \E s \in EndStates[outcome] : gcode_state' = [gcode_state EXCEPT ![p] = s]
  /\ job' = [job EXCEPT ![p] = NoItem]
  /\ \/ /\ completing' = [completing EXCEPT ![p] = [job |-> job[p], outcome |-> outcome, row |-> NoItem]]
        /\ awaiting_plate_clear' = [awaiting_plate_clear EXCEPT ![p] = TRUE]
        /\ UNCHANGED faults
     \/ /\ Fault("lost")
        /\ UNCHANGED <<completing, awaiting_plate_clear>>
  /\ UNCHANGED <<rowVars, taskVars, memoryVars, connected, loaded, editing, readers, sends, sent_to>>

\* Mutant of Belongs: any completion of the printer closes the row.
BelongsToAny(i, p) == TRUE

\* The row a completion closes: the one printing on the printer, unless the
\* names of its file and of the job that ended disagree.
Belongs(i, p) == completing[p].job # NoItem /\ FileOf[completing[p].job] = FileOf[i]

OnPrintComplete(p) ==
  LET end == completing[p]
      open(i) == status[i] \in {"pending", "printing"} IN
  /\ end # NoEnd /\ end.row = NoItem
  /\ \/ \E i \in Printing(p) :
          IF Belongs(i, p)
          THEN /\ status' = [status EXCEPT ![i] = end.outcome]
               /\ reserved' = [reserved EXCEPT ![i] = FALSE]
          ELSE /\ UNCHANGED status
               /\ reserved' = [j \in Items |-> reserved[j] /\ (j # end.job \/ open(j))]
     \/ /\ Printing(p) = {}
        /\ reserved' = [j \in Items |-> reserved[j] /\ (j # end.job \/ open(j))]
        /\ UNCHANGED status
  /\ completing' = [completing EXCEPT ![p] = NoEnd]
  /\ UNCHANGED <<printer_id, pinned, dispatching_at, dispatch_attempts, awaiting_plate_clear,
                 taskVars, memoryVars, printerVars, editing, readers, historyVars>>

\* _update_queue_status reads the row and looks for its file's name before it
\* writes; here another's commit comes between.
CompletionReads(p) ==
  /\ completing[p] # NoEnd /\ completing[p].row = NoItem
  /\ Fault("crossed_callback")
  /\ \E i \in Printing(p) : Belongs(i, p) /\ completing' = [completing EXCEPT ![p].row = i]
  /\ UNCHANGED <<rowVars, awaiting_plate_clear, taskVars, memoryVars, printerVars, editing, readers,
                 sends, sent_to>>

CompletionWrites(p) ==
  LET end == completing[p] IN
  /\ end.row # NoItem
  /\ status' = [status EXCEPT ![end.row] = end.outcome]
  /\ reserved' = [reserved EXCEPT ![end.row] = FALSE]
  /\ completing' = [completing EXCEPT ![p] = NoEnd]
  /\ UNCHANGED <<printer_id, pinned, dispatching_at, dispatch_attempts, awaiting_plate_clear,
                 taskVars, memoryVars, printerVars, editing, readers, historyVars>>

Disconnect(p) ==
  /\ connected[p]
  /\ Fault("offline")
  /\ connected' = [connected EXCEPT ![p] = FALSE]
  /\ UNCHANGED <<rowVars, awaiting_plate_clear, taskVars, memoryVars, gcode_state, loaded, job,
                 routeVars, sends, sent_to>>

\* What the printer did meanwhile shows now; one that was switched off boots
\* into IDLE with nothing loaded.
Reconnect(p) ==
  /\ ~connected[p]
  /\ connected' = [connected EXCEPT ![p] = TRUE]
  /\ \/ UNCHANGED <<gcode_state, loaded>>
     \/ /\ gcode_state' = [gcode_state EXCEPT ![p] = "IDLE"]
        /\ loaded' = [loaded EXCEPT ![p] = NoItem]
  /\ UNCHANGED <<rowVars, awaiting_plate_clear, taskVars, memoryVars, job, routeVars, historyVars>>

\* The backend dies and comes back: what is not in the database is gone, and
\* _release_stuck_budget_reservations frees what rows that are over still held.
Restart ==
  /\ Fault("restart")
  /\ reserved' = [i \in Items |-> reserved[i] /\ status[i] \notin Terminal]
  /\ pc' = [i \in Items |-> "idle"]
  /\ inflight' = [i \in Items |-> NoPrinter]
  /\ unconfirmed' = [i \in Items |-> {}]
  /\ dispatch_holds' = [p \in Printers |-> FALSE]
  /\ upload_backoff' = [p \in Printers |-> FALSE]
  /\ watchdog' = [i \in Items |-> NoPrinter]
  /\ sent_unstarted' = [i \in Items |-> NoPrinter]
  /\ terminal_since' = [p \in Printers |-> NoItem]
  /\ expected_prints' = [p \in Printers |-> {}]
  /\ connected' = [p \in Printers |-> FALSE]
  /\ completing' = [p \in Printers |-> NoEnd]
  /\ editing' = [i \in Items |-> NoPrinter]
  /\ readers' = [i \in Items |-> {}]
  /\ UNCHANGED <<status, printer_id, pinned, dispatching_at, dispatch_attempts, awaiting_plate_clear,
                 gcode_state, loaded, job, sends, sent_to>>

-----------------------------------------------------------------------------
(* What a coroutine of the dispatch of row i does next, faults apart.      *)
DispatchStep(i) ==
  \/ ClaimForDispatch(i)
  \/ ReserveBudget(i) \/ BudgetRefused(i)
  \/ RecheckRow(i) \/ PrinterNotConnected(i)
  \/ UploadDone(i) \/ UploadFailed(i)
  \/ MarkPrinting(i)
  \/ Publish(i) \/ DeferUntilIdle(i) \/ SendFailed(i)
  \/ Unwind(i)

WatchdogStep(i) ==
  \/ PrinterSeenActive(i)
  \/ \E rejected \in BOOLEAN : WatchdogGivesUp(i, rejected) \/ RevertWrites(i, rejected)
  \/ WatchdogReads(i)
  \/ WatchdogWriteFails(i)

RouteStep(i) ==
  \/ CancelQueueItem(i) \/ DeleteQueueItem(i) \/ StopQueueItem(i)
  \/ CancelReads(i) \/ StopReads(i) \/ \E reader \in Readers : RouteWrites(i, reader)
  \/ \E q \in Printers : BulkUpdate(i, q) \/ UpdateBegins(i, q)
  \/ UpdateWrites(i)

PrinterStep(p) ==
  \/ PrinterStarts(p) \/ PrinterDrops(p) \/ HandStart(p)
  \/ \E o \in Outcomes : PrinterEnds(p, o)
  \/ OnPrintComplete(p) \/ CompletionReads(p) \/ CompletionWrites(p)
  \/ Disconnect(p) \/ Reconnect(p)
  \/ ClearPlate(p) \/ ExpireHolds(p)

Next ==
  \/ \E i \in Items : \/ \E p \in Printers : Launch(i, p) \/ AssignOnly(i, p)
                      \/ DispatchStep(i) \/ UploadRefused(i) \/ DispatchRaises(i)
                      \/ WatchdogStep(i)
                      \/ RouteStep(i)
  \/ \E p \in Printers : PrinterStep(p)
  \/ \E elapsed \in SUBSET Printers : CloseStranded(elapsed)
  \/ ClearStaleClaims
  \/ Restart

Spec == Init /\ [][Next]_vars

-----------------------------------------------------------------------------
(* Fairness.  Coroutines get their turn and the loop keeps sweeping; a      *)
(* printer answers a sent job or loses it, ends what it prints and comes    *)
(* back on line; a person clears a full plate.  Nobody has to use a route.  *)

Fairness ==
  /\ \A i \in Items :
       /\ WF_vars(\E p \in Printers : Launch(i, p))
       /\ WF_vars(DispatchStep(i))
       /\ WF_vars(WatchdogStep(i))
       /\ WF_vars(UpdateWrites(i))
       /\ WF_vars(\E reader \in Readers : RouteWrites(i, reader))
  /\ \A p \in Printers :
       /\ WF_vars(\E elapsed \in SUBSET {p} : CloseStranded(elapsed) /\ terminal_since'[p] # terminal_since[p])
       /\ WF_vars(GraceOver(p) /\ CloseStranded({p}))
       /\ WF_vars(PrinterStarts(p) \/ PrinterDrops(p))
       /\ WF_vars(\E o \in Outcomes : PrinterEnds(p, o))
       /\ WF_vars(OnPrintComplete(p) \/ CompletionWrites(p))
       /\ WF_vars(Reconnect(p))
       /\ WF_vars(ClearPlate(p))
       /\ WF_vars(ExpireHolds(p))
  /\ WF_vars(ClearStaleClaims)

FairSpec == Spec /\ Fairness

-----------------------------------------------------------------------------
(* Properties.                                                             *)

\* At most one row is printing on a printer, whatever the races of dispatch,
\* edits, watchdogs and restarts: the case on_print_complete logs as "BUG:
\* Multiple queue items in 'printing' status" (main.py).
OneRowPerPrinter ==
  \A i, j \in Items :
    status[i] = "printing" /\ status[j] = "printing" /\ printer_id[i] = printer_id[j] => i = j

\* A printer a dispatch coroutine is working for is nobody else's: no second
\* coroutine is on its way to it, and no other row is printing there.
OneDispatchPerPrinter ==
  \A i, j \in Items :
    inflight[i] # NoPrinter /\ i # j =>
      /\ inflight[j] # inflight[i]
      /\ ~(status[j] = "printing" /\ printer_id[j] = inflight[i])

\* While a claimed row is being uploaded and until its outcome is settled, it
\* stays with the printer the file goes to: no edit moves it mid-dispatch.
NotReassignedInFlight ==
  \A i \in Items :
    InTransit(i) /\ status[i] \in {"pending", "printing"} => printer_id[i] = inflight[i]

\* A print is expected on a printer only for a row that was sent there, or
\* whose dispatch there is still live: no abort leaves an expectation for a
\* print that never went out (_rollback_unconfirmed_expected_print).
ExpectationJustified ==
  \A p \in Printers : \A f \in expected_prints[p] :
    \E i \in Items :
      /\ FileOf[i] = f
      /\ p \in sent_to[i] \/ (inflight[i] = p /\ "expected" \in unconfirmed[i])

\* A row that was never sent holds no budget once its dispatch has ended,
\* unless the backend died or the database refused the release.
ReservationJustified ==
  \A i \in Items :
    reserved[i] /\ pc[i] = "idle" /\ sends[i] = 0 => faults["restart"] + faults["db"] > 0

\* A claim outlives its dispatch only if the backend died or the database refused
\* the writes that clear it: no other abort leaves a row that neither the
\* scheduler nor an edit will touch.
ClaimJustified ==
  \A i \in Items : dispatching_at[i] /\ pc[i] = "idle" => faults["restart"] + faults["db"] > 0

\* No row is sent more than DISPATCH_MAX_ATTEMPTS times, restarts included.
RetryBudget == \A i \in Items : sends[i] <= MaxAttempts

\* The job a printer has received and may still start is expected there while its
\* row is alive, so that even a late start is matched to its archive.
LateStartExpected ==
  \A p \in Printers :
    LET i == loaded[p] IN
    i # NoItem /\ status[i] \in {"pending", "printing"} => FileOf[i] \in expected_prints[p]

\* A row closed as completed has been sent to a printer.
CompletedWasSent == \A i \in Items : status[i] = "completed" => sends[i] > 0

\* What has read row i and will overwrite whatever became of it.
Overwrites(i) == readers[i] # {} \/ \E p \in Printers : completing[p] # NoEnd /\ completing[p].row = i

\* An end stands, unless a handler that read the row before it ended overwrites
\* it, and only _do_revert then opens the row again: whatever else a dispatch,
\* a sweep, a route or a callback read before (_fail_dispatch and
\* _defer_until_printer_idle write in one guarded UPDATE), it undoes no end.
EndStandsUnlessCrossed ==
  [][\A i \in Items : status[i] \in Terminal =>
       /\ status'[i] # status[i] => Overwrites(i)
       /\ status'[i] \notin Terminal => "revert" \in readers[i]]_vars

\* A completion ends the row whose job ended, and no other, even if the row has
\* changed since the callback read it.
CompletionClosesOwnRow ==
  [][\A p \in Printers, i \in Items :
       completing[p] # NoEnd /\ completing'[p] = NoEnd /\ status'[i] # status[i]
         => completing[p].job = i]_vars

\* Why rows and printers stay one to one when rows are not edited by PATCH
\* /{id}: a printer is taken from the launch of a dispatch to its end, and what
\* is claimed keeps the printer it was claimed for.  An inductive invariant.
LaunchedFor == \A i \in Items : pc[i] = "idle" <=> inflight[i] = NoPrinter

ClaimHolds ==
  \A i \in Items : InTransit(i) =>
    /\ dispatching_at[i]
    /\ status[i] \in {"pending", "printing"} => printer_id[i] = inflight[i]

DispatchInv ==
  /\ LaunchedFor /\ ClaimHolds
  /\ \A i \in Items : (status[i] = "printing" => printer_id[i] # NoPrinter) /\ editing[i] = NoPrinter
  /\ OneRowPerPrinter
  /\ OneDispatchPerPrinter

\* Every row is over in the end: no printer's queue is wedged by a row nobody
\* closes, a claim nobody clears or a hold nobody drops.
EveryRowEnds == \A i \in Items : <>[](status[i] \in Terminal)

\* No dispatch claim outlives its dispatch for ever, even if the write that
\* clears it fails.
ClaimReleased == \A i \in Items : dispatching_at[i] ~> ~dispatching_at[i]

-----------------------------------------------------------------------------
(* The queue keeps the promise of PrintQueueAbstract: the printer a row      *)
(* leases is the one its coroutine works for, and then the one it prints on. *)

PhaseOf(i) == CASE status[i] = "pending"  -> "waiting"
                [] status[i] = "printing" -> "printing"
                [] OTHER -> "over"
LeaseOf(i) == IF inflight[i] # NoPrinter THEN inflight[i]
              ELSE IF status[i] = "printing" THEN printer_id[i] ELSE NoPrinter

Abstract == INSTANCE PrintQueueAbstract WITH
  MaxSends <- MaxAttempts,
  Reopens  <- MaxAttempts > 1 /\ MaxFaults["crossed_callback"] > 0,
  phase    <- [i \in Items |-> PhaseOf(i)],
  lease    <- [i \in Items |-> LeaseOf(i)],
  sent     <- sends

\* Dispatch, watchdogs, sweeps, routes and restarts together implement the
\* exclusive and bounded leases of the abstract queue, final ones unless a
\* watchdog that has tries left was overtaken between its read and its write.
ImplementsAbstract == Abstract!Spec
=============================================================================
