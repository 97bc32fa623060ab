------------------------ MODULE QueueDispatchProofs ------------------------
(* Safety of the print queue for every number of rows, printers and faults:  *)
(* types, claims, exclusive printers, bounded retries and finality.  One step *)
(* per action, one invariant per promise; the parts are combined at the end   *)
(* of each section by PTL.                                                   *)
EXTENDS QueueDispatch, TLAPS

-----------------------------------------------------------------------------
(* Types.                                                                  *)

\* The state the backend starts in, with rows waiting and printers idle, is typed.
LEMMA TypeInit == Init => TypeOK
  BY DEF Init, TypeOK, Statuses, PrinterOrNone, ItemOrNone, Stages, GcodeStates, Ends

\* _forget_unstarted_print removes entries and adds none.
LEMMA TypeForget ==
  ASSUME TypeOK, NEW S \in SUBSET Items, ForgetUnstarted(S)
  PROVE  /\ sent_unstarted' \in [Items -> PrinterOrNone]
         /\ expected_prints' \in [Printers -> SUBSET Files]
  BY DEF TypeOK, ForgetUnstarted, PrinterOrNone

\* Counting a fault leaves a count of each kind.
LEMMA TypeFault ==
  ASSUME TypeOK, NEW k \in FaultKinds, Fault(k)
  PROVE  faults' \in [FaultKinds -> Nat]
  BY DEF TypeOK, Fault

\* Selecting a row in check_queue keeps the types.
LEMMA TypeLaunch ==
  ASSUME TypeOK, NEW i \in Items, NEW p \in Printers, Launch(i, p) \/ AssignOnly(i, p)
  PROVE  TypeOK'
  <1>. USE DEF TypeOK, taskVars, memoryVars, printerVars, routeVars, historyVars, PrinterOrNone, Stages
  <1>1. CASE Launch(i, p)     BY <1>1 DEF Launch
  <1>2. CASE AssignOnly(i, p) BY <1>2 DEF AssignOnly
  <1> QED BY <1>1, <1>2

\* So does every step of a dispatch coroutine: what it works for is a printer,
\* because no coroutine runs without one (LaunchedFor).
LEMMA TypeDispatch ==
  ASSUME TypeOK, LaunchedFor, NEW i \in Items, DispatchStep(i) \/ UploadRefused(i) \/ DispatchRaises(i)
  PROVE  TypeOK'
  <1>. USE DEF TypeOK, rowVars, taskVars, memoryVars, printerVars, routeVars, historyVars, PrinterOrNone, Stages
  <1>0. pc[i] # "idle" => inflight[i] \in Printers
    BY DEF LaunchedFor
  <1>1. CASE ClaimForDispatch(i)
    <2>1. /\ dispatching_at' \in [Items -> BOOLEAN]
          /\ pc' \in [Items -> Stages]
          /\ inflight' \in [Items -> PrinterOrNone]
      BY <1>1 DEF ClaimForDispatch
    <2> QED BY <1>1, <2>1 DEF ClaimForDispatch
  <1>2. CASE ReserveBudget(i)       BY <1>2 DEF ReserveBudget
  <1>3. CASE BudgetRefused(i)       BY <1>3 DEF BudgetRefused, FailDispatch, Failed, Statuses, Terminal
  <1>4. CASE RecheckRow(i)          BY <1>4 DEF RecheckRow
  <1>5. CASE PrinterNotConnected(i) BY <1>5 DEF PrinterNotConnected, FailDispatch, Failed, Statuses, Terminal
  <1>6. CASE UploadDone(i)
    <2>1. FileOf[i] \in Files
      BY FilesAssumption
    <2>2. expected_prints' \in [Printers -> SUBSET Files]
      BY <1>6, <2>1 DEF UploadDone
    <2>3. unconfirmed' \in [Items -> SUBSET {"expected", "budget"}]
      BY <1>6 DEF UploadDone
    <2> QED BY <1>6, <2>2, <2>3 DEF UploadDone
  <1>7. CASE UploadFailed(i)        BY <1>7 DEF UploadFailed, FailDispatch, Failed, Statuses, Terminal
  <1>8. CASE MarkPrinting(i)        BY <1>8 DEF MarkPrinting, Statuses
  <1>9. CASE Publish(i)
    <2>1. sends' \in [Items -> Nat]
      BY <1>9 DEF Publish
    <2>2. /\ pc' \in [Items -> Stages]
          /\ loaded' \in [Printers -> ItemOrNone]
          /\ sent_to' \in [Items -> SUBSET Printers]
          /\ awaiting_plate_clear' \in [Printers -> BOOLEAN]
          /\ unconfirmed' \in [Items -> SUBSET {"expected", "budget"}]
          /\ sent_unstarted' \in [Items -> PrinterOrNone]
          /\ dispatch_holds' \in [Printers -> BOOLEAN]
          /\ watchdog' \in [Items -> PrinterOrNone]
      BY <1>0, <1>9 DEF Publish, ItemOrNone
    <2>3. UNCHANGED <<rowVars, inflight, upload_backoff, terminal_since, expected_prints, connected,
                      gcode_state, job, routeVars, faults>>
      BY <1>9 DEF Publish
    <2> QED BY <2>1, <2>2, <2>3
  <1>10. CASE DeferUntilIdle(i)     BY <1>10 DEF DeferUntilIdle, Deferred, Statuses
  <1>11. CASE SendFailed(i)         BY <1>11 DEF SendFailed, FailDispatch, Failed, Statuses, Terminal
  <1>12. CASE Unwind(i)
    <2>1. faults' \in [FaultKinds -> Nat]
      BY <1>12, TypeFault DEF Unwind, FaultKinds
    <2>2. RolledBack(i) \subseteq Files
      BY FilesAssumption DEF RolledBack
    <2> QED BY <1>0, <1>12, <2>1, <2>2 DEF Unwind
  <1>13. CASE UploadRefused(i)
    <2>1. faults' \in [FaultKinds -> Nat]
      BY <1>13, TypeFault DEF UploadRefused, FaultKinds
    <2> QED BY <1>13, <2>1 DEF UploadRefused
  <1>14. CASE DispatchRaises(i)
    <2>1. faults' \in [FaultKinds -> Nat]
      BY <1>14, TypeFault DEF DispatchRaises, FaultKinds
    <2> QED BY <1>14, <2>1 DEF DispatchRaises
  <1> QED BY <1>1, <1>2, <1>3, <1>4, <1>5, <1>6, <1>7, <1>8, <1>9, <1>10, <1>11, <1>12, <1>13, <1>14
          DEF DispatchStep

\* What _do_revert writes is a row of the table and what the scheduler knows of it.
LEMMA TypeRevert ==
  ASSUME TypeOK, NEW i \in Items, NEW rejected \in BOOLEAN, RevertRow(i, rejected)
  PROVE  /\ sent_unstarted' \in [Items -> PrinterOrNone]
         /\ expected_prints' \in [Printers -> SUBSET Files]
         /\ dispatch_attempts' \in [Items -> Nat]
         /\ reserved' \in [Items -> BOOLEAN]
         /\ status' \in [Items -> Statuses]
  <1>. USE DEF TypeOK
  <1>1. PICK S \in SUBSET Items : ForgetUnstarted(S)
    BY DEF RevertRow, Withdrawn
  <1>2. dispatch_attempts' \in [Items -> Nat]
    BY DEF RevertRow, Tries
  <1>3. reserved' \in [Items -> BOOLEAN] /\ status' \in [Items -> Statuses]
    BY DEF RevertRow, Statuses, Terminal
  <1> QED BY <1>1, <1>2, <1>3, TypeForget

\* So does either end of the watchdog of a sent print.
LEMMA TypeWatchdog ==
  ASSUME TypeOK, NEW i \in Items, WatchdogStep(i)
  PROVE  TypeOK'
  <1>. USE DEF TypeOK, rowVars, taskVars, printerVars, routeVars, historyVars, PrinterOrNone
  <1>1. CASE PrinterSeenActive(i)
    BY <1>1 DEF PrinterSeenActive
  <1>2. ASSUME NEW rejected \in BOOLEAN, WatchdogGivesUp(i, rejected)
        PROVE  TypeOK'
    <2>1. /\ sent_unstarted' \in [Items -> PrinterOrNone]
          /\ expected_prints' \in [Printers -> SUBSET Files]
          /\ dispatch_attempts' \in [Items -> Nat]
          /\ reserved' \in [Items -> BOOLEAN]
          /\ status' \in [Items -> Statuses]
      BY <1>2, TypeRevert DEF WatchdogGivesUp
    <2>2. /\ dispatch_holds' \in [Printers -> BOOLEAN]
          /\ watchdog' \in [Items -> PrinterOrNone]
      BY <1>2 DEF WatchdogGivesUp
    <2>3. UNCHANGED <<printer_id, pinned, dispatching_at, awaiting_plate_clear, taskVars,
                 upload_backoff, terminal_since, printerVars, routeVars, historyVars>>
      BY <1>2 DEF WatchdogGivesUp
    <2> QED BY <2>1, <2>2, <2>3
  <1>3. CASE WatchdogReads(i)
    <2>1. faults' \in [FaultKinds -> Nat]
      BY <1>3, TypeFault DEF WatchdogReads, FaultKinds
    <2>2. readers' \in [Items -> SUBSET Readers]
      BY <1>3 DEF WatchdogReads, Readers
    <2> QED BY <1>3, <2>1, <2>2 DEF WatchdogReads
  <1>4. ASSUME NEW rejected \in BOOLEAN, RevertWrites(i, rejected)
        PROVE  TypeOK'
    <2>1. /\ sent_unstarted' \in [Items -> PrinterOrNone]
          /\ expected_prints' \in [Printers -> SUBSET Files]
          /\ dispatch_attempts' \in [Items -> Nat]
          /\ reserved' \in [Items -> BOOLEAN]
          /\ status' \in [Items -> Statuses]
      BY <1>4, TypeRevert DEF RevertWrites
    <2>2. /\ readers' \in [Items -> SUBSET Readers]
          /\ watchdog' \in [Items -> PrinterOrNone]
      BY <1>4 DEF RevertWrites
    <2>3. UNCHANGED <<printer_id, pinned, dispatching_at, awaiting_plate_clear, taskVars, dispatch_holds,
                 upload_backoff, terminal_since, printerVars, completing, editing, historyVars>>
      BY <1>4 DEF RevertWrites
    <2> QED BY <2>1, <2>2, <2>3
  <1>5. CASE WatchdogWriteFails(i)
    BY <1>5 DEF WatchdogWriteFails, Fault, FaultKinds, rowVars
  <1> QED BY <1>1, <1>2, <1>3, <1>4, <1>5 DEF WatchdogStep

\* So do the sweeps of the loop: the status that StateOutcome infers is one a
\* row may have.
LEMMA TypeSweep ==
  ASSUME TypeOK, (\E elapsed \in SUBSET Printers : CloseStranded(elapsed)) \/ ClearStaleClaims
  PROVE  TypeOK'
  <1>. USE DEF TypeOK, taskVars, memoryVars, printerVars, routeVars, historyVars
  <1>1. ASSUME NEW elapsed \in SUBSET Printers, CloseStranded(elapsed)
        PROVE  TypeOK'
    <2>1. PICK S \in SUBSET Items : ForgetUnstarted(S)
      BY <1>1 DEF CloseStranded
    <2>2. status' \in [Items -> Statuses]
      BY <1>1 DEF CloseStranded, StateOutcome, TerminalState, Active, GcodeStates, Statuses, Terminal, PrinterOrNone
    <2>3. terminal_since' \in [Printers -> ItemOrNone]
      BY <1>1 DEF CloseStranded, ItemOrNone, Printing
    <2>4. UNCHANGED <<printer_id, pinned, dispatching_at, dispatch_attempts, reserved, awaiting_plate_clear,
                 taskVars, dispatch_holds, upload_backoff, watchdog, printerVars, routeVars, historyVars>>
      BY <1>1 DEF CloseStranded
    <2> QED BY <2>1, <2>2, <2>3, <2>4, TypeForget
  <1>2. CASE ClearStaleClaims
    BY <1>2 DEF ClearStaleClaims
  <1> QED BY <1>1, <1>2

\* So do the routes that edit and end rows.
LEMMA TypeRoute ==
  ASSUME TypeOK, NEW i \in Items, RouteStep(i)
  PROVE  TypeOK'
  <1>. USE DEF TypeOK, rowVars, taskVars, memoryVars, printerVars, routeVars, historyVars, PrinterOrNone
  <1>1. CASE CancelQueueItem(i) BY <1>1 DEF CancelQueueItem, Statuses, Terminal
  <1>2. CASE DeleteQueueItem(i) BY <1>2 DEF DeleteQueueItem, Statuses, Terminal
  <1>3. CASE StopQueueItem(i)   BY <1>3 DEF StopQueueItem, Statuses, Terminal
  <1>4. ASSUME NEW q \in Printers, BulkUpdate(i, q) PROVE TypeOK'
    BY <1>4 DEF BulkUpdate
  <1>5. ASSUME NEW q \in Printers, UpdateBegins(i, q) PROVE TypeOK'
    BY <1>5 DEF UpdateBegins
  <1>6. CASE UpdateWrites(i)    BY <1>6 DEF UpdateWrites
  <1>7. CASE CancelReads(i)     BY <1>7 DEF CancelReads, Fault, FaultKinds, Readers
  <1>8. CASE StopReads(i)       BY <1>8 DEF StopReads, Fault, FaultKinds, Readers
  <1>9. ASSUME NEW reader \in Readers, RouteWrites(i, reader) PROVE TypeOK'
    BY <1>9 DEF RouteWrites, Statuses, Terminal
  <1> QED BY <1>1, <1>2, <1>3, <1>4, <1>5, <1>6, <1>7, <1>8, <1>9 DEF RouteStep

\* What a completion callback writes is an end, to the row it read.
LEMMA CompletionWritesEnd ==
  ASSUME TypeOK, NEW p \in Printers, CompletionWrites(p)
  PROVE  /\ completing[p].row \in Items /\ completing[p].outcome \in Outcomes
         /\ completing[p] # NoEnd
  <1>1. completing[p] # NoEnd
    BY DEF CompletionWrites, NoEnd
  <1>2. completing[p] \in [job : ItemOrNone, outcome : Outcomes, row : ItemOrNone]
    BY <1>1 DEF TypeOK, Ends
  <1> QED BY <1>1, <1>2 DEF CompletionWrites, ItemOrNone

\* So do the printers' reports and the completion callback.
LEMMA TypePrinter ==
  ASSUME TypeOK, NEW p \in Printers, PrinterStep(p)
  PROVE  TypeOK'
  <1>. USE DEF TypeOK, rowVars, taskVars, memoryVars, printerVars, routeVars, historyVars, ItemOrNone
  <1>1. CASE PrinterStarts(p) BY <1>1 DEF PrinterStarts, GcodeStates
  <1>2. CASE PrinterDrops(p)  BY <1>2 DEF PrinterDrops
  <1>3. CASE HandStart(p)     BY <1>3 DEF HandStart, Fault, FaultKinds, GcodeStates
  <1>4. ASSUME NEW o \in Outcomes, PrinterEnds(p, o) PROVE TypeOK'
    <2>1. faults' \in [FaultKinds -> Nat]
      BY <1>4, TypeFault DEF PrinterEnds, FaultKinds
    <2>2. gcode_state' \in [Printers -> GcodeStates]
      <3>1. EndStates[o] \subseteq GcodeStates
        BY DEF EndStates, Outcomes, GcodeStates
      <3> QED BY <1>4, <3>1 DEF PrinterEnds
    <2>3. completing' \in [Printers -> Ends]
      <3>1. [job |-> job[p], outcome |-> o, row |-> NoItem] \in Ends
        BY DEF Ends
      <3> QED BY <1>4, <3>1 DEF PrinterEnds
    <2>5. /\ job' \in [Printers -> ItemOrNone]
          /\ awaiting_plate_clear' \in [Printers -> BOOLEAN]
      BY <1>4 DEF PrinterEnds
    <2>4. UNCHANGED <<rowVars, taskVars, memoryVars, connected, loaded, editing, readers, sends, sent_to>>
      BY <1>4 DEF PrinterEnds
    <2> QED BY <2>1, <2>2, <2>3, <2>4, <2>5
  <1>5. CASE OnPrintComplete(p)
    <2>1. completing[p].outcome \in Statuses
      BY <1>5 DEF OnPrintComplete, Ends, NoEnd, Outcomes, Statuses, Terminal
    <2>2. /\ status' \in [Items -> Statuses]
          /\ reserved' \in [Items -> BOOLEAN]
          /\ completing' \in [Printers -> Ends]
      BY <1>5, <2>1 DEF OnPrintComplete, Printing, Ends
    <2>3. UNCHANGED <<printer_id, pinned, dispatching_at, dispatch_attempts, awaiting_plate_clear,
                 taskVars, memoryVars, printerVars, editing, readers, historyVars>>
      BY <1>5 DEF OnPrintComplete
    <2> QED BY <2>2, <2>3
  <1>10. CASE CompletionReads(p)
    <2>1. PICK i \in Items : completing' = [completing EXCEPT ![p].row = i]
      BY <1>10 DEF CompletionReads, Printing
    <2>5. completing[p] \in [job : ItemOrNone, outcome : Outcomes, row : ItemOrNone]
      BY <1>10 DEF CompletionReads, Ends
    <2>2. [completing[p] EXCEPT !.row = i] \in Ends
      BY <2>5 DEF Ends
    <2>3. completing' \in [Printers -> Ends]
      BY <2>1, <2>2
    <2>4. faults' \in [FaultKinds -> Nat]
      BY <1>10, TypeFault DEF CompletionReads, FaultKinds
    <2> QED BY <1>10, <2>3, <2>4 DEF CompletionReads
  <1>11. CASE CompletionWrites(p)
    <2>1. completing[p].outcome \in Statuses /\ completing[p].row \in Items
      BY <1>11, CompletionWritesEnd DEF Outcomes, Statuses, Terminal
    <2>2. /\ status' \in [Items -> Statuses]
          /\ reserved' \in [Items -> BOOLEAN]
          /\ completing' \in [Printers -> Ends]
      BY <1>11, <2>1 DEF CompletionWrites, Ends
    <2>3. UNCHANGED <<printer_id, pinned, dispatching_at, dispatch_attempts, awaiting_plate_clear,
                 taskVars, memoryVars, printerVars, editing, readers, historyVars>>
      BY <1>11 DEF CompletionWrites
    <2> QED BY <2>2, <2>3
  <1>6. CASE Disconnect(p)    BY <1>6 DEF Disconnect, Fault, FaultKinds
  <1>7. CASE Reconnect(p)     BY <1>7 DEF Reconnect, GcodeStates
  <1>8. CASE ClearPlate(p)    BY <1>8 DEF ClearPlate
  <1>9. CASE ExpireHolds(p)   BY <1>9 DEF ExpireHolds
  <1> QED BY <1>1, <1>2, <1>3, <1>4, <1>5, <1>6, <1>7, <1>8, <1>9, <1>10, <1>11 DEF PrinterStep

\* So does a restart of the backend.
LEMMA TypeRestart ==
  ASSUME TypeOK, Restart
  PROVE  TypeOK'
  BY DEF Restart, TypeOK, Fault, FaultKinds, PrinterOrNone, ItemOrNone, Stages, Ends

\* No step of the queue takes a variable out of its type, provided coroutines
\* and _inflight agree before it.
LEMMA TypeStep == TypeOK /\ LaunchedFor /\ [Next]_vars => TypeOK'
  <1> SUFFICES ASSUME TypeOK, LaunchedFor, [Next]_vars PROVE TypeOK'
    OBVIOUS
  <1>1. CASE UNCHANGED vars
    BY <1>1 DEF vars, rowVars, taskVars, memoryVars, printerVars, routeVars, historyVars, TypeOK
  <1>2. CASE Next
    BY <1>2, TypeLaunch, TypeDispatch, TypeWatchdog, TypeSweep, TypeRoute, TypePrinter, TypeRestart DEF Next
  <1> QED BY <1>1, <1>2

-----------------------------------------------------------------------------
(* A coroutine that is not idle works for a printer.                       *)

\* What the pool of dispatches is made of; most actions leave it alone.
poolVars == <<pc, inflight>>

\* The stages of a dispatch follow each other without touching _inflight.
LEMMA StageStep ==
  ASSUME TypeOK, LaunchedFor, NEW i \in Items, NEW s \in Stages \ {"idle"},
         pc[i] # "idle", pc' = [pc EXCEPT ![i] = s], UNCHANGED inflight
  PROVE  LaunchedFor'
  BY DEF TypeOK, LaunchedFor

\* Nothing but a launch, a dispatch coroutine and a restart touches the pool of
\* dispatches: neither routes nor callbacks, watchdogs or sweeps do.
LEMMA PoolUntouched ==
  ASSUME TypeOK, [Next]_vars,
         ~ \E i \in Items : DispatchStep(i) \/ UploadRefused(i) \/ DispatchRaises(i),
         ~ \E i \in Items, p \in Printers : Launch(i, p),
         ~ Restart
  PROVE  UNCHANGED poolVars
  <1>. USE DEF poolVars, taskVars
  <1>1. CASE UNCHANGED vars
    BY <1>1 DEF vars
  <1>2. ASSUME NEW i \in Items, \/ \E p \in Printers : AssignOnly(i, p)
                               \/ WatchdogStep(i) \/ RouteStep(i)
        PROVE  UNCHANGED poolVars
    BY <1>2 DEF AssignOnly, WatchdogStep, PrinterSeenActive, WatchdogGivesUp, WatchdogReads, RevertWrites,
                WatchdogWriteFails, RouteStep, CancelReads, StopReads, RouteWrites, CancelQueueItem, DeleteQueueItem, StopQueueItem, BulkUpdate, UpdateBegins, UpdateWrites
  <1>3. ASSUME NEW p \in Printers, PrinterStep(p)
        PROVE  UNCHANGED poolVars
    BY <1>3 DEF PrinterStep, PrinterStarts, PrinterDrops, HandStart, PrinterEnds, OnPrintComplete,
                CompletionReads, CompletionWrites, Disconnect, Reconnect, ClearPlate, ExpireHolds
  <1>4. ASSUME NEW elapsed \in SUBSET Printers, CloseStranded(elapsed)
        PROVE  UNCHANGED poolVars
    BY <1>4 DEF CloseStranded
  <1>5. CASE ClearStaleClaims
    BY <1>5 DEF ClearStaleClaims
  <1> QED BY <1>1, <1>2, <1>3, <1>4, <1>5 DEF Next

\* A row is in _inflight exactly while it has a dispatch coroutine: every step
\* that ends one frees the entry, as the finally of _dispatch_one is written to.
LEMMA LaunchedForStep == TypeOK /\ LaunchedFor /\ [Next]_vars => LaunchedFor'
  <1> SUFFICES ASSUME TypeOK, LaunchedFor, [Next]_vars PROVE LaunchedFor'
    OBVIOUS
  <1>1. ASSUME NEW i \in Items, NEW p \in Printers, Launch(i, p)
        PROVE  LaunchedFor'
    BY <1>1, ItemsAssumption DEF Launch, LaunchedFor, TypeOK
  <1>2. ASSUME NEW i \in Items, DispatchStep(i) \/ UploadRefused(i) \/ DispatchRaises(i)
        PROVE  LaunchedFor'
    <2>1. CASE ClaimForDispatch(i)
      BY <2>1 DEF ClaimForDispatch, LaunchedFor, TypeOK
    <2>2. CASE Unwind(i)
      BY <2>2 DEF Unwind, LaunchedFor, TypeOK
    <2>3. CASE ~ClaimForDispatch(i) /\ ~Unwind(i)
      <3>1. /\ pc[i] # "idle" /\ UNCHANGED inflight
            /\ \E s \in Stages \ {"idle"} : pc' = [pc EXCEPT ![i] = s]
        BY <1>2, <2>3 DEF DispatchStep, ReserveBudget, BudgetRefused, FailDispatch, RecheckRow,
           PrinterNotConnected, UploadDone, UploadFailed, MarkPrinting, Publish, DeferUntilIdle,
           SendFailed, UploadRefused, DispatchRaises, InTransit, Stages
      <3> QED BY <3>1, StageStep
    <2> QED BY <2>1, <2>2, <2>3
  <1>3. CASE Restart
    BY <1>3 DEF Restart, LaunchedFor
  <1>4. CASE UNCHANGED poolVars
    BY <1>4 DEF poolVars, LaunchedFor
  <1> QED BY <1>1, <1>2, <1>3, <1>4, PoolUntouched

\* Types hold of every reachable state of the queue; in particular no row gets
\* a status outside the five the frontend and the scheduler know.
THEOREM TypeCorrect == Spec => []TypeOK
  <1>1. Init => TypeOK /\ LaunchedFor
    BY TypeInit DEF Init, LaunchedFor
  <1>2. TypeOK /\ LaunchedFor /\ [Next]_vars => (TypeOK /\ LaunchedFor)'
    BY TypeStep, LaunchedForStep
  <1> QED BY <1>1, <1>2, PTL DEF Spec

-----------------------------------------------------------------------------
(* Bounded retries.                                                        *)

\* Every send is paid for: by a watchdog that will count it, by a row that
\* cannot be dispatched again, or by an attempt already counted.
RetryInv ==
  \A i \in Items :
    /\ sends[i] <= MaxAttempts
    /\ watchdog[i] # NoPrinter => pc[i] \in {"idle", "unwinding"} /\ status[i] # "pending"
    /\ pc[i] = "committed" => status[i] # "pending"
    /\ status[i] = "pending" \/ pc[i] = "committed" =>
         sends[i] <= dispatch_attempts[i] /\ dispatch_attempts[i] < MaxAttempts
    /\ status[i] = "printing" \/ "revert" \in readers[i] =>
         sends[i] <= dispatch_attempts[i] + 1 /\ dispatch_attempts[i] < MaxAttempts
    /\ "revert" \in readers[i] => watchdog[i] # NoPrinter

\* An action that counts nothing and takes no row back to pending.
LEMMA RetryKept ==
  ASSUME RetryInv, UNCHANGED <<sends, dispatch_attempts, watchdog>>,
         \A i \in Items :
           /\ status'[i] = status[i] \/ status'[i] \in Terminal
           /\ pc'[i] = pc[i] \/ pc'[i] \in {"idle", "unwinding"} \/ (watchdog[i] = NoPrinter /\ pc'[i] # "committed")
           /\ "revert" \in readers'[i] => "revert" \in readers[i]
  PROVE  RetryInv'
  BY DEF RetryInv, Terminal

\* Requests read and write rows, and none starts a revert.
LEMMA RouteReaders ==
  ASSUME TypeOK, NEW i \in Items, RouteStep(i)
  PROVE  \A j \in Items : "revert" \in readers'[j] => "revert" \in readers[j]
  <1>. USE DEF TypeOK, routeVars
  <1>1. CASE CancelQueueItem(i) \/ StopQueueItem(i) \/ UpdateWrites(i)
    BY <1>1 DEF CancelQueueItem, StopQueueItem, UpdateWrites
  <1>2. ASSUME NEW q \in Printers, BulkUpdate(i, q) \/ UpdateBegins(i, q)
        PROVE  UNCHANGED readers
    BY <1>2 DEF BulkUpdate, UpdateBegins
  <1>3. CASE DeleteQueueItem(i)
    BY <1>3 DEF DeleteQueueItem
  <1>4. CASE CancelReads(i) \/ StopReads(i)
    <2>1. PICK k \in {"cancel", "stop"} : readers' = [readers EXCEPT ![i] = @ \cup {k}]
      BY <1>4 DEF CancelReads, StopReads
    <2> QED BY <2>1
  <1>5. ASSUME NEW reader \in Readers, RouteWrites(i, reader)
        PROVE  \A j \in Items : "revert" \in readers'[j] => "revert" \in readers[j]
    BY <1>5 DEF RouteWrites
  <1> QED BY <1>1, <1>2, <1>3, <1>4, <1>5 DEF RouteStep

\* No step sends a row that has not been paid for: only a start that failed
\* takes a printing row back to pending after a send, and it counts.
LEMMA RetryStep == TypeOK /\ RetryInv /\ [Next]_vars => RetryInv'
  <1> SUFFICES ASSUME TypeOK, RetryInv, [Next]_vars PROVE RetryInv'
    OBVIOUS
  <1>1. CASE UNCHANGED vars
    BY <1>1 DEF vars, rowVars, taskVars, memoryVars, routeVars, historyVars, RetryInv
  <1>2. ASSUME NEW i \in Items, NEW p \in Printers, Launch(i, p) \/ AssignOnly(i, p)
        PROVE  RetryInv'
    BY <1>2, RetryKept DEF Launch, AssignOnly, Selectable, RetryInv, TypeOK, taskVars, memoryVars, routeVars, historyVars
  <1>3. ASSUME NEW i \in Items, DispatchStep(i) \/ UploadRefused(i) \/ DispatchRaises(i)
        PROVE  RetryInv'
    <2>. USE DEF TypeOK, rowVars, memoryVars, routeVars, historyVars
    <2>1. CASE ClaimForDispatch(i)
      BY <2>1, RetryKept DEF ClaimForDispatch, RetryInv
    <2>2. CASE ReserveBudget(i)
      BY <2>2, RetryKept DEF ReserveBudget, RetryInv
    <2>3. CASE RecheckRow(i)
      BY <2>3, RetryKept DEF RecheckRow, RetryInv
    <2>4. CASE UploadDone(i)
      BY <2>4, RetryKept DEF UploadDone, RetryInv
    <2>5. CASE BudgetRefused(i) \/ PrinterNotConnected(i) \/ UploadFailed(i) \/ SendFailed(i)
      BY <2>5, RetryKept DEF BudgetRefused, PrinterNotConnected, UploadFailed, SendFailed, FailDispatch,
         Failed, Terminal
    <2>6. CASE UploadRefused(i) \/ DispatchRaises(i)
      BY <2>6, RetryKept DEF UploadRefused, DispatchRaises
    <2>7. CASE Unwind(i)
      BY <2>7, RetryKept DEF Unwind
    <2>8. CASE MarkPrinting(i)
      BY <2>8 DEF MarkPrinting, RetryInv
    <2>9. CASE DeferUntilIdle(i)
      BY <2>9 DEF DeferUntilIdle, Deferred, RetryInv
    <2>10. CASE Publish(i)
      <3>1. /\ sends' = [sends EXCEPT ![i] = @ + 1]
            /\ watchdog' = [watchdog EXCEPT ![i] = inflight[i]]
            /\ pc' = [pc EXCEPT ![i] = "unwinding"] /\ pc[i] = "committed"
            /\ UNCHANGED <<status, dispatch_attempts, readers>>
        BY <2>10 DEF Publish
      <3> QED BY <3>1, LimitsAssumption DEF RetryInv
    <2> QED BY <1>3, <2>1, <2>2, <2>3, <2>4, <2>5, <2>6, <2>7, <2>8, <2>9, <2>10 DEF DispatchStep
  <1>4. ASSUME NEW i \in Items, PrinterSeenActive(i) \/ WatchdogReads(i) \/ WatchdogWriteFails(i)
        PROVE  RetryInv'
    <2>. USE DEF rowVars, taskVars, routeVars, historyVars, RetryInv, TypeOK
    <2>1. CASE PrinterSeenActive(i)  BY <2>1 DEF PrinterSeenActive, Watched
    <2>2. CASE WatchdogReads(i)      BY <2>2 DEF WatchdogReads, Watched
    <2>3. CASE WatchdogWriteFails(i) BY <2>3 DEF WatchdogWriteFails
    <2> QED BY <1>4, <2>1, <2>2, <2>3
  <1>5. ASSUME NEW i \in Items, NEW rejected \in BOOLEAN, WatchdogGivesUp(i, rejected) \/ RevertWrites(i, rejected)
        PROVE  RetryInv'
    <2>1. /\ watchdog[i] # NoPrinter
          /\ watchdog' = [watchdog EXCEPT ![i] = NoPrinter]
          /\ UNCHANGED <<pc, sends>>
      BY <1>5 DEF WatchdogGivesUp, RevertWrites, Watched, taskVars, historyVars, RetryInv
    <2>2. /\ "revert" \notin readers'[i]
          /\ \A j \in Items : j # i => readers'[j] = readers[j]
      BY <1>5 DEF WatchdogGivesUp, RevertWrites, Watched, routeVars, TypeOK
    <2>3. CASE RevertRow(i, rejected) /\ (status[i] = "printing" \/ "revert" \in readers[i])
      <3>1. /\ dispatch_attempts' = [dispatch_attempts EXCEPT ![i] = @ + 1]
            /\ \/ status' = [status EXCEPT ![i] = "failed"]
               \/ /\ status' = [status EXCEPT ![i] = "pending"]
                  /\ ~(dispatch_attempts[i] + 1 >= MaxAttempts)
        BY <2>3 DEF RevertRow, Tries
      <3> QED BY <2>1, <2>2, <2>3, <3>1, LimitsAssumption DEF RetryInv, TypeOK
    <2>4. CASE UNCHANGED <<status, dispatch_attempts>>
      BY <2>1, <2>2, <2>4 DEF RetryInv, TypeOK
    <2> QED BY <1>5, <2>3, <2>4 DEF WatchdogGivesUp, RevertWrites
  <1>6. ASSUME NEW i \in Items, RouteStep(i)
        PROVE  RetryInv'
    <2>1. /\ \A j \in Items : status'[j] = status[j] \/ status'[j] \in Terminal
          /\ UNCHANGED <<sends, dispatch_attempts, watchdog, pc>>
      BY <1>6 DEF RouteStep, CancelQueueItem, DeleteQueueItem, StopQueueItem, BulkUpdate, UpdateBegins,
         UpdateWrites, CancelReads, StopReads, RouteWrites, TypeOK, Terminal, rowVars, taskVars, memoryVars,
         historyVars
    <2>2. \A j \in Items : "revert" \in readers'[j] => "revert" \in readers[j]
      BY <1>6, RouteReaders
    <2> QED BY <2>1, <2>2, RetryKept
  <1>7. ASSUME NEW p \in Printers, PrinterStep(p)
        PROVE  RetryInv'
    <2>1. CASE OnPrintComplete(p)
      <3>1. completing[p].outcome \in Terminal
        BY <2>1 DEF OnPrintComplete, TypeOK, Ends, NoEnd, Outcomes, Terminal
      <3> QED BY <2>1, <3>1, RetryKept DEF OnPrintComplete, Printing, TypeOK, taskVars, memoryVars, historyVars
    <2>2. CASE CompletionWrites(p)
      <3>1. completing[p].outcome \in Terminal
        BY <2>2, CompletionWritesEnd DEF Outcomes, Terminal
      <3> QED BY <2>2, <3>1, RetryKept DEF CompletionWrites, TypeOK, taskVars, memoryVars, historyVars
    <2>3. CASE ~OnPrintComplete(p) /\ ~CompletionWrites(p)
      BY <1>7, <2>3, RetryKept DEF PrinterStep, PrinterStarts, PrinterDrops, HandStart, PrinterEnds,
         CompletionReads, Disconnect, Reconnect, ClearPlate, ExpireHolds, rowVars, taskVars, memoryVars,
         routeVars, historyVars
    <2> QED BY <2>1, <2>2, <2>3
  <1>8. ASSUME NEW elapsed \in SUBSET Printers, CloseStranded(elapsed)
        PROVE  RetryInv'
    <2>1. \A i \in Items : status'[i] = status[i] \/ status'[i] \in Terminal
      BY <1>8 DEF CloseStranded, TypeOK, StateOutcome, TerminalState, Active, GcodeStates, Terminal,
         PrinterOrNone
    <2>2. UNCHANGED <<sends, dispatch_attempts, watchdog, pc, readers>>
      BY <1>8 DEF CloseStranded, taskVars, routeVars, historyVars
    <2> QED BY <2>1, <2>2, RetryKept
  <1>9. CASE ClearStaleClaims
    BY <1>9, RetryKept DEF ClearStaleClaims, taskVars, memoryVars, routeVars, historyVars
  <1>10. CASE Restart
    BY <1>10 DEF Restart, RetryInv
  <1> QED BY <1>1, <1>2, <1>3, <1>4, <1>5, <1>6, <1>7, <1>8, <1>9, <1>10 DEF Next, WatchdogStep

\* Types, coroutines and the account of the sends, in every state.
LEMMA RetryInvHolds == Spec => [](TypeOK /\ LaunchedFor /\ RetryInv)
  <1>1. Init => TypeOK /\ LaunchedFor /\ RetryInv
    BY TypeInit, LimitsAssumption DEF Init, LaunchedFor, RetryInv
  <1>2. TypeOK /\ LaunchedFor /\ RetryInv /\ [Next]_vars => (TypeOK /\ LaunchedFor /\ RetryInv)'
    BY TypeStep, LaunchedForStep, RetryStep
  <1> QED BY <1>1, <1>2, PTL DEF Spec

\* No row is sent more than DISPATCH_MAX_ATTEMPTS times, whatever edits, faults
\* and restarts come between: dispatch_attempts is persistent, and the watchdog
\* counts before it reverts.
THEOREM RetriesAreBounded == Spec => []RetryBudget
  <1>1. RetryInv => RetryBudget
    BY DEF RetryInv, RetryBudget
  <1> QED BY <1>1, RetryInvHolds, PTL

-----------------------------------------------------------------------------
(* A claimed row stays with its printer.                                   *)

\* A dispatch between its claim and its end keeps the claim on the row, and a
\* row that is still open keeps the printer it was claimed for: every edit looks
\* at dispatching_at before it writes, and the stale-claim sweep waits until no
\* dispatch is in flight.
LEMMA ClaimHoldsStep ==
  TypeOK /\ LaunchedFor /\ RetryInv /\ ClaimHolds /\ [Next]_vars => ClaimHolds'
  <1> SUFFICES ASSUME TypeOK, LaunchedFor, RetryInv, ClaimHolds, [Next]_vars PROVE ClaimHolds'
    OBVIOUS
  <1>. USE DEF TypeOK, ClaimHolds, InTransit
  <1>1. CASE UNCHANGED vars
    BY <1>1 DEF vars, rowVars, taskVars
  <1>2. ASSUME NEW i \in Items, NEW p \in Printers, Launch(i, p) \/ AssignOnly(i, p)
        PROVE  ClaimHolds'
    <2>1. CASE Launch(i, p)     BY <2>1 DEF Launch
    <2>2. CASE AssignOnly(i, p) BY <2>2 DEF AssignOnly, Selectable, LaunchedFor, taskVars
    <2> QED BY <1>2, <2>1, <2>2
  <1>3. ASSUME NEW i \in Items, DispatchStep(i) \/ UploadRefused(i) \/ DispatchRaises(i)
        PROVE  ClaimHolds'
    <2>1. CASE ClaimForDispatch(i)    BY <2>1 DEF ClaimForDispatch
    <2>2. CASE ReserveBudget(i)       BY <2>2 DEF ReserveBudget
    <2>3. CASE BudgetRefused(i)       BY <2>3 DEF BudgetRefused, FailDispatch, Failed
    <2>4. CASE RecheckRow(i)          BY <2>4 DEF RecheckRow, rowVars
    <2>5. CASE PrinterNotConnected(i) BY <2>5 DEF PrinterNotConnected, FailDispatch, Failed
    <2>6. CASE UploadDone(i)          BY <2>6 DEF UploadDone, rowVars
    <2>7. CASE UploadFailed(i)        BY <2>7 DEF UploadFailed, FailDispatch, Failed
    <2>8. CASE MarkPrinting(i)        BY <2>8 DEF MarkPrinting
    <2>9. CASE Publish(i)             BY <2>9 DEF Publish, rowVars
    <2>10. CASE DeferUntilIdle(i)     BY <2>10 DEF DeferUntilIdle, Deferred
    <2>11. CASE SendFailed(i)         BY <2>11 DEF SendFailed, FailDispatch, Failed
    <2>12. CASE Unwind(i)             BY <2>12 DEF Unwind
    <2>13. CASE UploadRefused(i)      BY <2>13 DEF UploadRefused
    <2>14. CASE DispatchRaises(i)     BY <2>14 DEF DispatchRaises, rowVars
    <2> QED BY <1>3, <2>1, <2>2, <2>3, <2>4, <2>5, <2>6, <2>7, <2>8, <2>9, <2>10, <2>11, <2>12, <2>13, <2>14
            DEF DispatchStep
  <1>4. ASSUME NEW i \in Items, WatchdogStep(i)
        PROVE  ClaimHolds'
    <2>1. watchdog[i] # NoPrinter => pc[i] \in {"idle", "unwinding"}
      BY DEF RetryInv
    <2>2. "revert" \in readers[i] => watchdog[i] # NoPrinter
      BY DEF RetryInv
    <2> QED BY <1>4, <2>1, <2>2 DEF WatchdogStep, PrinterSeenActive, WatchdogGivesUp, WatchdogReads, RevertWrites,
               RevertRow, Watched, WatchdogWriteFails, rowVars, taskVars
  <1>5. ASSUME NEW i \in Items, RouteStep(i)
        PROVE  ClaimHolds'
    BY <1>5 DEF RouteStep, CancelReads, StopReads, RouteWrites, CancelQueueItem, DeleteQueueItem, StopQueueItem, BulkUpdate, UpdateBegins,
                UpdateWrites, rowVars, taskVars
  <1>6. ASSUME NEW p \in Printers, PrinterStep(p)
        PROVE  ClaimHolds'
    <2>1. CASE OnPrintComplete(p)
      BY <2>1 DEF OnPrintComplete, Printing, taskVars
    <2>2. CASE CompletionWrites(p)
      <3>1. completing[p].outcome \in Outcomes
        BY <2>2, CompletionWritesEnd
      <3> QED BY <2>2, <3>1 DEF CompletionWrites, Outcomes, taskVars
    <2>3. CASE ~OnPrintComplete(p) /\ ~CompletionWrites(p)
      BY <1>6, <2>3 DEF PrinterStep, PrinterStarts, PrinterDrops, HandStart, PrinterEnds, CompletionReads,
         Disconnect, Reconnect, ClearPlate, ExpireHolds, rowVars, taskVars
    <2> QED BY <2>1, <2>2, <2>3
  <1>7. ASSUME NEW elapsed \in SUBSET Printers, CloseStranded(elapsed)
        PROVE  ClaimHolds'
    BY <1>7 DEF CloseStranded, taskVars
  <1>8. CASE ClearStaleClaims
    BY <1>8 DEF ClearStaleClaims, InFlight, LaunchedFor, taskVars
  <1>9. CASE Restart
    BY <1>9 DEF Restart
  <1> QED BY <1>1, <1>2, <1>3, <1>4, <1>5, <1>6, <1>7, <1>8, <1>9 DEF Next

\* A row being uploaded stays with the printer the file goes to, for any number
\* of rows and printers, both edit routes and every fault: the guarantee
\* _claim_for_dispatch and the two re-checks of dispatching_at give together.
THEOREM ClaimedRowStays == Spec => []NotReassignedInFlight
  <1>1. Init => ClaimHolds
    BY DEF Init, ClaimHolds, InTransit
  <1>2. ClaimHolds => NotReassignedInFlight
    BY DEF ClaimHolds, NotReassignedInFlight
  <1> QED BY <1>1, <1>2, ClaimHoldsStep, RetryInvHolds, PTL DEF Spec

-----------------------------------------------------------------------------
(* Exclusive printers.  An edit by PATCH /{id} writes to a row that may have  *)
(* begun to print, so it is assumed away here.                             *)

\* What the invariant says once the parts proved above are set apart.
Exclusive ==
  /\ \A i \in Items : (status[i] = "printing" => printer_id[i] # NoPrinter) /\ editing[i] = NoPrinter
  /\ OneRowPerPrinter
  /\ OneDispatchPerPrinter

\* No step gives a printer to two rows when PATCH /{id} is not used: a launch
\* takes a printer that is not Busy, a launched coroutine keeps the printer
\* until its finally, and a row that became printing keeps it after that.
LEMMA ExclusiveStep ==
  ASSUME "single" \notin EditRoutes
  PROVE  TypeOK /\ DispatchInv /\ [Next]_vars => Exclusive'
  <1> SUFFICES ASSUME TypeOK, DispatchInv, [Next]_vars PROVE Exclusive'
    OBVIOUS
  <1>. USE DEF TypeOK, Exclusive, OneRowPerPrinter, OneDispatchPerPrinter
  <1>0. Exclusive /\ LaunchedFor /\ ClaimHolds
    BY DEF DispatchInv
  <1>1. CASE UNCHANGED vars
    BY <1>0, <1>1 DEF vars, rowVars, taskVars, routeVars
  <1>2. ASSUME NEW i \in Items, NEW p \in Printers, Launch(i, p) \/ AssignOnly(i, p)
        PROVE  Exclusive'
    <2>1. CASE Launch(i, p)
      BY <1>0, <2>1 DEF Launch, Selectable, Busy, Printing, routeVars
    <2>2. CASE AssignOnly(i, p)
      BY <1>0, <2>2 DEF AssignOnly, Selectable, Busy, Printing, taskVars, routeVars
    <2> QED BY <1>2, <2>1, <2>2
  <1>3. ASSUME NEW i \in Items, DispatchStep(i) \/ UploadRefused(i) \/ DispatchRaises(i)
        PROVE  Exclusive'
    <2>. USE <1>0 DEF routeVars
    <2>1. CASE ClaimForDispatch(i)    BY <2>1 DEF ClaimForDispatch
    <2>2. CASE ReserveBudget(i)       BY <2>2 DEF ReserveBudget
    <2>3. CASE BudgetRefused(i)       BY <2>3 DEF BudgetRefused, FailDispatch, Failed
    <2>4. CASE RecheckRow(i)          BY <2>4 DEF RecheckRow, rowVars
    <2>5. CASE PrinterNotConnected(i) BY <2>5 DEF PrinterNotConnected, FailDispatch, Failed
    <2>6. CASE UploadDone(i)          BY <2>6 DEF UploadDone, rowVars
    <2>7. CASE UploadFailed(i)        BY <2>7 DEF UploadFailed, FailDispatch, Failed
    <2>8. CASE MarkPrinting(i)
      <3>1. inflight[i] # NoPrinter
        BY <2>8 DEF MarkPrinting, LaunchedFor
      <3>2. status[i] = "pending" => printer_id[i] = inflight[i]
        BY <2>8 DEF MarkPrinting, ClaimHolds, InTransit
      <3>3. UNCHANGED <<printer_id, inflight, editing>>
        BY <2>8 DEF MarkPrinting
      <3>4. CASE status[i] = "pending"
        <4>1. status' = [status EXCEPT ![i] = "printing"]
          BY <2>8, <3>4 DEF MarkPrinting
        <4> QED BY <3>1, <3>2, <3>3, <3>4, <4>1
      <3>5. CASE status[i] # "pending"
        BY <2>8, <3>3, <3>5 DEF MarkPrinting
      <3> QED BY <3>4, <3>5
    <2>9. CASE Publish(i)             BY <2>9 DEF Publish, rowVars
    <2>10. CASE DeferUntilIdle(i)     BY <2>10 DEF DeferUntilIdle, Deferred
    <2>11. CASE SendFailed(i)         BY <2>11 DEF SendFailed, FailDispatch, Failed
    <2>12. CASE Unwind(i)             BY <2>12 DEF Unwind
    <2>13. CASE UploadRefused(i)      BY <2>13 DEF UploadRefused
    <2>14. CASE DispatchRaises(i)     BY <2>14 DEF DispatchRaises, rowVars
    <2> QED BY <1>3, <2>1, <2>2, <2>3, <2>4, <2>5, <2>6, <2>7, <2>8, <2>9, <2>10, <2>11, <2>12, <2>13, <2>14
            DEF DispatchStep
  <1>4. ASSUME NEW i \in Items, WatchdogStep(i)
        PROVE  Exclusive'
    <2>1. \A j \in Items : status'[j] = "printing" => status[j] = "printing"
      BY <1>4 DEF WatchdogStep, PrinterSeenActive, WatchdogGivesUp, WatchdogReads, RevertWrites, RevertRow,
         WatchdogWriteFails, rowVars
    <2>2. UNCHANGED <<printer_id, inflight, editing>>
      BY <1>4 DEF WatchdogStep, PrinterSeenActive, WatchdogGivesUp, WatchdogReads, RevertWrites, WatchdogWriteFails,
         rowVars, taskVars, routeVars
    <2> QED BY <1>0, <2>1, <2>2
  <1>5. ASSUME NEW i \in Items, RouteStep(i)
        PROVE  Exclusive'
    <2>. USE <1>0 DEF routeVars, taskVars
    <2>1. CASE CancelQueueItem(i) BY <2>1 DEF CancelQueueItem
    <2>2. CASE DeleteQueueItem(i) BY <2>2 DEF DeleteQueueItem
    <2>3. CASE StopQueueItem(i)   BY <2>3 DEF StopQueueItem
    <2>4. ASSUME NEW q \in Printers, BulkUpdate(i, q) PROVE Exclusive'
      BY <2>4 DEF BulkUpdate
    <2>5. ASSUME NEW q \in Printers, UpdateBegins(i, q) PROVE Exclusive'
      BY <2>5 DEF UpdateBegins
    <2>6. CASE UpdateWrites(i)    BY <2>6 DEF UpdateWrites
    <2>7. CASE CancelReads(i) \/ StopReads(i)
      BY <2>7 DEF CancelReads, StopReads, rowVars
    <2>8. ASSUME NEW reader \in Readers, RouteWrites(i, reader) PROVE Exclusive'
      BY <2>8 DEF RouteWrites
    <2> QED BY <1>5, <2>1, <2>2, <2>3, <2>4, <2>5, <2>6, <2>7, <2>8 DEF RouteStep
  <1>6. ASSUME NEW p \in Printers, PrinterStep(p)
        PROVE  Exclusive'
    <2>1. CASE OnPrintComplete(p)
      <3>1. completing[p].outcome # "printing"
        BY <2>1 DEF OnPrintComplete, Ends, NoEnd, Outcomes
      <3> QED BY <1>0, <2>1, <3>1 DEF OnPrintComplete, Printing, taskVars
    <2>2. CASE CompletionWrites(p)
      <3>1. completing[p].outcome # "printing"
        BY <2>2, CompletionWritesEnd DEF Outcomes
      <3> QED BY <1>0, <2>2, <3>1 DEF CompletionWrites, taskVars
    <2>3. CASE ~OnPrintComplete(p) /\ ~CompletionWrites(p)
      BY <1>0, <1>6, <2>3 DEF PrinterStep, PrinterStarts, PrinterDrops, HandStart, PrinterEnds, CompletionReads,
         Disconnect, Reconnect, ClearPlate, ExpireHolds, rowVars, taskVars, routeVars
    <2> QED BY <2>1, <2>2, <2>3
  <1>7. ASSUME NEW elapsed \in SUBSET Printers, CloseStranded(elapsed)
        PROVE  Exclusive'
    <2>1. \A i \in Items : status'[i] = "printing" => status[i] = "printing"
      BY <1>7 DEF CloseStranded
    <2>2. UNCHANGED <<printer_id, inflight, editing>>
      BY <1>7 DEF CloseStranded, taskVars, routeVars
    <2> QED BY <1>0, <2>1, <2>2
  <1>8. CASE ClearStaleClaims
    BY <1>0, <1>8 DEF ClearStaleClaims, taskVars, routeVars
  <1>9. CASE Restart
    BY <1>0, <1>9 DEF Restart
  <1> QED BY <1>1, <1>2, <1>3, <1>4, <1>5, <1>6, <1>7, <1>8, <1>9 DEF Next

\* The whole invariant holds of every reachable state when PATCH /{id} is not
\* used: the argument why check_queue's busy set is enough.
THEOREM DispatchInvHolds ==
  ASSUME "single" \notin EditRoutes
  PROVE  Spec => []DispatchInv
  <1>1. Init => DispatchInv
    BY DEF Init, DispatchInv, LaunchedFor, ClaimHolds, InTransit, OneRowPerPrinter, OneDispatchPerPrinter
  <1>2. TypeOK /\ RetryInv /\ DispatchInv /\ [Next]_vars => DispatchInv'
    BY LaunchedForStep, ClaimHoldsStep, ExclusiveStep DEF DispatchInv, Exclusive
  <1> QED BY <1>1, <1>2, RetryInvHolds, PTL DEF Spec

\* No two rows print on one printer (what main.py logs as a BUG), if rows are
\* edited by PATCH /bulk alone; run single_edit shows why the premise is needed.
THEOREM PrinterPrintsOneRow ==
  ASSUME "single" \notin EditRoutes
  PROVE  Spec => []OneRowPerPrinter
  <1>1. DispatchInv => OneRowPerPrinter
    BY DEF DispatchInv
  <1> QED BY <1>1, DispatchInvHolds, PTL

\* No two dispatch coroutines work for one printer, and none for a printer on
\* which another row is printing, under the same premise.
THEOREM PrinterHasOneDispatch ==
  ASSUME "single" \notin EditRoutes
  PROVE  Spec => []OneDispatchPerPrinter
  <1>1. DispatchInv => OneDispatchPerPrinter
    BY DEF DispatchInv
  <1> QED BY <1>1, DispatchInvHolds, PTL

-----------------------------------------------------------------------------
(* Finality.                                                               *)

\* Who may change an end: what read the row before it ended; and who may open the
\* row again: the watchdog's revert alone.
EndKept(r) == /\ status'[r] # status[r] => Overwrites(r)
              /\ status'[r] \notin Terminal => "revert" \in readers[r]

\* Every other write of a status looks at the status in the same statement, or
\* with nothing in between.
LEMMA OverStep ==
  ASSUME TypeOK, [Next]_vars, NEW r \in Items, status[r] \in Terminal
  PROVE  EndKept(r)
  <1>. USE DEF TypeOK, Terminal
  <1>0. SUFFICES ASSUME status'[r] # status[r] PROVE EndKept(r)
    BY DEF EndKept
  <1>1. CASE UNCHANGED vars
    BY <1>0, <1>1 DEF vars, rowVars
  <1>2. ASSUME NEW i \in Items, NEW p \in Printers, Launch(i, p) \/ AssignOnly(i, p)
        PROVE  FALSE
    BY <1>0, <1>2 DEF Launch, AssignOnly
  <1>3. ASSUME NEW i \in Items, DispatchStep(i) \/ UploadRefused(i) \/ DispatchRaises(i)
        PROVE  FALSE
    BY <1>0, <1>3 DEF DispatchStep, ClaimForDispatch, ReserveBudget, BudgetRefused, RecheckRow, UploadDone,
       PrinterNotConnected, UploadFailed, FailDispatch, Failed, MarkPrinting, Publish, DeferUntilIdle, Deferred,
       SendFailed, Unwind, UploadRefused, DispatchRaises, rowVars
  <1>4. ASSUME NEW i \in Items, WatchdogStep(i)
        PROVE  EndKept(r)
    <2>1. "revert" \in readers[i] /\ r = i
      BY <1>0, <1>4 DEF WatchdogStep, PrinterSeenActive, WatchdogGivesUp, WatchdogReads, RevertWrites, RevertRow,
         WatchdogWriteFails, rowVars
    <2> QED BY <2>1 DEF EndKept, Overwrites
  <1>5. ASSUME NEW i \in Items, RouteStep(i)
        PROVE  EndKept(r)
    <2>1. CASE \E reader \in Readers : RouteWrites(i, reader)
      BY <1>0, <2>1 DEF RouteWrites, EndKept, Overwrites
    <2>2. CASE ~ \E reader \in Readers : RouteWrites(i, reader)
      BY <1>0, <1>5, <2>2 DEF RouteStep, CancelQueueItem, DeleteQueueItem, StopQueueItem, BulkUpdate,
         UpdateBegins, UpdateWrites, CancelReads, StopReads, rowVars
    <2> QED BY <2>1, <2>2
  <1>6. ASSUME NEW p \in Printers, PrinterStep(p)
        PROVE  EndKept(r)
    <2>1. CASE CompletionWrites(p)
      <3>1. r = completing[p].row /\ completing[p] # NoEnd
        BY <1>0, <2>1, CompletionWritesEnd DEF CompletionWrites
      <3>2. completing[p].outcome \in Outcomes
        BY <2>1, CompletionWritesEnd
      <3>3. status'[r] \in Terminal
        BY <2>1, <3>1, <3>2 DEF CompletionWrites, Outcomes
      <3> QED BY <3>1, <3>3 DEF EndKept, Overwrites
    <2>2. CASE ~CompletionWrites(p)
      BY <1>0, <1>6, <2>2 DEF PrinterStep, PrinterStarts, PrinterDrops, HandStart, PrinterEnds, OnPrintComplete,
         CompletionReads, Printing, Disconnect, Reconnect, ClearPlate, ExpireHolds, rowVars
    <2> QED BY <2>1, <2>2
  <1>7. ASSUME NEW elapsed \in SUBSET Printers, CloseStranded(elapsed)
        PROVE  FALSE
    BY <1>0, <1>7 DEF CloseStranded
  <1>8. CASE ClearStaleClaims \/ Restart
    BY <1>0, <1>8 DEF ClearStaleClaims, Restart
  <1> QED BY <1>1, <1>2, <1>3, <1>4, <1>5, <1>6, <1>7, <1>8 DEF Next

\* An end stands against everything but a handler that had read the row before and
\* writes it by its id: no failure, deferral or start of a dispatch and no sweep
\* undoes a cancel, a stop or a completion, and only _do_revert can reopen a row.
THEOREM EndsStand == Spec => EndStandsUnlessCrossed
  <1>1. TypeOK /\ [Next]_vars =>
          [\A i \in Items : status[i] \in Terminal =>
             /\ status'[i] # status[i] => Overwrites(i)
             /\ status'[i] \notin Terminal => "revert" \in readers[i]]_vars
    BY OverStep DEF EndKept
  <1> QED BY <1>1, TypeCorrect, PTL DEF Spec, EndStandsUnlessCrossed

-----------------------------------------------------------------------------
(* What the actors leave alone: lemmas the modules that extend this one cite. *)

\* Types hold, and a coroutine that runs works for a printer, in every state.
LEMMA DispatchTypes == Spec => [](TypeOK /\ LaunchedFor)
  <1>1. Init => TypeOK /\ LaunchedFor
    BY TypeInit DEF Init, LaunchedFor
  <1>2. TypeOK /\ LaunchedFor /\ [Next]_vars => (TypeOK /\ LaunchedFor)'
    BY TypeStep, LaunchedForStep
  <1> QED BY <1>1, <1>2, PTL DEF Spec

\* What the rest of the backend (routes, callbacks, watchdogs, sweeps) may do to a
\* dispatch: give back its reservation or its claim and withdraw expectations, never
\* make any of them, begin a print or send one.
LEMMA OtherSteps ==
  ASSUME TypeOK, [Next]_vars,
         ~ \E i \in Items : DispatchStep(i) \/ UploadRefused(i) \/ DispatchRaises(i),
         ~ \E i \in Items, p \in Printers : Launch(i, p),
         ~ Restart
  PROVE  /\ UNCHANGED <<pc, inflight, unconfirmed, sends, sent_to>>
         /\ \A i \in Items : dispatching_at'[i] => dispatching_at[i]
         /\ \A i \in Items : reserved'[i] => reserved[i]
         /\ \A i \in Items : status'[i] = "printing" => status[i] = "printing"
         /\ \A p \in Printers : expected_prints'[p] \subseteq expected_prints[p]
  <1> DEFINE Leaves == /\ UNCHANGED <<pc, inflight, unconfirmed, sends, sent_to>>
                       /\ \A i \in Items : dispatching_at'[i] => dispatching_at[i]
                       /\ \A i \in Items : reserved'[i] => reserved[i]
                       /\ \A i \in Items : status'[i] = "printing" => status[i] = "printing"
                       /\ \A p \in Printers : expected_prints'[p] \subseteq expected_prints[p]
  <1>. USE DEF TypeOK, rowVars, taskVars, memoryVars, historyVars
  <1>1. CASE UNCHANGED vars
    BY <1>1 DEF vars
  <1>2. ASSUME NEW i \in Items, NEW p \in Printers, AssignOnly(i, p) PROVE Leaves
    BY <1>2 DEF AssignOnly
  <1>3. ASSUME NEW i \in Items, WatchdogStep(i) PROVE Leaves
    <2>1. CASE PrinterSeenActive(i)  BY <2>1 DEF PrinterSeenActive
    <2>2. CASE WatchdogWriteFails(i) BY <2>2 DEF WatchdogWriteFails
    <2>4. CASE WatchdogReads(i)      BY <2>4 DEF WatchdogReads
    <2>3. ASSUME NEW rejected \in BOOLEAN, WatchdogGivesUp(i, rejected) \/ RevertWrites(i, rejected) PROVE Leaves
      <3>1. \A p \in Printers : expected_prints'[p] \subseteq expected_prints[p]
        BY <2>3 DEF WatchdogGivesUp, RevertWrites, RevertRow, ForgetUnstarted
      <3>2. /\ \A j \in Items : reserved'[j] => reserved[j]
            /\ \A j \in Items : status'[j] = "printing" => status[j] = "printing"
        BY <2>3 DEF WatchdogGivesUp, RevertWrites, RevertRow
      <3>3. /\ UNCHANGED <<pc, inflight, unconfirmed, sends, sent_to>>
            /\ \A j \in Items : dispatching_at'[j] => dispatching_at[j]
        BY <2>3 DEF WatchdogGivesUp, RevertWrites
      <3> QED BY <3>1, <3>2, <3>3
    <2> QED BY <1>3, <2>1, <2>2, <2>3, <2>4 DEF WatchdogStep
  <1>4. ASSUME NEW i \in Items, RouteStep(i) PROVE Leaves
    <2>1. CASE CancelQueueItem(i) BY <2>1 DEF CancelQueueItem
    <2>5. CASE DeleteQueueItem(i) BY <2>5 DEF DeleteQueueItem
    <2>6. CASE StopQueueItem(i)   BY <2>6 DEF StopQueueItem
    <2>2. CASE CancelReads(i) \/ StopReads(i) \/ UpdateWrites(i)
      BY <2>2 DEF CancelReads, StopReads, UpdateWrites
    <2>3. ASSUME NEW reader \in Readers, RouteWrites(i, reader) PROVE Leaves
      BY <2>3 DEF RouteWrites
    <2>4. ASSUME NEW q \in Printers, BulkUpdate(i, q) \/ UpdateBegins(i, q) PROVE Leaves
      BY <2>4 DEF BulkUpdate, UpdateBegins
    <2> QED BY <1>4, <2>1, <2>2, <2>3, <2>4, <2>5, <2>6 DEF RouteStep
  <1>5. ASSUME NEW p \in Printers, PrinterStep(p) PROVE Leaves
    <2>1. CASE OnPrintComplete(p)
      <3>1. completing[p].outcome # "printing"
        BY <2>1 DEF OnPrintComplete, Ends, NoEnd, Outcomes
      <3>2. \A i \in Items : status'[i] = "printing" => status[i] = "printing"
        BY <2>1, <3>1 DEF OnPrintComplete, Printing
      <3>3. \A i \in Items : reserved'[i] => reserved[i]
        BY <2>1 DEF OnPrintComplete
      <3> QED BY <2>1, <3>2, <3>3 DEF OnPrintComplete
    <2>2. CASE PrinterStarts(p)
      BY <2>2 DEF PrinterStarts
    <2>6. CASE PrinterDrops(p) \/ HandStart(p)
      BY <2>6 DEF PrinterDrops, HandStart
    <2>5. ASSUME NEW o \in Outcomes, PrinterEnds(p, o) PROVE Leaves
      <3>1. UNCHANGED <<rowVars, taskVars, memoryVars, sends, sent_to>>
        BY <2>5 DEF PrinterEnds
      <3> QED BY <3>1
    <2>3. CASE CompletionReads(p) \/ Disconnect(p) \/ Reconnect(p) \/ ClearPlate(p) \/ ExpireHolds(p)
      BY <2>3 DEF CompletionReads, Disconnect, Reconnect, ClearPlate, ExpireHolds
    <2>4. CASE CompletionWrites(p)
      <3>1. completing[p].outcome # "printing"
        BY <2>4, CompletionWritesEnd DEF Outcomes
      <3> QED BY <2>4, <3>1 DEF CompletionWrites
    <2> QED BY <1>5, <2>1, <2>2, <2>3, <2>4, <2>5, <2>6 DEF PrinterStep
  <1>6. ASSUME NEW elapsed \in SUBSET Printers, CloseStranded(elapsed) PROVE Leaves
    <2>1. \A i \in Items : status'[i] = "printing" => status[i] = "printing"
      BY <1>6 DEF CloseStranded
    <2>2. \A p \in Printers : expected_prints'[p] \subseteq expected_prints[p]
      BY <1>6 DEF CloseStranded, ForgetUnstarted
    <2> QED BY <1>6, <2>1, <2>2 DEF CloseStranded
  <1>7. CASE ClearStaleClaims
    BY <1>7 DEF ClearStaleClaims
  <1> QED BY <1>1, <1>2, <1>3, <1>4, <1>5, <1>6, <1>7 DEF Next

\* A dispatch reaches the printer by its send alone.
LEMMA DispatchFrame ==
  ASSUME TypeOK, LaunchedFor, NEW i \in Items, DispatchStep(i) \/ UploadRefused(i) \/ DispatchRaises(i)
  PROVE  /\ UNCHANGED <<connected, gcode_state, job, completing, readers>>
         /\ \/ UNCHANGED <<loaded, sends>>
            \/ /\ Publish(i) /\ inflight[i] \in Printers
               /\ loaded' = [loaded EXCEPT ![inflight[i]] = i]
               /\ sends' = [sends EXCEPT ![i] = @ + 1]
  <1>. USE DEF printerVars, routeVars, historyVars
  <1>1. CASE Publish(i)
    <2>1. inflight[i] \in Printers
      BY <1>1 DEF Publish, TypeOK, LaunchedFor, PrinterOrNone
    <2> QED BY <1>1, <2>1 DEF Publish
  <1>2. CASE ~Publish(i)
    BY <1>2 DEF DispatchStep, ClaimForDispatch, ReserveBudget, BudgetRefused, RecheckRow, UploadDone,
       PrinterNotConnected, UploadFailed, FailDispatch, MarkPrinting, DeferUntilIdle,
       SendFailed, Unwind, UploadRefused, DispatchRaises
  <1> QED BY <1>1, <1>2

\* A fault that has happened stays counted.
LEMMA FaultsGrow ==
  ASSUME TypeOK, [Next]_vars
  PROVE  \A k \in FaultKinds : faults'[k] >= faults[k]
  <1>. USE DEF TypeOK
  <1>1. ASSUME NEW k \in FaultKinds, Fault(k) PROVE \A l \in FaultKinds : faults'[l] >= faults[l]
    BY <1>1 DEF Fault
  <1>2. CASE UNCHANGED faults
    BY <1>2
  <1>3. CASE UNCHANGED vars
    BY <1>2, <1>3 DEF vars, historyVars
  <1>4. ASSUME NEW i \in Items, NEW p \in Printers, Launch(i, p) \/ AssignOnly(i, p)
        PROVE  UNCHANGED faults
    BY <1>4 DEF Launch, AssignOnly, historyVars
  <1>5. ASSUME NEW i \in Items, DispatchStep(i) \/ UploadRefused(i) \/ DispatchRaises(i)
        PROVE  UNCHANGED faults \/ \E k \in FaultKinds : Fault(k)
    BY <1>5 DEF DispatchStep, ClaimForDispatch, ReserveBudget, BudgetRefused, RecheckRow, UploadDone,
       PrinterNotConnected, UploadFailed, FailDispatch, MarkPrinting, Publish, DeferUntilIdle,
       SendFailed, Unwind, UploadRefused, DispatchRaises, historyVars, FaultKinds
  <1>6. ASSUME NEW i \in Items, WatchdogStep(i)
        PROVE  UNCHANGED faults \/ \E k \in FaultKinds : Fault(k)
    BY <1>6 DEF WatchdogStep, PrinterSeenActive, WatchdogGivesUp, WatchdogReads, RevertWrites,
       WatchdogWriteFails, historyVars, FaultKinds
  <1>7. ASSUME NEW i \in Items, RouteStep(i)
        PROVE  UNCHANGED faults \/ \E k \in FaultKinds : Fault(k)
    BY <1>7 DEF RouteStep, CancelQueueItem, DeleteQueueItem, StopQueueItem, BulkUpdate, UpdateBegins,
       UpdateWrites, CancelReads, StopReads, RouteWrites, historyVars, FaultKinds
  <1>8. ASSUME NEW p \in Printers, PrinterStep(p)
        PROVE  UNCHANGED faults \/ \E k \in FaultKinds : Fault(k)
    BY <1>8 DEF PrinterStep, PrinterStarts, PrinterDrops, HandStart, PrinterEnds, OnPrintComplete,
       CompletionReads, CompletionWrites, Disconnect, Reconnect, ClearPlate, ExpireHolds, historyVars, FaultKinds
  <1>9. ASSUME NEW elapsed \in SUBSET Printers, CloseStranded(elapsed)
        PROVE  UNCHANGED faults
    BY <1>9 DEF CloseStranded, historyVars
  <1>10. CASE ClearStaleClaims
    BY <1>10 DEF ClearStaleClaims, historyVars
  <1>11. CASE Restart
    BY <1>11, <1>1 DEF Restart, FaultKinds
  <1> QED BY <1>1, <1>2, <1>3, <1>4, <1>5, <1>6, <1>7, <1>8, <1>9, <1>10, <1>11 DEF Next

\* Only the watchdog of a row reads it for a revert.
LEMMA RevertReads ==
  ASSUME TypeOK, LaunchedFor, [Next]_vars, NEW r \in Items, "revert" \in readers'[r]
  PROVE  "revert" \in readers[r] \/ WatchdogReads(r)
  <1>. USE DEF TypeOK, routeVars
  <1>1. CASE UNCHANGED readers
    BY <1>1
  <1>2. CASE UNCHANGED vars
    BY <1>2 DEF vars
  <1>3. ASSUME NEW i \in Items, NEW p \in Printers, Launch(i, p) \/ AssignOnly(i, p) PROVE UNCHANGED readers
    BY <1>3 DEF Launch, AssignOnly
  <1>4. ASSUME NEW i \in Items, DispatchStep(i) \/ UploadRefused(i) \/ DispatchRaises(i) PROVE UNCHANGED readers
    BY <1>4, DispatchFrame
  <1>5. ASSUME NEW i \in Items, WatchdogStep(i), ~WatchdogReads(r) PROVE "revert" \in readers[r]
    <2>1. CASE WatchdogReads(i)
      <3>1. i # r
        BY <1>5, <2>1
      <3>2. readers' = [readers EXCEPT ![i] = @ \cup {"revert"}]
        BY <2>1 DEF WatchdogReads
      <3> QED BY <3>1, <3>2
    <2>2. CASE ~WatchdogReads(i)
      <3>1. readers' = readers \/ readers' = [readers EXCEPT ![i] = @ \ {"revert"}]
        BY <1>5, <2>2 DEF WatchdogStep, PrinterSeenActive, WatchdogGivesUp, RevertWrites, WatchdogWriteFails
      <3> QED BY <3>1
    <2> QED BY <2>1, <2>2
  <1>6. ASSUME NEW i \in Items, RouteStep(i) PROVE "revert" \in readers[r]
    BY <1>6, RouteReaders
  <1>7. ASSUME NEW p \in Printers, PrinterStep(p) PROVE UNCHANGED readers
    <2>1. CASE PrinterStarts(p) \/ PrinterDrops(p) \/ HandStart(p) \/ Disconnect(p) \/ Reconnect(p)
      BY <2>1 DEF PrinterStarts, PrinterDrops, HandStart, Disconnect, Reconnect
    <2>2. ASSUME NEW o \in Outcomes, PrinterEnds(p, o) PROVE UNCHANGED readers
      BY <2>2 DEF PrinterEnds
    <2>3. CASE OnPrintComplete(p) \/ CompletionReads(p) \/ CompletionWrites(p) \/ ClearPlate(p) \/ ExpireHolds(p)
      BY <2>3 DEF OnPrintComplete, CompletionReads, CompletionWrites, ClearPlate, ExpireHolds
    <2> QED BY <1>7, <2>1, <2>2, <2>3 DEF PrinterStep
  <1>8. ASSUME NEW elapsed \in SUBSET Printers, CloseStranded(elapsed) PROVE UNCHANGED readers
    BY <1>8 DEF CloseStranded
  <1>9. CASE ClearStaleClaims
    BY <1>1, <1>9 DEF ClearStaleClaims
  <1>10. CASE Restart
    BY <1>10 DEF Restart
  <1> QED BY <1>1, <1>2, <1>3, <1>4, <1>5, <1>6, <1>7, <1>8, <1>9, <1>10 DEF Next

\* A revert that was overtaken is a fault of its kind.
CrossedInv == \A i \in Items : "revert" \in readers[i] =>
                faults["crossed_callback"] > 0 /\ MaxFaults["crossed_callback"] > 0

\* Every revert pending was begun by WatchdogReads, which counted the fault.
LEMMA CrossedStep == TypeOK /\ LaunchedFor /\ CrossedInv /\ [Next]_vars => CrossedInv'
  <1> SUFFICES ASSUME TypeOK, LaunchedFor, CrossedInv, [Next]_vars, NEW r \in Items, "revert" \in readers'[r]
               PROVE  faults'["crossed_callback"] > 0 /\ MaxFaults["crossed_callback"] > 0
    BY DEF CrossedInv
  <1>1. faults'["crossed_callback"] >= faults["crossed_callback"]
    BY FaultsGrow DEF FaultKinds
  <1>2. faults' \in [FaultKinds -> Nat] /\ faults \in [FaultKinds -> Nat]
    BY TypeStep DEF TypeOK
  <1>3. CASE "revert" \in readers[r]
    BY <1>1, <1>2, <1>3 DEF CrossedInv, FaultKinds
  <1>4. CASE WatchdogReads(r)
    <2>1. Fault("crossed_callback")
      BY <1>4 DEF WatchdogReads
    <2> QED BY <1>2, <2>1, LimitsAssumption DEF Fault, FaultKinds
  <1> QED BY <1>3, <1>4, RevertReads

\* Two coroutines never work for one printer.
CoroutinesApart == \A i, j \in Items : inflight[i] # NoPrinter /\ inflight[i] = inflight[j] => i = j

\* A launch for a printer some coroutine works for is refused by Busy, and no edit
\* redirects a coroutine: it works for the printer it was launched for.
LEMMA CoroutinesApartStep == TypeOK /\ CoroutinesApart /\ [Next]_vars => CoroutinesApart'
  <1> SUFFICES ASSUME TypeOK, CoroutinesApart, [Next]_vars PROVE CoroutinesApart'
    OBVIOUS
  <1>. USE DEF TypeOK, CoroutinesApart
  <1>1. ASSUME NEW i \in Items, NEW p \in Printers, Launch(i, p) PROVE CoroutinesApart'
    BY <1>1 DEF Launch, Selectable, Busy
  <1>2. ASSUME NEW i \in Items, DispatchStep(i) \/ UploadRefused(i) \/ DispatchRaises(i)
        PROVE  CoroutinesApart'
    <2>1. inflight' = inflight \/ inflight' = [inflight EXCEPT ![i] = NoPrinter]
      BY <1>2 DEF DispatchStep, ClaimForDispatch, ReserveBudget, BudgetRefused, RecheckRow, UploadDone,
         PrinterNotConnected, UploadFailed, FailDispatch, MarkPrinting, Publish, DeferUntilIdle,
         SendFailed, Unwind, UploadRefused, DispatchRaises
    <2> QED BY <2>1
  <1>3. CASE Restart
    BY <1>3 DEF Restart
  <1>4. CASE /\ ~ \E i \in Items : DispatchStep(i) \/ UploadRefused(i) \/ DispatchRaises(i)
             /\ ~ \E i \in Items, p \in Printers : Launch(i, p)
             /\ ~ Restart
    BY <1>4, OtherSteps
  <1> QED BY <1>1, <1>2, <1>3, <1>4

\* Whatever edits and restarts come between, no two dispatch coroutines upload to or
\* start a print on one printer: the part of the exclusion that PATCH /{id} leaves
\* standing, for which _inflight is the only guard.
THEOREM CoroutinesNeverShare == Spec => []CoroutinesApart
  <1>1. Init => CoroutinesApart
    BY DEF Init, CoroutinesApart
  <1> QED BY <1>1, CoroutinesApartStep, TypeCorrect, PTL DEF Spec

\* A printing row has left every stage of its dispatch before the commit.
PrintingStage == \A i \in Items : status[i] = "printing" => pc[i] \in {"committed", "unwinding", "idle"}

\* Only the commit of MarkPrinting makes a row printing, and only rows that wait
\* are launched.
LEMMA PrintingStageStep == TypeOK /\ LaunchedFor /\ PrintingStage /\ [Next]_vars => PrintingStage'
  <1> SUFFICES ASSUME TypeOK, LaunchedFor, PrintingStage, [Next]_vars PROVE PrintingStage'
    OBVIOUS
  <1>. USE DEF TypeOK, PrintingStage
  <1>1. ASSUME NEW i \in Items, NEW p \in Printers, Launch(i, p) PROVE PrintingStage'
    BY <1>1 DEF Launch, Selectable
  <1>2. ASSUME NEW i \in Items, DispatchStep(i) \/ UploadRefused(i) \/ DispatchRaises(i)
        PROVE  PrintingStage'
    <2>1. CASE MarkPrinting(i)
      BY <2>1 DEF MarkPrinting
    <2>2. CASE ClaimForDispatch(i) \/ ReserveBudget(i) \/ RecheckRow(i) \/ UploadDone(i)
      BY <2>2 DEF ClaimForDispatch, ReserveBudget, RecheckRow, UploadDone, rowVars
    <2>3. CASE BudgetRefused(i) \/ PrinterNotConnected(i) \/ UploadFailed(i) \/ SendFailed(i)
      BY <2>3 DEF BudgetRefused, PrinterNotConnected, UploadFailed, SendFailed, FailDispatch, Failed
    <2>4. CASE Publish(i) \/ DeferUntilIdle(i) \/ Unwind(i) \/ UploadRefused(i) \/ DispatchRaises(i)
      BY <2>4 DEF Publish, DeferUntilIdle, Deferred, Unwind, UploadRefused, DispatchRaises, rowVars
    <2> QED BY <1>2, <2>1, <2>2, <2>3, <2>4 DEF DispatchStep
  <1>3. CASE Restart
    BY <1>3 DEF Restart
  <1>4. CASE /\ ~ \E i \in Items : DispatchStep(i) \/ UploadRefused(i) \/ DispatchRaises(i)
             /\ ~ \E i \in Items, p \in Printers : Launch(i, p)
             /\ ~ Restart
    BY <1>4, OtherSteps
  <1> QED BY <1>1, <1>2, <1>3, <1>4
=============================================================================
