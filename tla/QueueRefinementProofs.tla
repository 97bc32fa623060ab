----------------------- MODULE QueueRefinementProofs -----------------------
(***************************************************************************)
(* The queue implements the leases of PrintQueueAbstract, step by step, as  *)
(* long as rows are not edited by PATCH /{id}: run single_edit shows that a *)
(* row so edited can print on a printer another row leases.                *)
(***************************************************************************)
EXTENDS QueueDispatchProofs

(* The printer a row leases changes hands from its coroutine to the row      *)
(* itself; this is why that is no step of the lease.                        *)

\* A printing row whose coroutine still runs prints where the coroutine sent it.
PrintingLease ==
  \A i \in Items : inflight[i] # NoPrinter /\ status[i] = "printing" => printer_id[i] = inflight[i]

\* What a step of the abstract queue is made of, row by row.
Kept(i)  == PhaseOf(i)' = PhaseOf(i) /\ LeaseOf(i)' = LeaseOf(i)
Ended(i) == PhaseOf(i) # "over" /\ PhaseOf(i)' = "over" /\ LeaseOf(i)' \in {LeaseOf(i), NoPrinter}
Freed(i) == PhaseOf(i) # "printing" /\ PhaseOf(i)' = PhaseOf(i) /\ LeaseOf(i)' = NoPrinter

-----------------------------------------------------------------------------
(* The steps of the abstract queue, from what they do to each row.           *)

\* Rows that end, with or without their lease, are one step of End.
LEMMA EndsRows ==
  ASSUME UNCHANGED sends, \A i \in Items : Kept(i) \/ Ended(i)
  PROVE  Abstract!Next
  <1> DEFINE S == {i \in Items : ~Kept(i)}
             kept == {i \in S : LeaseOf(i)' = LeaseOf(i)}
  <1>1. S \in SUBSET Items /\ kept \in SUBSET S
    OBVIOUS
  <1>2. \A i \in S : PhaseOf(i) # "over" /\ PhaseOf(i)' = "over"
    BY DEF Ended
  <1>3. \A i \in Items : PhaseOf(i)' = IF i \in S THEN "over" ELSE PhaseOf(i)
    BY <1>2 DEF Kept
  <1>4. \A i \in Items : LeaseOf(i)' = IF i \in S \ kept THEN NoPrinter ELSE LeaseOf(i)
    BY DEF Kept, Ended
  <1>5. Abstract!End(S)
    BY <1>1, <1>2, <1>3, <1>4, Zenon DEF Abstract!End
  <1> QED BY <1>1, <1>5 DEF Abstract!Next

\* Rows that do not print and lose their coroutine are one step of Release.
LEMMA ReleasesRows ==
  ASSUME UNCHANGED sends, \A i \in Items : Kept(i) \/ Freed(i)
  PROVE  Abstract!Next
  <1> DEFINE S == {i \in Items : Freed(i)}
  <1>1. S \in SUBSET Items
    OBVIOUS
  <1>2. \A i \in S : PhaseOf(i) # "printing"
    BY DEF Freed
  <1>3. \A i \in Items : PhaseOf(i)' = PhaseOf(i)
    BY DEF Kept, Freed
  <1>4. \A i \in Items : LeaseOf(i)' = IF i \in S THEN NoPrinter ELSE LeaseOf(i)
    BY DEF Kept, Freed
  <1>5. Abstract!Release(S)
    BY <1>1, <1>2, <1>3, <1>4, Zenon DEF Abstract!Release
  <1> QED BY <1>1, <1>5 DEF Abstract!Next

\* A step that ends rows, once or again, and otherwise leaves statuses, coroutines, sends and
\* the printers of printing rows alone closes leases, or changes none.
LEMMA ClosesRows ==
  ASSUME UNCHANGED <<inflight, sends>>,
         \A i \in Items :
           /\ status'[i] = status[i] \/ status'[i] \in Terminal
           /\ status[i] = "printing" => printer_id'[i] = printer_id[i]
  PROVE  Abstract!Next
  <1>1. ASSUME NEW i \in Items PROVE Kept(i) \/ Ended(i)
    BY DEF Kept, Ended, PhaseOf, LeaseOf, Terminal
  <1> QED BY <1>1, EndsRows

-----------------------------------------------------------------------------
(* What the actors of the backend do to rows and leases.                     *)

\* Routes, callbacks, watchdogs and sweeps end rows or leave them alone, but for
\* the watchdog that gives a row another try; none moves a printing row.
LEMMA OthersCloseRows ==
  ASSUME TypeOK, Exclusive, "single" \notin EditRoutes, [Next]_vars,
         ~ \E i \in Items : DispatchStep(i) \/ UploadRefused(i) \/ DispatchRaises(i),
         ~ \E i \in Items, p \in Printers : Launch(i, p),
         ~ \E i \in Items, rejected \in BOOLEAN : WatchdogGivesUp(i, rejected) \/ RevertWrites(i, rejected),
         ~ Restart
  PROVE  /\ \A i \in Items : status'[i] = status[i] \/ status'[i] \in Terminal
         /\ \A i \in Items : status[i] = "printing" => printer_id'[i] = printer_id[i]
  <1> DEFINE Closes ==
        /\ \A i \in Items : status'[i] = status[i] \/ status'[i] \in Terminal
        /\ \A i \in Items : status[i] = "printing" => printer_id'[i] = printer_id[i]
  <1>. USE DEF TypeOK, Terminal, rowVars
  <1>1. CASE UNCHANGED vars
    BY <1>1 DEF vars
  <1>2. ASSUME NEW i \in Items, NEW p \in Printers, AssignOnly(i, p) PROVE Closes
    BY <1>2 DEF AssignOnly, Selectable
  <1>3. ASSUME NEW i \in Items, PrinterSeenActive(i) \/ WatchdogReads(i) \/ WatchdogWriteFails(i) PROVE Closes
    BY <1>3 DEF PrinterSeenActive, WatchdogReads, WatchdogWriteFails
  <1>4. ASSUME NEW i \in Items, RouteStep(i) PROVE Closes
    <2>1. CASE CancelQueueItem(i) \/ DeleteQueueItem(i) \/ StopQueueItem(i)
      BY <2>1 DEF CancelQueueItem, DeleteQueueItem, StopQueueItem
    <2>2. CASE CancelReads(i) \/ StopReads(i)
      BY <2>2 DEF CancelReads, StopReads
    <2>3. ASSUME NEW reader \in Readers, RouteWrites(i, reader) PROVE Closes
      BY <2>3 DEF RouteWrites
    <2>4. CASE UpdateWrites(i)
      BY <2>4 DEF UpdateWrites, Exclusive
    <2>5. ASSUME NEW q \in Printers, BulkUpdate(i, q) \/ UpdateBegins(i, q) PROVE Closes
      BY <2>5 DEF BulkUpdate, UpdateBegins
    <2> QED BY <1>4, <2>1, <2>2, <2>3, <2>4, <2>5 DEF RouteStep
  <1>5. ASSUME NEW p \in Printers, PrinterStep(p) PROVE Closes
    <2>1. CASE OnPrintComplete(p)
      <3>1. completing[p].outcome \in Terminal
        BY <2>1 DEF OnPrintComplete, Ends, NoEnd, Outcomes
      <3> QED BY <2>1, <3>1 DEF OnPrintComplete, Printing
    <2>2. CASE CompletionWrites(p)
      <3>1. completing[p].outcome \in Terminal
        BY <2>2, CompletionWritesEnd DEF Outcomes
      <3> QED BY <2>2, <3>1 DEF CompletionWrites
    <2>3. CASE ~OnPrintComplete(p) /\ ~CompletionWrites(p)
      BY <1>5, <2>3 DEF PrinterStep, PrinterStarts, PrinterDrops, HandStart, PrinterEnds, CompletionReads,
         Disconnect, Reconnect, ClearPlate, ExpireHolds
    <2> QED BY <2>1, <2>2, <2>3
  <1>6. ASSUME NEW elapsed \in SUBSET Printers, CloseStranded(elapsed) PROVE Closes
    BY <1>6 DEF CloseStranded, StateOutcome, TerminalState, Active, GcodeStates, PrinterOrNone
  <1>7. CASE ClearStaleClaims
    BY <1>7 DEF ClearStaleClaims
  <1> QED BY <1>1, <1>2, <1>3, <1>4, <1>5, <1>6, <1>7 DEF Next, WatchdogStep

\* A launch takes the lease of a printer that is not Busy.
LEMMA LaunchTakes ==
  ASSUME TypeOK, NEW i \in Items, NEW p \in Printers, Launch(i, p)
  PROVE  Abstract!Next
  <1>1. /\ status[i] = "pending" /\ inflight[i] = NoPrinter /\ ~Busy(p)
        /\ inflight' = [inflight EXCEPT ![i] = p] /\ printer_id' = [printer_id EXCEPT ![i] = p]
        /\ UNCHANGED <<status, sends>>
    BY DEF Launch, Selectable, historyVars
  <1>2. PhaseOf(i) = "waiting" /\ LeaseOf(i) = NoPrinter
    BY <1>1 DEF PhaseOf, LeaseOf
  <1>3. \A j \in Items : LeaseOf(j) # p
    BY <1>1, ItemsAssumption DEF LeaseOf, Busy, Printing
  <1>4. \A j \in Items : PhaseOf(j)' = PhaseOf(j)
    BY <1>1 DEF PhaseOf
  <1>5. \A j \in Items : LeaseOf(j)' = IF j = i THEN p ELSE LeaseOf(j)
    BY <1>1, ItemsAssumption DEF LeaseOf, TypeOK
  <1>6. Abstract!Take(i, p)
    BY <1>1, <1>2, <1>3, <1>4, <1>5, Zenon DEF Abstract!Take, Abstract!Leased
  <1> QED BY <1>6 DEF Abstract!Next

\* The commit of MarkPrinting begins the print under the lease of its coroutine.
LEMMA CommitBegins ==
  ASSUME TypeOK, LaunchedFor, NEW i \in Items, MarkPrinting(i)
  PROVE  Abstract!Next
  <1>1. UNCHANGED <<printer_id, inflight, sends>> /\ inflight[i] # NoPrinter
    BY DEF MarkPrinting, LaunchedFor, historyVars
  <1>2. CASE status[i] = "pending"
    <2>1. status' = [status EXCEPT ![i] = "printing"]
      BY <1>2 DEF MarkPrinting
    <2>2. PhaseOf(i) = "waiting" /\ LeaseOf(i) # NoPrinter
      BY <1>1, <1>2 DEF PhaseOf, LeaseOf
    <2>3. \A j \in Items : PhaseOf(j)' = IF j = i THEN "printing" ELSE PhaseOf(j)
      BY <2>1 DEF PhaseOf, TypeOK
    <2>4. \A j \in Items : LeaseOf(j)' = LeaseOf(j)
      BY <1>1, <2>1 DEF LeaseOf, TypeOK
    <2>5. Abstract!Begin(i)
      BY <1>1, <2>2, <2>3, <2>4, Zenon DEF Abstract!Begin, Abstract!Leased
    <2> QED BY <2>5 DEF Abstract!Next
  <1>3. CASE status[i] # "pending"
    BY <1>1, <1>3, ClosesRows DEF MarkPrinting
  <1> QED BY <1>2, <1>3

\* The print command goes out under the lease, to a row that has begun, and
\* within its tries.
LEMMA PublishSends ==
  ASSUME TypeOK, LaunchedFor, RetryInv, NEW i \in Items, Publish(i)
  PROVE  Abstract!Next
  <1>1. /\ UNCHANGED <<status, printer_id, inflight>>
        /\ sends' = [sends EXCEPT ![i] = @ + 1]
        /\ pc[i] = "committed"
    BY DEF Publish, rowVars
  <1>2. PhaseOf(i) # "waiting" /\ LeaseOf(i) # NoPrinter
    BY <1>1 DEF RetryInv, LaunchedFor, PhaseOf, LeaseOf, TypeOK, Statuses, Terminal
  <1>3. sends[i] < MaxAttempts
    BY <1>1, LimitsAssumption DEF RetryInv, TypeOK
  <1>4. \A j \in Items : PhaseOf(j)' = PhaseOf(j) /\ LeaseOf(j)' = LeaseOf(j)
    BY <1>1 DEF PhaseOf, LeaseOf
  <1>5. Abstract!Send(i)
    BY <1>1, <1>2, <1>3, <1>4, Zenon DEF Abstract!Send, Abstract!Leased
  <1> QED BY <1>5 DEF Abstract!Next

\* A row that goes back to pending, with its coroutine or without one, gives its
\* print back: one that prints, or one that is over where that may be overwritten.
Reopened == MaxAttempts > 1 /\ MaxFaults["crossed_callback"] > 0

LEMMA RevertGivesBack ==
  ASSUME TypeOK, NEW i \in Items, status[i] = "printing" \/ (status[i] \in Terminal /\ Reopened),
         UNCHANGED <<printer_id, inflight, sends>>,
         status' = [status EXCEPT ![i] = "pending"]
  PROVE  Abstract!Next
  <1>1. PhaseOf(i) = "printing" \/ (Reopened /\ PhaseOf(i) = "over")
    BY DEF PhaseOf, Terminal
  <1>2. \A j \in Items : PhaseOf(j)' = IF j = i THEN "waiting" ELSE PhaseOf(j)
    BY DEF PhaseOf, TypeOK
  <1>3. \A j \in Items \ {i} : LeaseOf(j)' = LeaseOf(j)
    BY DEF LeaseOf, TypeOK
  <1>4. LeaseOf(i)' \in {LeaseOf(i), NoPrinter}
    BY DEF LeaseOf, TypeOK
  <1>5. CASE LeaseOf(i)' = LeaseOf(i)
    <2>1. \A j \in Items : LeaseOf(j)' = LeaseOf(j)
      BY <1>3, <1>5
    <2>2. Abstract!GiveBack(i)
      BY <1>1, <1>2, <2>1, Zenon DEF Abstract!GiveBack, Reopened
    <2> QED BY <2>2 DEF Abstract!Next
  <1>6. CASE LeaseOf(i)' = NoPrinter
    <2>1. \A j \in Items : LeaseOf(j)' = IF j = i THEN NoPrinter ELSE LeaseOf(j)
      BY <1>3, <1>6
    <2>2. Abstract!GiveBack(i)
      BY <1>1, <1>2, <2>1, Zenon DEF Abstract!GiveBack, Reopened
    <2> QED BY <2>2 DEF Abstract!Next
  <1> QED BY <1>4, <1>5, <1>6

\* Every step of a dispatch coroutine begins, sends, gives back, ends or releases
\* the lease of its row, or leaves the leases as they were.
LEMMA DispatchImplements ==
  ASSUME TypeOK, LaunchedFor, RetryInv, PrintingStage, PrintingLease,
         NEW i \in Items, DispatchStep(i) \/ UploadRefused(i) \/ DispatchRaises(i)
  PROVE  Abstract!Next
  <1>. USE DEF TypeOK, rowVars, historyVars
  <1>1. CASE ClaimForDispatch(i)
    <2>1. UNCHANGED <<status, printer_id, sends>> /\ status[i] # "printing"
      BY <1>1 DEF ClaimForDispatch, PrintingStage
    <2>2. inflight' = inflight \/ inflight' = [inflight EXCEPT ![i] = NoPrinter]
      BY <1>1 DEF ClaimForDispatch
    <2>3. ASSUME NEW j \in Items PROVE Kept(j) \/ Freed(j)
      BY <2>1, <2>2 DEF Kept, Freed, PhaseOf, LeaseOf
    <2> QED BY <2>1, <2>3, ReleasesRows
  <1>2. CASE Unwind(i)
    <2>1. UNCHANGED <<status, printer_id, sends>> /\ inflight' = [inflight EXCEPT ![i] = NoPrinter]
      BY <1>2 DEF Unwind
    <2>2. inflight[i] # NoPrinter
      BY <1>2 DEF Unwind, LaunchedFor
    <2>3. ASSUME NEW j \in Items PROVE Kept(j) \/ Freed(j)
      BY <2>1, <2>2 DEF Kept, Freed, PhaseOf, LeaseOf, PrintingLease
    <2> QED BY <2>1, <2>3, ReleasesRows
  <1>3. CASE MarkPrinting(i)
    BY <1>3, CommitBegins
  <1>4. CASE Publish(i)
    BY <1>4, PublishSends
  <1>5. CASE DeferUntilIdle(i)
    <2>1. UNCHANGED <<printer_id, inflight, sends>> /\ status' = [status EXCEPT ![i] = Deferred(i)]
      BY <1>5 DEF DeferUntilIdle
    <2>2. CASE status[i] = "printing"
      BY <2>1, <2>2, RevertGivesBack DEF Deferred
    <2>3. CASE status[i] # "printing"
      BY <2>1, <2>3, ClosesRows DEF Deferred
    <2> QED BY <2>2, <2>3
  <1>6. CASE BudgetRefused(i) \/ PrinterNotConnected(i) \/ UploadFailed(i) \/ SendFailed(i)
    <2>1. UNCHANGED <<printer_id, inflight, sends>> /\ status' = [status EXCEPT ![i] = Failed(i)]
      BY <1>6 DEF BudgetRefused, PrinterNotConnected, UploadFailed, SendFailed, FailDispatch
    <2> QED BY <2>1, ClosesRows DEF Failed, Terminal
  <1>7. CASE ReserveBudget(i) \/ RecheckRow(i) \/ UploadDone(i) \/ DispatchRaises(i)
    BY <1>7, ClosesRows DEF ReserveBudget, RecheckRow, UploadDone, DispatchRaises
  <1>8. CASE UploadRefused(i)
    BY <1>8, ClosesRows DEF UploadRefused
  <1> QED BY <1>1, <1>2, <1>3, <1>4, <1>5, <1>6, <1>7, <1>8 DEF DispatchStep

\* A watchdog that gives up ends the row or gives its print back; one that was
\* overtaken may end again, or take back to waiting, a row that is over.
LEMMA GivingUpImplements ==
  ASSUME TypeOK, RetryInv, CrossedInv, NEW i \in Items, NEW rejected \in BOOLEAN,
         WatchdogGivesUp(i, rejected) \/ RevertWrites(i, rejected)
  PROVE  Abstract!Next
  <1>. USE DEF TypeOK, taskVars, historyVars
  <1>1. UNCHANGED <<printer_id, inflight, sends>>
    BY DEF WatchdogGivesUp, RevertWrites
  <1>2. \/ UNCHANGED status
        \/ /\ status[i] = "printing" \/ "revert" \in readers[i]
           /\ RevertRow(i, rejected)
    BY DEF WatchdogGivesUp, RevertWrites
  <1>3. CASE UNCHANGED status
    BY <1>1, <1>3, ClosesRows
  <1>4. CASE (status[i] = "printing" \/ "revert" \in readers[i]) /\ RevertRow(i, rejected)
    <2>1. status[i] = "printing" \/ (status[i] \in Terminal /\ MaxFaults["crossed_callback"] > 0)
      BY <1>4 DEF RetryInv, CrossedInv, Statuses
    <2>2. CASE status' = [status EXCEPT ![i] = "failed"]
      BY <1>1, <2>2, ClosesRows DEF Terminal
    <2>3. CASE status' = [status EXCEPT ![i] = "pending"] /\ Tries(i) < MaxAttempts
      <3>1. MaxAttempts > 1
        BY <2>3, LimitsAssumption DEF Tries
      <3>2. status[i] = "printing" \/ (status[i] \in Terminal /\ Reopened)
        BY <2>1, <3>1 DEF Reopened
      <3> QED BY <1>1, <2>3, <3>2, RevertGivesBack
    <2>4. status' = [status EXCEPT ![i] = "failed"]
          \/ (status' = [status EXCEPT ![i] = "pending"] /\ Tries(i) < MaxAttempts)
      <3>1. Tries(i) \in Nat /\ MaxAttempts \in Nat
        BY LimitsAssumption DEF Tries
      <3>2. status' = [status EXCEPT ![i] = IF rejected \/ Tries(i) >= MaxAttempts THEN "failed" ELSE "pending"]
        BY <1>4 DEF RevertRow
      <3>3. CASE rejected \/ Tries(i) >= MaxAttempts
        BY <3>2, <3>3
      <3>4. CASE ~(rejected \/ Tries(i) >= MaxAttempts)
        BY <3>1, <3>2, <3>4
      <3> QED BY <3>3, <3>4
    <2> QED BY <2>2, <2>3, <2>4
  <1> QED BY <1>2, <1>3, <1>4

\* A restart forgets every coroutine: the rows that were printing keep their
\* lease, for they print on, and the others release theirs.
LEMMA RestartReleases ==
  ASSUME TypeOK, PrintingLease, Restart
  PROVE  Abstract!Next
  <1>1. UNCHANGED <<status, printer_id, sends>> /\ inflight' = [i \in Items |-> NoPrinter]
    BY DEF Restart
  <1>2. ASSUME NEW j \in Items PROVE Kept(j) \/ Freed(j)
    BY <1>1 DEF Kept, Freed, PhaseOf, LeaseOf, PrintingLease
  <1> QED BY <1>1, <1>2, ReleasesRows

-----------------------------------------------------------------------------
(* The invariant under which every step is one of the abstract queue's.      *)

RefinementInv == TypeOK /\ DispatchInv /\ RetryInv /\ CrossedInv /\ PrintingStage /\ PrintingLease

\* A row begins to print on the printer of its coroutine and stays there: edits
\* reach only rows that wait, and a launch is for a row that waits.
LEMMA PrintingLeaseStep ==
  ASSUME "single" \notin EditRoutes
  PROVE  TypeOK /\ DispatchInv /\ PrintingLease /\ [Next]_vars => PrintingLease'
  <1> SUFFICES ASSUME "single" \notin EditRoutes, TypeOK, DispatchInv, PrintingLease, [Next]_vars
               PROVE  PrintingLease'
    OBVIOUS
  <1>. USE DEF TypeOK, PrintingLease, rowVars
  <1>1. ASSUME NEW i \in Items, NEW p \in Printers, Launch(i, p) PROVE PrintingLease'
    BY <1>1 DEF Launch, Selectable
  <1>2. ASSUME NEW i \in Items, DispatchStep(i) \/ UploadRefused(i) \/ DispatchRaises(i)
        PROVE  PrintingLease'
    <2>1. CASE MarkPrinting(i)
      <3>1. status[i] = "pending" => printer_id[i] = inflight[i]
        BY <2>1 DEF MarkPrinting, DispatchInv, ClaimHolds, InTransit
      <3> QED BY <2>1, <3>1 DEF MarkPrinting
    <2>2. CASE BudgetRefused(i) \/ PrinterNotConnected(i) \/ UploadFailed(i) \/ SendFailed(i)
      <3>1. UNCHANGED <<printer_id, inflight>> /\ status' = [status EXCEPT ![i] = Failed(i)]
        BY <2>2 DEF BudgetRefused, PrinterNotConnected, UploadFailed, SendFailed, FailDispatch
      <3> QED BY <3>1 DEF Failed
    <2>3. CASE ClaimForDispatch(i) \/ Unwind(i)
      BY <2>3 DEF ClaimForDispatch, Unwind
    <2>4. CASE ReserveBudget(i) \/ RecheckRow(i) \/ UploadDone(i) \/ Publish(i) \/ DispatchRaises(i)
      BY <2>4 DEF ReserveBudget, RecheckRow, UploadDone, Publish, DispatchRaises
    <2>5. CASE DeferUntilIdle(i) \/ UploadRefused(i)
      BY <2>5 DEF DeferUntilIdle, Deferred, UploadRefused
    <2> QED BY <1>2, <2>1, <2>2, <2>3, <2>4, <2>5 DEF DispatchStep
  <1>3. ASSUME NEW i \in Items, NEW rejected \in BOOLEAN,
               WatchdogGivesUp(i, rejected) \/ RevertWrites(i, rejected)
        PROVE  PrintingLease'
    BY <1>3 DEF WatchdogGivesUp, RevertWrites, RevertRow, taskVars
  <1>4. CASE Restart
    BY <1>4 DEF Restart
  <1>5. CASE /\ ~ \E i \in Items : DispatchStep(i) \/ UploadRefused(i) \/ DispatchRaises(i)
             /\ ~ \E i \in Items, p \in Printers : Launch(i, p)
             /\ ~ \E i \in Items, rejected \in BOOLEAN :
                    WatchdogGivesUp(i, rejected) \/ RevertWrites(i, rejected)
             /\ ~ Restart
    <2>1. Exclusive
      BY DEF DispatchInv, Exclusive
    <2>2. UNCHANGED inflight
      BY <1>5, OtherSteps
    <2>3. /\ \A i \in Items : status'[i] = status[i] \/ status'[i] \in Terminal
          /\ \A i \in Items : status[i] = "printing" => printer_id'[i] = printer_id[i]
      BY <1>5, <2>1, OthersCloseRows
    <2> QED BY <2>2, <2>3 DEF Terminal
  <1> QED BY <1>1, <1>2, <1>3, <1>4, <1>5

\* The invariant holds of every reachable state.
LEMMA RefinementInvHolds ==
  ASSUME "single" \notin EditRoutes
  PROVE  Spec => []RefinementInv
  <1>1. Init => RefinementInv
    BY TypeInit, LimitsAssumption DEF Init, RefinementInv, DispatchInv, LaunchedFor, ClaimHolds, InTransit,
       OneRowPerPrinter, OneDispatchPerPrinter, RetryInv, CrossedInv, PrintingStage, PrintingLease
  <1>2. RefinementInv /\ [Next]_vars => RefinementInv'
    <2>1. DispatchInv => LaunchedFor
      BY DEF DispatchInv
    <2>2. TypeOK /\ DispatchInv /\ RetryInv /\ [Next]_vars => DispatchInv'
      BY LaunchedForStep, ClaimHoldsStep, ExclusiveStep DEF DispatchInv, Exclusive
    <2> QED BY <2>1, <2>2, TypeStep, RetryStep, CrossedStep, PrintingStageStep, PrintingLeaseStep
            DEF RefinementInv
  <1> QED BY <1>1, <1>2, PTL DEF Spec

\* Rows wait without a lease at first.
LEMMA InitImplements == Init => Abstract!Init
  BY DEF Init, Abstract!Init, PhaseOf, LeaseOf

\* Every step of the queue is one of the abstract queue or leaves it alone.
LEMMA StepImplements ==
  ASSUME "single" \notin EditRoutes
  PROVE  RefinementInv /\ [Next]_vars => [Abstract!Next]_(Abstract!vars)
  <1> SUFFICES ASSUME RefinementInv, [Next]_vars PROVE Abstract!Next
    OBVIOUS
  <1>0. LaunchedFor /\ Exclusive /\ TypeOK
    BY DEF RefinementInv, DispatchInv, Exclusive
  <1>1. ASSUME NEW i \in Items, NEW p \in Printers, Launch(i, p) PROVE Abstract!Next
    BY <1>0, <1>1, LaunchTakes
  <1>2. ASSUME NEW i \in Items, DispatchStep(i) \/ UploadRefused(i) \/ DispatchRaises(i)
        PROVE  Abstract!Next
    BY <1>0, <1>2, DispatchImplements DEF RefinementInv
  <1>3. ASSUME NEW i \in Items, NEW rejected \in BOOLEAN,
               WatchdogGivesUp(i, rejected) \/ RevertWrites(i, rejected)
        PROVE  Abstract!Next
    BY <1>0, <1>3, GivingUpImplements DEF RefinementInv
  <1>4. CASE Restart
    BY <1>0, <1>4, RestartReleases DEF RefinementInv
  <1>5. CASE /\ ~ \E i \in Items : DispatchStep(i) \/ UploadRefused(i) \/ DispatchRaises(i)
             /\ ~ \E i \in Items, p \in Printers : Launch(i, p)
             /\ ~ \E i \in Items, rejected \in BOOLEAN :
                    WatchdogGivesUp(i, rejected) \/ RevertWrites(i, rejected)
             /\ ~ Restart
    BY <1>0, <1>5, OtherSteps, OthersCloseRows, ClosesRows
  <1> QED BY <1>1, <1>2, <1>3, <1>4, <1>5

\* The queue, with its coroutines, watchdogs, sweeps, routes and restarts, keeps
\* the leases of PrintQueueAbstract: exclusive, bounded in sends, and final unless
\* a watchdog is overtaken between the read and the write of its revert.
THEOREM QueueImplementsAbstract ==
  ASSUME "single" \notin EditRoutes
  PROVE  Spec => ImplementsAbstract
  BY RefinementInvHolds, InitImplements, StepImplements, PTL DEF Spec, ImplementsAbstract, Abstract!Spec
=============================================================================
