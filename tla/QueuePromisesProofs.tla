------------------------ MODULE QueuePromisesProofs ------------------------
(* What is promised about a dispatch that ends early or meets an old print: *)
(* no budget, claim or expected print is left behind, nothing is closed as   *)
(* completed that was not sent, and a late start or a completion finds its   *)
(* own row.  Each promise names the faults it does not survive.              *)
EXTENDS QueueDispatchProofs

\* No fault of these kinds has happened so far.
Spared(kinds) == \A k \in kinds : faults[k] = 0

\* No two rows print files of one name.
OwnFiles == \A i, j \in Items : FileOf[i] = FileOf[j] => i = j

Open(i) == status[i] \in {"pending", "printing"}

\* A fault that has happened stays counted: what is spared now was spared before.
LEMMA SparedBefore ==
  ASSUME TypeOK, [Next]_vars, NEW kinds \in SUBSET FaultKinds, Spared(kinds)'
  PROVE  Spared(kinds)
  BY FaultsGrow DEF Spared, TypeOK

\* The two faults that the promises about rows count together.
LEMMA SparedSum ==
  ASSUME TypeOK, ~(faults["restart"] + faults["db"] > 0)
  PROVE  Spared({"restart", "db"})
  <1>1. faults["restart"] \in Nat /\ faults["db"] \in Nat
    BY DEF TypeOK, FaultKinds
  <1> QED BY <1>1 DEF Spared

-----------------------------------------------------------------------------
(* Reservations.                                                           *)

\* The budget of a row that was not sent is held by a dispatch that knows it has
\* to give it back, unless the process died or a release was not written.
ReservationInv ==
  Spared({"restart", "db"}) =>
    \A i \in Items : reserved[i] /\ sends[i] = 0 =>
      pc[i] \notin {"idle", "spawned", "claimed"} /\ "budget" \in unconfirmed[i]

\* A dispatch marks the reservation before it makes it, and takes the mark off
\* where the print is sent or the reservation released.
LEMMA ReservationStep == TypeOK /\ LaunchedFor /\ ReservationInv /\ [Next]_vars => ReservationInv'
  <1> SUFFICES ASSUME TypeOK, LaunchedFor, ReservationInv, [Next]_vars PROVE ReservationInv'
    OBVIOUS
  <1>. USE DEF TypeOK
  <1>0. Spared({"restart", "db"})' => Spared({"restart", "db"})
    BY SparedBefore DEF FaultKinds
  <1>1. ASSUME NEW i \in Items, NEW p \in Printers, Launch(i, p)
        PROVE  ReservationInv'
    <2>1. pc[i] = "idle"
      BY <1>1 DEF Launch, Selectable, LaunchedFor
    <2> QED BY <1>0, <1>1, <2>1 DEF Launch, ReservationInv, historyVars
  <1>2. ASSUME NEW i \in Items, DispatchStep(i) \/ UploadRefused(i) \/ DispatchRaises(i)
        PROVE  ReservationInv'
    <2>. USE <1>0 DEF ReservationInv, historyVars, rowVars
    <2>1. CASE ClaimForDispatch(i)    BY <2>1 DEF ClaimForDispatch
    <2>2. CASE ReserveBudget(i)       BY <2>2 DEF ReserveBudget
    <2>3. CASE BudgetRefused(i)       BY <2>3 DEF BudgetRefused, FailDispatch
    <2>4. CASE RecheckRow(i)          BY <2>4 DEF RecheckRow
    <2>5. CASE PrinterNotConnected(i) BY <2>5 DEF PrinterNotConnected, FailDispatch
    <2>6. CASE UploadDone(i)          BY <2>6 DEF UploadDone
    <2>7. CASE UploadFailed(i)        BY <2>7 DEF UploadFailed, FailDispatch
    <2>8. CASE MarkPrinting(i)        BY <2>8 DEF MarkPrinting
    <2>9. CASE Publish(i)
      <3>1. /\ reserved' = reserved /\ sends'[i] # 0
            /\ pc' = [pc EXCEPT ![i] = "unwinding"]
            /\ unconfirmed' = [unconfirmed EXCEPT ![i] = {}]
            /\ \A j \in Items : j # i => sends'[j] = sends[j]
        BY <2>9 DEF Publish
      <3> QED BY <3>1
    <2>10. CASE DeferUntilIdle(i)     BY <2>10 DEF DeferUntilIdle
    <2>11. CASE SendFailed(i)         BY <2>11 DEF SendFailed, FailDispatch
    <2>12. CASE Unwind(i)
      <3> SUFFICES ASSUME Spared({"restart", "db"})' PROVE ReservationInv'
        BY DEF ReservationInv
      <3>1. ~Fault("db")
        BY DEF Fault, Spared, FaultKinds
      <3>2. /\ reserved' = IF BudgetToRelease(i) THEN [reserved EXCEPT ![i] = FALSE] ELSE reserved
            /\ pc' = [pc EXCEPT ![i] = "idle"] /\ pc[i] = "unwinding"
            /\ unconfirmed' = [unconfirmed EXCEPT ![i] = {}]
            /\ UNCHANGED sends
        BY <2>12, <3>1 DEF Unwind
      <3> QED BY <3>2 DEF BudgetToRelease
    <2>13. CASE UploadRefused(i)      BY <2>13 DEF UploadRefused
    <2>14. CASE DispatchRaises(i)     BY <2>14 DEF DispatchRaises, InTransit
    <2> QED BY <1>2, <2>1, <2>2, <2>3, <2>4, <2>5, <2>6, <2>7, <2>8, <2>9, <2>10, <2>11, <2>12, <2>13, <2>14
            DEF DispatchStep
  <1>3. CASE Restart
    BY <1>3 DEF Restart, Fault, ReservationInv, Spared, FaultKinds
  <1>4. CASE /\ ~ \E i \in Items : DispatchStep(i) \/ UploadRefused(i) \/ DispatchRaises(i)
             /\ ~ \E i \in Items, p \in Printers : Launch(i, p)
             /\ ~ Restart
    BY <1>0, <1>4, OtherSteps DEF ReservationInv
  <1> QED BY <1>1, <1>2, <1>3, <1>4

\* However a dispatch ends before its send (a lost claim, a refusal, a cancel, an
\* exception), it leaves no budget reserved for the row; a second reservation is
\* therefore never booked on top of a forgotten one.
THEOREM NoBudgetLeftBehind == Spec => []ReservationJustified
  <1>1. Init => ReservationInv
    BY DEF Init, ReservationInv
  <1>2. TypeOK /\ ReservationInv => ReservationJustified
    <2>1. TypeOK /\ ~(faults["restart"] + faults["db"] > 0) => Spared({"restart", "db"})
      BY SparedSum
    <2> QED BY <2>1 DEF ReservationInv, ReservationJustified
  <1> QED BY <1>1, <1>2, ReservationStep, DispatchTypes, PTL DEF Spec

-----------------------------------------------------------------------------
(* Claims.                                                                 *)

\* A claim is held by the dispatch that made it, which cannot end without clearing
\* it, unless the process died or no write of the finally block succeeded.
ClaimInv ==
  Spared({"restart", "db"}) => \A i \in Items : dispatching_at[i] => pc[i] \notin {"idle", "spawned"}

\* Only the compare-and-set of ClaimForDispatch makes a claim, and only Unwind ends
\* a coroutine that has one.
LEMMA ClaimStep == TypeOK /\ LaunchedFor /\ ClaimInv /\ [Next]_vars => ClaimInv'
  <1> SUFFICES ASSUME TypeOK, LaunchedFor, ClaimInv, [Next]_vars PROVE ClaimInv'
    OBVIOUS
  <1>. USE DEF TypeOK
  <1>0. Spared({"restart", "db"})' => Spared({"restart", "db"})
    BY SparedBefore DEF FaultKinds
  <1>1. ASSUME NEW i \in Items, NEW p \in Printers, Launch(i, p)
        PROVE  ClaimInv'
    BY <1>0, <1>1 DEF Launch, Selectable, ClaimInv, historyVars
  <1>2. ASSUME NEW i \in Items, DispatchStep(i) \/ UploadRefused(i) \/ DispatchRaises(i)
        PROVE  ClaimInv'
    <2>1. CASE ClaimForDispatch(i)
      BY <1>0, <2>1 DEF ClaimForDispatch, ClaimInv, historyVars
    <2>2. CASE Unwind(i)
      <3> SUFFICES ASSUME Spared({"restart", "db"})' PROVE ClaimInv'
        BY DEF ClaimInv
      <3>1. ~Fault("db")
        BY DEF Fault, Spared, FaultKinds
      <3>2. /\ dispatching_at' = [dispatching_at EXCEPT ![i] = FALSE]
            /\ pc' = [pc EXCEPT ![i] = "idle"]
        BY <2>2, <3>1 DEF Unwind
      <3> QED BY <1>0, <3>2 DEF ClaimInv
    <2>3. CASE ~ClaimForDispatch(i) /\ ~Unwind(i)
      <3>1. /\ UNCHANGED dispatching_at
            /\ \A j \in Items : pc'[j] = pc[j] \/ pc'[j] \notin {"idle", "spawned"}
        <4>. USE DEF rowVars
        <4>1. CASE BudgetRefused(i) \/ PrinterNotConnected(i) \/ UploadFailed(i) \/ SendFailed(i)
          BY <4>1 DEF BudgetRefused, PrinterNotConnected, UploadFailed, SendFailed, FailDispatch
        <4>2. CASE ReserveBudget(i) \/ RecheckRow(i) \/ UploadDone(i) \/ MarkPrinting(i)
          BY <4>2 DEF ReserveBudget, RecheckRow, UploadDone, MarkPrinting
        <4>3. CASE Publish(i) \/ DeferUntilIdle(i) \/ UploadRefused(i) \/ DispatchRaises(i)
          BY <4>3 DEF Publish, DeferUntilIdle, UploadRefused, DispatchRaises
        <4> QED BY <1>2, <2>3, <4>1, <4>2, <4>3 DEF DispatchStep
      <3> QED BY <1>0, <3>1 DEF ClaimInv
    <2> QED BY <2>1, <2>2, <2>3
  <1>3. CASE Restart
    BY <1>3 DEF Restart, Fault, ClaimInv, Spared, FaultKinds
  <1>4. CASE /\ ~ \E i \in Items : DispatchStep(i) \/ UploadRefused(i) \/ DispatchRaises(i)
             /\ ~ \E i \in Items, p \in Printers : Launch(i, p)
             /\ ~ Restart
    BY <1>0, <1>4, OtherSteps DEF ClaimInv
  <1> QED BY <1>1, <1>2, <1>3, <1>4

\* However a dispatch ends (a refusal, a cancel, an exception, a failed send), its
\* row is open again to the scheduler and to edits.
THEOREM NoClaimLeftBehind == Spec => []ClaimJustified
  <1>1. Init => ClaimInv
    BY DEF Init, ClaimInv
  <1>2. TypeOK /\ ClaimInv => ClaimJustified
    <2>1. TypeOK /\ ~(faults["restart"] + faults["db"] > 0) => Spared({"restart", "db"})
      BY SparedSum
    <2> QED BY <2>1 DEF ClaimInv, ClaimJustified
  <1> QED BY <1>1, <1>2, ClaimStep, DispatchTypes, PTL DEF Spec

-----------------------------------------------------------------------------
(* Expected prints.                                                        *)

\* A dispatch marks its expectation only once its file is on the printer, and
\* every expectation is marked by a dispatch or known to have been sent there.
ExpectationInv ==
  /\ ExpectationJustified
  /\ \A i \in Items : "expected" \in unconfirmed[i] => pc[i] \in {"registered", "committed", "unwinding"}

\* A step that expects nothing and takes the mark off no dispatch keeps it.
LEMMA ExpectationKept ==
  ASSUME ExpectationInv,
         \A p \in Printers : expected_prints'[p] \subseteq expected_prints[p],
         \A i \in Items : sent_to[i] \subseteq sent_to'[i],
         \A i \in Items : "expected" \in unconfirmed'[i] <=> "expected" \in unconfirmed[i],
         \A i \in Items : "expected" \in unconfirmed[i] =>
           inflight'[i] = inflight[i] /\ pc'[i] \in {"registered", "committed", "unwinding"}
  PROVE  ExpectationInv'
  BY DEF ExpectationInv, ExpectationJustified

\* Only UploadDone expects a print, under a mark; the mark goes when the print is
\* sent, and when the expectation is withdrawn with it.
LEMMA ExpectationStep == TypeOK /\ LaunchedFor /\ ExpectationInv /\ [Next]_vars => ExpectationInv'
  <1> SUFFICES ASSUME TypeOK, LaunchedFor, ExpectationInv, [Next]_vars PROVE ExpectationInv'
    OBVIOUS
  <1>. USE DEF TypeOK
  <1>0. \A i \in Items : "expected" \in unconfirmed[i] => pc[i] \in {"registered", "committed", "unwinding"}
    BY DEF ExpectationInv
  <1>1. ASSUME NEW i \in Items, NEW p \in Printers, Launch(i, p)
        PROVE  ExpectationInv'
    <2>1. pc[i] = "idle"
      BY <1>1 DEF Launch, Selectable, LaunchedFor
    <2> QED BY <1>0, <1>1, <2>1, ExpectationKept DEF Launch, memoryVars, historyVars
  <1>2. ASSUME NEW i \in Items, DispatchStep(i) \/ UploadRefused(i) \/ DispatchRaises(i)
        PROVE  ExpectationInv'
    <2>. USE <1>0, ExpectationKept DEF memoryVars, historyVars
    <2>1. CASE ClaimForDispatch(i)    BY <2>1 DEF ClaimForDispatch
    <2>2. CASE ReserveBudget(i)       BY <2>2 DEF ReserveBudget
    <2>3. CASE BudgetRefused(i)       BY <2>3 DEF BudgetRefused, FailDispatch
    <2>4. CASE RecheckRow(i)          BY <2>4 DEF RecheckRow
    <2>5. CASE PrinterNotConnected(i) BY <2>5 DEF PrinterNotConnected, FailDispatch
    <2>6. CASE UploadDone(i)
      <3>1. inflight[i] \in Printers
        BY <2>6 DEF UploadDone, LaunchedFor, PrinterOrNone
      <3>2. /\ pc[i] = "uploading" /\ pc' = [pc EXCEPT ![i] = "registered"]
            /\ expected_prints' = [expected_prints EXCEPT ![inflight[i]] = @ \cup {FileOf[i]}]
            /\ unconfirmed' = [unconfirmed EXCEPT ![i] = @ \cup {"expected"}]
            /\ UNCHANGED <<inflight, sent_to>>
        BY <2>6 DEF UploadDone
      <3>3. ASSUME NEW p \in Printers, NEW f \in expected_prints'[p]
            PROVE  \E j \in Items : /\ FileOf[j] = f
                                    /\ p \in sent_to'[j] \/ (inflight'[j] = p /\ "expected" \in unconfirmed'[j])
        <4>1. CASE f \in expected_prints[p]
          BY <3>2, <4>1 DEF ExpectationInv, ExpectationJustified
        <4>2. CASE p = inflight[i] /\ f = FileOf[i]
          BY <3>2, <4>2
        <4> QED BY <3>1, <3>2, <4>1, <4>2
      <3>4. \A j \in Items : "expected" \in unconfirmed'[j] => pc'[j] \in {"registered", "committed", "unwinding"}
        BY <3>2
      <3> QED BY <3>3, <3>4 DEF ExpectationInv, ExpectationJustified
    <2>7. CASE UploadFailed(i)        BY <2>7 DEF UploadFailed, FailDispatch
    <2>8. CASE MarkPrinting(i)        BY <2>8 DEF MarkPrinting
    <2>9. CASE Publish(i)
      <3>1. /\ sent_to' = [sent_to EXCEPT ![i] = @ \cup {inflight[i]}]
            /\ unconfirmed' = [unconfirmed EXCEPT ![i] = {}]
            /\ pc' = [pc EXCEPT ![i] = "unwinding"]
            /\ UNCHANGED <<inflight, expected_prints>>
        BY <2>9 DEF Publish
      <3>2. inflight[i] \in sent_to'[i] /\ \A j \in Items : sent_to[j] \subseteq sent_to'[j]
        BY <3>1
      <3>3. \A p \in Printers, j \in Items :
              p \in sent_to[j] \/ (inflight[j] = p /\ "expected" \in unconfirmed[j]) =>
                p \in sent_to'[j] \/ (inflight'[j] = p /\ "expected" \in unconfirmed'[j])
        BY <3>1, <3>2
      <3>4. ExpectationJustified'
        BY <3>1, <3>3 DEF ExpectationInv, ExpectationJustified
      <3>5. \A j \in Items : "expected" \in unconfirmed'[j] => pc'[j] \in {"registered", "committed", "unwinding"}
        BY <1>0, <3>1
      <3> QED BY <3>4, <3>5 DEF ExpectationInv
    <2>10. CASE DeferUntilIdle(i)     BY <2>10 DEF DeferUntilIdle
    <2>11. CASE SendFailed(i)         BY <2>11 DEF SendFailed, FailDispatch
    <2>12. CASE Unwind(i)
      <3>1. /\ inflight[i] \in Printers
            /\ expected_prints' = [expected_prints EXCEPT ![inflight[i]] = @ \ RolledBack(i)]
            /\ unconfirmed' = [unconfirmed EXCEPT ![i] = {}]
            /\ pc' = [pc EXCEPT ![i] = "idle"]
            /\ inflight' = [inflight EXCEPT ![i] = NoPrinter]
            /\ UNCHANGED sent_to
        BY <2>12 DEF Unwind, LaunchedFor, PrinterOrNone
      <3>2. ASSUME NEW p \in Printers, NEW f \in expected_prints'[p]
            PROVE  \E j \in Items : /\ FileOf[j] = f
                                    /\ p \in sent_to'[j] \/ (inflight'[j] = p /\ "expected" \in unconfirmed'[j])
        <4>1. PICK j \in Items : /\ FileOf[j] = f
                                 /\ p \in sent_to[j] \/ (inflight[j] = p /\ "expected" \in unconfirmed[j])
          BY <3>1 DEF ExpectationInv, ExpectationJustified
        <4>2. CASE p \in sent_to[j] \/ j # i
          BY <3>1, <4>1, <4>2
        <4>3. CASE j = i /\ inflight[i] = p /\ "expected" \in unconfirmed[i]
          BY <3>1, <4>1, <4>3 DEF RolledBack
        <4> QED BY <4>1, <4>2, <4>3
      <3>3. \A j \in Items : "expected" \in unconfirmed'[j] => pc'[j] \in {"registered", "committed", "unwinding"}
        BY <1>0, <3>1
      <3> QED BY <3>2, <3>3 DEF ExpectationInv, ExpectationJustified
    <2>13. CASE UploadRefused(i)      BY <2>13 DEF UploadRefused
    <2>14. CASE DispatchRaises(i)     BY <2>14 DEF DispatchRaises
    <2> QED BY <1>2, <2>1, <2>2, <2>3, <2>4, <2>5, <2>6, <2>7, <2>8, <2>9, <2>10, <2>11, <2>12, <2>13, <2>14
            DEF DispatchStep
  <1>3. CASE Restart
    BY <1>3 DEF Restart, ExpectationInv, ExpectationJustified
  <1>4. CASE /\ ~ \E i \in Items : DispatchStep(i) \/ UploadRefused(i) \/ DispatchRaises(i)
             /\ ~ \E i \in Items, p \in Printers : Launch(i, p)
             /\ ~ Restart
    BY <1>0, <1>4, OtherSteps, ExpectationKept
  <1> QED BY <1>1, <1>2, <1>3, <1>4

\* No abort of a dispatch, at whatever await it strikes, leaves a print expected
\* that never went out, and a restart leaves none at all: a print started by hand
\* is not booked on a row that was cancelled.
THEOREM NoExpectationLeftBehind == Spec => []ExpectationJustified
  <1>1. Init => ExpectationInv
    BY DEF Init, ExpectationInv, ExpectationJustified
  <1>2. ExpectationInv => ExpectationJustified
    BY DEF ExpectationInv
  <1> QED BY <1>1, <1>2, ExpectationStep, DispatchTypes, PTL DEF Spec

-----------------------------------------------------------------------------
(* Completed rows.                                                         *)

\* Nothing, or the job of a row that was sent.
WasSent(i) == i = NoItem \/ sends[i] > 0

\* What a printer has received, prints or has finished was sent to it.
JobsWereSent ==
  \A p \in Printers : WasSent(loaded[p]) /\ WasSent(job[p]) /\ WasSent(completing[p].job)

\* A row that is printing and was not sent is about to be: there is a coroutine
\* between the commit and the command, unless an exception or a crash hit it.
CompletedInv ==
  Spared({"restart", "raise"}) =>
    /\ CompletedWasSent
    /\ \A i \in Items : status[i] = "printing" /\ sends[i] = 0 => pc[i] = "committed"

\* A job passes from the command to the printer, to its run and to its
\* completion; nothing enters that chain but by a send.
LEMMA JobsStep == TypeOK /\ LaunchedFor /\ JobsWereSent /\ [Next]_vars => JobsWereSent'
  <1> SUFFICES ASSUME TypeOK, LaunchedFor, JobsWereSent, [Next]_vars PROVE JobsWereSent'
    OBVIOUS
  <1>. USE DEF TypeOK, JobsWereSent, WasSent
  <1> DEFINE Same == UNCHANGED <<loaded, job, completing, sends>>
  <1>1. CASE Same
    BY <1>1
  <1>2. CASE UNCHANGED vars
    BY <1>1, <1>2 DEF vars, printerVars, routeVars, historyVars
  <1>3. ASSUME NEW i \in Items, NEW p \in Printers, Launch(i, p) \/ AssignOnly(i, p) PROVE Same
    BY <1>3 DEF Launch, AssignOnly, printerVars, routeVars, historyVars
  <1>4. ASSUME NEW i \in Items, DispatchStep(i) \/ UploadRefused(i) \/ DispatchRaises(i)
        PROVE  JobsWereSent'
    <2>1. CASE Same
      BY <1>1, <2>1
    <2>2. CASE /\ loaded' = [loaded EXCEPT ![inflight[i]] = i]
               /\ sends' = [sends EXCEPT ![i] = @ + 1]
               /\ UNCHANGED <<job, completing>>
      <3>1. \A j \in Items : sends[j] > 0 \/ j = i => sends'[j] > 0
        BY <2>2
      <3>2. \A p \in Printers : loaded'[p] \in {loaded[p], i}
        BY <2>2
      <3>3. \A p \in Printers : {loaded[p], job[p], completing[p].job} \subseteq Items \cup {NoItem}
        BY DEF Ends, NoEnd, ItemOrNone
      <3> QED BY <2>2, <3>1, <3>2, <3>3, ItemsAssumption
    <2> QED BY <1>4, <2>1, <2>2, DispatchFrame
  <1>5. ASSUME NEW i \in Items, WatchdogStep(i) \/ RouteStep(i) PROVE Same
    BY <1>5 DEF WatchdogStep, PrinterSeenActive, WatchdogGivesUp, WatchdogReads, RevertWrites, WatchdogWriteFails,
       RouteStep, CancelQueueItem, DeleteQueueItem, StopQueueItem, BulkUpdate, UpdateBegins, UpdateWrites,
       CancelReads, StopReads, RouteWrites, printerVars, routeVars, historyVars
  <1>6. ASSUME NEW p \in Printers, PrinterStep(p) PROVE JobsWereSent'
    <2>1. CASE PrinterStarts(p) \/ PrinterDrops(p) \/ HandStart(p)
      BY <2>1 DEF PrinterStarts, PrinterDrops, HandStart, routeVars, historyVars
    <2>2. ASSUME NEW o \in Outcomes, PrinterEnds(p, o) PROVE JobsWereSent'
      BY <2>2 DEF PrinterEnds
    <2>3. CASE OnPrintComplete(p) \/ CompletionWrites(p)
      <3>1. completing' = [completing EXCEPT ![p] = NoEnd] /\ UNCHANGED <<loaded, job, sends>>
        BY <2>3 DEF OnPrintComplete, CompletionWrites, printerVars, historyVars
      <3> QED BY <3>1 DEF NoEnd
    <2>6. CASE CompletionReads(p)
      BY <2>6 DEF CompletionReads, printerVars
    <2>4. CASE Reconnect(p)
      BY <2>4 DEF Reconnect, routeVars, historyVars
    <2>5. CASE Disconnect(p) \/ ClearPlate(p) \/ ExpireHolds(p)
      BY <2>5 DEF Disconnect, ClearPlate, ExpireHolds, printerVars, routeVars, historyVars
    <2> QED BY <1>6, <2>1, <2>2, <2>3, <2>4, <2>5, <2>6 DEF PrinterStep
  <1>7. ASSUME NEW elapsed \in SUBSET Printers, CloseStranded(elapsed) PROVE Same
    BY <1>7 DEF CloseStranded, printerVars, routeVars, historyVars
  <1>8. CASE ClearStaleClaims
    BY <1>1, <1>8 DEF ClearStaleClaims, printerVars, routeVars, historyVars
  <1>9. CASE Restart
    BY <1>9 DEF Restart, NoEnd
  <1> QED BY <1>1, <1>2, <1>3, <1>4, <1>5, <1>6, <1>7, <1>8, <1>9 DEF Next

\* The row a completion has read prints the file of the job that ended.
RowMatched == \A p \in Printers : completing[p].row # NoItem => Belongs(completing[p].row, p)

\* Completions come from ends of prints, go with the callback or the process, and
\* are touched by nothing else.
LEMMA CompletionSteps ==
  ASSUME TypeOK, LaunchedFor, [Next]_vars
  PROVE  \/ UNCHANGED completing
         \/ Restart
         \/ \E p \in Printers : \/ \E o \in Outcomes : PrinterEnds(p, o)
                               \/ OnPrintComplete(p) \/ CompletionReads(p) \/ CompletionWrites(p)
  <1>. USE DEF routeVars
  <1>1. CASE UNCHANGED vars
    BY <1>1 DEF vars
  <1>2. ASSUME NEW i \in Items, NEW p \in Printers, Launch(i, p) \/ AssignOnly(i, p) PROVE UNCHANGED completing
    BY <1>2 DEF Launch, AssignOnly
  <1>3. ASSUME NEW i \in Items, DispatchStep(i) \/ UploadRefused(i) \/ DispatchRaises(i)
        PROVE  UNCHANGED completing
    BY <1>3, DispatchFrame
  <1>4. ASSUME NEW i \in Items, WatchdogStep(i) \/ RouteStep(i) PROVE UNCHANGED completing
    BY <1>4 DEF WatchdogStep, PrinterSeenActive, WatchdogGivesUp, WatchdogReads, RevertWrites, WatchdogWriteFails,
       RouteStep, CancelQueueItem, DeleteQueueItem, StopQueueItem, BulkUpdate, UpdateBegins, UpdateWrites,
       CancelReads, StopReads, RouteWrites
  <1>5. ASSUME NEW p \in Printers, PrinterStarts(p) \/ PrinterDrops(p) \/ HandStart(p) \/ Disconnect(p)
                                   \/ Reconnect(p) \/ ClearPlate(p) \/ ExpireHolds(p)
        PROVE  UNCHANGED completing
    BY <1>5 DEF PrinterStarts, PrinterDrops, HandStart, Disconnect, Reconnect, ClearPlate, ExpireHolds
  <1>6. ASSUME NEW elapsed \in SUBSET Printers, CloseStranded(elapsed) PROVE UNCHANGED completing
    BY <1>6 DEF CloseStranded
  <1>7. CASE ClearStaleClaims
    BY <1>7 DEF ClearStaleClaims
  <1> QED BY <1>1, <1>2, <1>3, <1>4, <1>5, <1>6, <1>7 DEF Next, PrinterStep

\* A callback reads a row only under the name of the job that ended, and the job of
\* a completion never changes.
LEMMA RowMatchedStep == TypeOK /\ LaunchedFor /\ RowMatched /\ [Next]_vars => RowMatched'
  <1> SUFFICES ASSUME TypeOK, LaunchedFor, RowMatched, [Next]_vars PROVE RowMatched'
    OBVIOUS
  <1>. USE DEF TypeOK, RowMatched, Belongs
  <1>1. CASE UNCHANGED completing
    BY <1>1
  <1>2. CASE Restart
    BY <1>2 DEF Restart, NoEnd
  <1>3. ASSUME NEW p \in Printers, NEW o \in Outcomes, PrinterEnds(p, o) PROVE RowMatched'
    <2>1. \/ UNCHANGED completing
          \/ completing' = [completing EXCEPT ![p] = [job |-> job[p], outcome |-> o, row |-> NoItem]]
      BY <1>3 DEF PrinterEnds
    <2> QED BY <2>1
  <1>4. ASSUME NEW p \in Printers, OnPrintComplete(p) \/ CompletionWrites(p) PROVE RowMatched'
    <2>1. completing' = [completing EXCEPT ![p] = NoEnd]
      BY <1>4 DEF OnPrintComplete, CompletionWrites
    <2> QED BY <2>1 DEF NoEnd
  <1>5. ASSUME NEW p \in Printers, CompletionReads(p) PROVE RowMatched'
    <2>1. PICK i \in Printing(p) : Belongs(i, p) /\ completing' = [completing EXCEPT ![p].row = i]
      BY <1>5 DEF CompletionReads
    <2>2. completing[p] \in [job : ItemOrNone, outcome : Outcomes, row : ItemOrNone]
      BY <1>5 DEF CompletionReads, Ends
    <2>3. completing'[p].job = completing[p].job /\ completing'[p].row = i
      BY <2>1, <2>2
    <2> QED BY <2>1, <2>3
  <1> QED BY <1>1, <1>2, <1>3, <1>4, <1>5, CompletionSteps

\* It holds of every reachable state.
LEMMA RowMatchedHolds == Spec => []RowMatched
  <1>1. Init => RowMatched
    BY DEF Init, RowMatched, NoEnd
  <1> QED BY <1>1, RowMatchedStep, DispatchTypes, PTL DEF Spec

\* A completion that changes a row changes the one whose file it names.
LEMMA CompletionChanges ==
  ASSUME TypeOK, LaunchedFor, RowMatched, OwnFiles, NEW p \in Printers, NEW r \in Items,
         OnPrintComplete(p) \/ CompletionWrites(p), status'[r] # status[r]
  PROVE  completing[p].job = r
  <1>. USE DEF TypeOK
  <1>1. Belongs(r, p) /\ completing[p] # NoEnd
    <2>1. CASE OnPrintComplete(p)
      BY <2>1 DEF OnPrintComplete, Printing
    <2>2. CASE CompletionWrites(p)
      <3>1. completing[p].row = r
        BY <2>2 DEF CompletionWrites
      <3> QED BY <2>2, <3>1, CompletionWritesEnd, ItemsAssumption DEF RowMatched
    <2> QED BY <2>1, <2>2
  <1>2. completing[p].job \in Items /\ FileOf[completing[p].job] = FileOf[r]
    BY <1>1 DEF Belongs, Ends, ItemOrNone
  <1> QED BY <1>2 DEF OwnFiles

\* A row is closed as completed by the completion of its job, or by a sweep that
\* finds it printing with its dispatch over: both times it was sent.
LEMMA CompletedBySent ==
  ASSUME TypeOK, LaunchedFor, OneRowPerPrinter, JobsWereSent, RowMatched, CompletedInv, OwnFiles,
         Spared({"restart", "raise"}), [Next]_vars,
         NEW r \in Items, status'[r] = "completed", status[r] # "completed"
  PROVE  sends[r] > 0
  <1>. USE DEF TypeOK
  <1>1. CASE UNCHANGED status
    BY <1>1
  <1>2. ASSUME NEW i \in Items, NEW p \in Printers, Launch(i, p) \/ AssignOnly(i, p) PROVE UNCHANGED status
    BY <1>2 DEF Launch, AssignOnly
  <1>3. ASSUME NEW i \in Items, DispatchStep(i) \/ UploadRefused(i) \/ DispatchRaises(i) PROVE FALSE
    BY <1>3 DEF DispatchStep, ClaimForDispatch, ReserveBudget, BudgetRefused, RecheckRow, UploadDone,
       PrinterNotConnected, UploadFailed, FailDispatch, Failed, MarkPrinting, Publish, DeferUntilIdle, Deferred,
       SendFailed, Unwind, UploadRefused, DispatchRaises, rowVars
  <1>4. ASSUME NEW i \in Items, WatchdogStep(i) PROVE FALSE
    BY <1>4 DEF WatchdogStep, PrinterSeenActive, WatchdogGivesUp, WatchdogReads, RevertWrites, RevertRow,
       WatchdogWriteFails, rowVars
  <1>5. ASSUME NEW i \in Items, RouteStep(i) PROVE FALSE
    BY <1>5 DEF RouteStep, CancelQueueItem, DeleteQueueItem, StopQueueItem, BulkUpdate, UpdateBegins,
       UpdateWrites, CancelReads, StopReads, RouteWrites, rowVars
  <1>6. ASSUME NEW p \in Printers, PrinterStep(p) PROVE sends[r] > 0
    <2>1. CASE OnPrintComplete(p) \/ CompletionWrites(p)
      <3>1. completing[p].job = r
        BY <2>1, CompletionChanges
      <3> QED BY <3>1, ItemsAssumption DEF JobsWereSent, WasSent
    <2>2. CASE ~OnPrintComplete(p) /\ ~CompletionWrites(p)
      BY <1>1, <1>6, <2>2 DEF PrinterStep, PrinterStarts, PrinterDrops, HandStart, PrinterEnds,
         CompletionReads, Disconnect, Reconnect, ClearPlate, ExpireHolds, rowVars
    <2> QED BY <2>1, <2>2
  <1>7. ASSUME NEW elapsed \in SUBSET Printers, CloseStranded(elapsed) PROVE sends[r] > 0
    <2>1. /\ status[r] = "printing" /\ printer_id[r] # NoPrinter
          /\ GraceOver(printer_id[r])
      BY <1>7 DEF CloseStranded
    <2>2. terminal_since[printer_id[r]] = r
      BY <2>1 DEF GraceOver, Printing, OneRowPerPrinter
    <2>3. pc[r] = "idle"
      BY <2>1, <2>2 DEF GraceOver
    <2> QED BY <2>1, <2>3 DEF CompletedInv
  <1>8. CASE ClearStaleClaims \/ Restart
    BY <1>8 DEF ClearStaleClaims, Restart
  <1> QED BY <1>1, <1>2, <1>3, <1>4, <1>5, <1>6, <1>7, <1>8 DEF Next, vars, rowVars

\* No step makes a row printing without a coroutine about to send it.
LEMMA CompletedStep ==
  ASSUME OwnFiles
  PROVE  TypeOK /\ LaunchedFor /\ OneRowPerPrinter /\ JobsWereSent /\ RowMatched /\ CompletedInv /\ [Next]_vars
           => CompletedInv'
  <1> SUFFICES ASSUME TypeOK, LaunchedFor, OneRowPerPrinter, JobsWereSent, RowMatched, CompletedInv, [Next]_vars,
                      Spared({"restart", "raise"})'
               PROVE  CompletedInv'
    BY DEF CompletedInv
  <1>0. Spared({"restart", "raise"})
    BY SparedBefore DEF FaultKinds
  <1>. USE DEF TypeOK
  <1>1. \A i \in Items : sends'[i] >= sends[i] /\ sends'[i] \in Nat
    BY OtherSteps, DispatchFrame DEF Launch, Restart, historyVars
  <1>2. CompletedWasSent'
    BY <1>0, <1>1, CompletedBySent DEF CompletedInv, CompletedWasSent
  <1>3. ASSUME NEW r \in Items, status'[r] = "printing", sends'[r] = 0
        PROVE  pc'[r] = "committed"
    <2>0. sends[r] = 0 /\ (status[r] = "printing" => pc[r] = "committed")
      BY <1>0, <1>1, <1>3 DEF CompletedInv
    <2>1. ASSUME NEW i \in Items, NEW p \in Printers, Launch(i, p) PROVE pc'[r] = "committed"
      BY <1>3, <2>0, <2>1 DEF Launch, Selectable
    <2>2. ASSUME NEW i \in Items, DispatchStep(i) \/ UploadRefused(i) PROVE pc'[r] = "committed"
      <3>1. CASE i # r
        BY <1>3, <2>0, <2>2, <3>1 DEF DispatchStep, ClaimForDispatch, ReserveBudget, BudgetRefused, RecheckRow, UploadDone,
         PrinterNotConnected, UploadFailed, FailDispatch, Failed, MarkPrinting, Publish, DeferUntilIdle, Deferred,
         SendFailed, Unwind, UploadRefused, rowVars
      <3>2. CASE i = r /\ Publish(i)
        BY <1>3, <3>2 DEF Publish
      <3>3. CASE i = r /\ ~Publish(i)
        BY <1>3, <2>0, <2>2, <3>3 DEF DispatchStep, ClaimForDispatch, ReserveBudget, BudgetRefused, RecheckRow, UploadDone,
         PrinterNotConnected, UploadFailed, FailDispatch, Failed, MarkPrinting, DeferUntilIdle, Deferred,
         SendFailed, Unwind, UploadRefused, rowVars
      <3> QED BY <3>1, <3>2, <3>3
    <2>3. ASSUME NEW i \in Items, DispatchRaises(i) PROVE FALSE
      BY <2>3 DEF DispatchRaises, Fault, Spared, FaultKinds
    <2>4. CASE Restart
      BY <2>4 DEF Restart, Fault, Spared, FaultKinds
    <2>5. CASE /\ ~ \E i \in Items : DispatchStep(i) \/ UploadRefused(i) \/ DispatchRaises(i)
               /\ ~ \E i \in Items, p \in Printers : Launch(i, p)
               /\ ~ Restart
      BY <1>3, <2>0, <2>5, OtherSteps
    <2> QED BY <2>1, <2>2, <2>3, <2>4, <2>5
  <1> QED BY <1>2, <1>3 DEF CompletedInv

\* Rows cannot be moved onto a printer that is taken: PATCH /{id} is not in use,
\* or there is no second row.
NoRowMovedAcross == "single" \notin EditRoutes \/ \A i, j \in Items : i = j

\* A row is closed as completed only after its print was sent, if rows have files
\* of their own and no crash or exception hit between the commit and the send.
THEOREM CompletedRowsWereSent ==
  ASSUME OwnFiles, NoRowMovedAcross
  PROVE  Spec => [](Spared({"restart", "raise"}) => CompletedWasSent)
  <1>1. Spec => []OneRowPerPrinter
    <2>1. CASE "single" \notin EditRoutes
      BY <2>1, PrinterPrintsOneRow
    <2>2. CASE \A i, j \in Items : i = j
      <3>1. OneRowPerPrinter
        BY <2>2 DEF OneRowPerPrinter
      <3> QED BY <3>1, PTL
    <2> QED BY <2>1, <2>2 DEF NoRowMovedAcross
  <1>2. Init => TypeOK /\ LaunchedFor /\ JobsWereSent /\ CompletedInv
    BY TypeInit DEF Init, LaunchedFor, JobsWereSent, WasSent, NoEnd, CompletedInv, CompletedWasSent
  <1>3. OneRowPerPrinter /\ RowMatched /\ TypeOK /\ LaunchedFor /\ JobsWereSent /\ CompletedInv /\ [Next]_vars
          => (TypeOK /\ LaunchedFor /\ JobsWereSent /\ CompletedInv)'
    BY TypeStep, LaunchedForStep, JobsStep, CompletedStep
  <1>4. CompletedInv => (Spared({"restart", "raise"}) => CompletedWasSent)
    BY DEF CompletedInv
  <1> QED BY <1>1, <1>2, <1>3, <1>4, RowMatchedHolds, PTL DEF Spec

-----------------------------------------------------------------------------
(* Completions.                                                            *)

\* A completion ends the row whose job ended and no other, even one that changed
\* after the callback read it, if no two rows print files of one name: names are all
\* on_print_complete compares.
THEOREM CompletionsFindTheirRow ==
  ASSUME OwnFiles
  PROVE  Spec => CompletionClosesOwnRow
  <1> DEFINE Closes == \A p \in Printers, i \in Items :
               completing[p] # NoEnd /\ completing'[p] = NoEnd /\ status'[i] # status[i]
                 => completing[p].job = i
  <1>1. TypeOK /\ LaunchedFor /\ RowMatched /\ [Next]_vars => [Closes]_vars
    <2> SUFFICES ASSUME TypeOK, LaunchedFor, RowMatched, [Next]_vars, NEW p \in Printers, NEW i \in Items,
                        completing[p] # NoEnd, completing'[p] = NoEnd, status'[i] # status[i]
                 PROVE  completing[p].job = i
      OBVIOUS
    <2>. USE DEF TypeOK
    <2>1. CASE UNCHANGED completing
      BY <2>1
    <2>2. CASE Restart
      BY <2>2 DEF Restart
    <2>3. ASSUME NEW q \in Printers, OnPrintComplete(q) \/ CompletionWrites(q) PROVE completing[p].job = i
      <3>1. p = q
        BY <2>3 DEF OnPrintComplete, CompletionWrites
      <3> QED BY <2>3, <3>1, CompletionChanges
    <2>4. ASSUME NEW q \in Printers, \/ \E o \in Outcomes : PrinterEnds(q, o)
                                     \/ CompletionReads(q)
          PROVE  FALSE
      BY <2>4 DEF PrinterEnds, CompletionReads, rowVars
    <2> QED BY <2>1, <2>2, <2>3, <2>4, CompletionSteps
  <1> QED BY <1>1, DispatchTypes, RowMatchedHolds, PTL DEF Spec, CompletionClosesOwnRow

-----------------------------------------------------------------------------
(* Late starts.                                                            *)

\* Before its send a dispatch expects its print, or an earlier print of its row has
\* just consumed that; if it is broken off, no earlier print of the row is waiting.
OwnPrintExpected(i) ==
  /\ pc[i] \in {"registered", "committed"} =>
       FileOf[i] \in expected_prints[inflight[i]] \/ Active(inflight[i])
  /\ pc[i] = "unwinding" /\ "expected" \in unconfirmed[i] => loaded[inflight[i]] # i

\* What is left on a printer may start late, so its row's expectation must not go.
\* A second dispatch of the row that is broken off would take it; it is not, for
\* such a dispatch ends its row or has seen the printer active, with nothing left
\* to start; and what it expects is there or already consumed by the first print.
LateExcuses == {"restart", "raise", "offline", "crossed_callback"}

LateInv ==
  Spared(LateExcuses) =>
    /\ LateStartExpected
    /\ \A p \in Printers : connected[p] /\ (Active(p) => loaded[p] = NoItem)
    /\ \A i \in Items : Open(i) => OwnPrintExpected(i)

\* What LateInv rests on: types, stages, and the marks of the dispatches.
LateBase == TypeOK /\ LaunchedFor /\ PrintingStage /\ ExpectationInv /\ CrossedInv

\* A row that is open was open before: ends are final where no revert is overtaken.
LEMMA OpenBefore ==
  ASSUME TypeOK, CrossedInv, Spared(LateExcuses), [Next]_vars, NEW r \in Items, Open(r)'
  PROVE  Open(r)
  <1>1. "revert" \notin readers[r]
    BY DEF CrossedInv, Spared, LateExcuses
  <1>2. status[r] \in Terminal => status'[r] \in Terminal
    BY <1>1, OverStep DEF EndKept
  <1> QED BY <1>2 DEF Open, TypeOK, Statuses, Terminal

\* A row whose start is not forgotten keeps its expectations, if no other row
\* prints a file of its name.
LEMMA ForgetsOnly ==
  ASSUME TypeOK, OwnFiles, NEW S \in SUBSET Items, ForgetUnstarted(S), NEW r \in Items \ S,
         NEW p \in Printers, FileOf[r] \in expected_prints[p]
  PROVE  FileOf[r] \in expected_prints'[p]
  BY DEF ForgetUnstarted, OwnFiles

\* A step that leaves the dispatches and the printers alone, and withdraws no
\* expectation of a row that stays open, keeps the invariant.
LEMMA LateKept ==
  ASSUME LateBase, LateInv, [Next]_vars,
         UNCHANGED <<pc, inflight, unconfirmed, connected, gcode_state>>,
         \A p \in Printers : loaded'[p] = loaded[p] \/ loaded'[p] = NoItem,
         \A i \in Items, p \in Printers :
           Open(i)' /\ FileOf[i] \in expected_prints[p] => FileOf[i] \in expected_prints'[p]
  PROVE  LateInv'
  <1> SUFFICES ASSUME Spared(LateExcuses)'
               PROVE  LateInv'
    BY DEF LateInv
  <1>1. Spared(LateExcuses)
    BY SparedBefore DEF LateBase, LateExcuses, FaultKinds
  <1>2. \A i \in Items : Open(i)' => Open(i)
    BY <1>1, OpenBefore DEF LateBase
  <1>3. \A p \in Printers : loaded[p] \in Items \cup {NoItem}
    BY DEF LateBase, TypeOK, ItemOrNone
  <1>4. LateStartExpected'
    BY <1>1, <1>2, <1>3 DEF LateInv, LateStartExpected, Open
  <1>5. \A p \in Printers : connected'[p] /\ (Active(p)' => loaded'[p] = NoItem)
    BY <1>1 DEF LateInv, Active
  <1>6. ASSUME NEW i \in Items, Open(i)'
        PROVE  OwnPrintExpected(i)'
    <2>1. pc[i] # "idle" => inflight[i] \in Printers
      BY DEF LateBase, TypeOK, LaunchedFor, PrinterOrNone
    <2> QED BY <1>1, <1>2, <1>6, <2>1, ItemsAssumption DEF LateInv, OwnPrintExpected, Active
  <1> QED BY <1>4, <1>5, <1>6 DEF LateInv

\* The steps of a dispatch: an open row that is broken off with its expectation
\* marked has just found its printer active.
LEMMA LateDispatch ==
  ASSUME LateBase, LateInv, OwnFiles, [Next]_vars,
         NEW i \in Items, DispatchStep(i) \/ UploadRefused(i)
  PROVE  LateInv'
  <1> SUFFICES ASSUME Spared(LateExcuses)'
               PROVE  LateInv'
    BY DEF LateInv
  <1>. USE DEF LateBase, TypeOK
  <1>1. Spared(LateExcuses)
    BY SparedBefore DEF LateExcuses, FaultKinds
  <1>2. \A r \in Items : Open(r)' => Open(r)
    BY <1>1, OpenBefore
  <1>3. \A j \in Items : pc[j] # "idle" => inflight[j] \in Printers
    BY DEF LaunchedFor, PrinterOrNone
  <1>4. /\ UNCHANGED <<connected, gcode_state>>
        /\ \/ UNCHANGED loaded /\ ~Publish(i)
           \/ Publish(i) /\ loaded' = [loaded EXCEPT ![inflight[i]] = i]
    <2>1. CASE Publish(i)  BY <2>1, <1>3 DEF Publish
    <2>2. CASE ~Publish(i) BY <2>2, DispatchFrame
    <2> QED BY <2>1, <2>2
  <1>5. \A j \in Items \ {i} : pc'[j] = pc[j] /\ inflight'[j] = inflight[j] /\ unconfirmed'[j] = unconfirmed[j]
    BY DEF DispatchStep, ClaimForDispatch, ReserveBudget, BudgetRefused, RecheckRow, UploadDone,
       PrinterNotConnected, UploadFailed, FailDispatch, MarkPrinting, Publish, DeferUntilIdle,
       SendFailed, Unwind, UploadRefused
  \* What an open row that is not on its way out through Unwind keeps.
  <1>6. ASSUME NEW r \in Items, Open(r)', NEW p \in Printers, FileOf[r] \in expected_prints[p],
               loaded[p] = r \/ r # i \/ p # inflight[i]
        PROVE  FileOf[r] \in expected_prints'[p]
    <2>1. CASE Unwind(i)
      <3>1. expected_prints' = [expected_prints EXCEPT ![inflight[i]] = @ \ RolledBack(i)]
        BY <2>1 DEF Unwind
      <3>2. CASE r = i /\ p = inflight[i] /\ "expected" \in unconfirmed[i]
        BY <1>1, <1>2, <1>6, <2>1, <3>2 DEF LateInv, OwnPrintExpected, Unwind
      <3>3. CASE p # inflight[i] \/ "expected" \notin unconfirmed[i]
        BY <1>6, <3>1, <3>3 DEF RolledBack
      <3>4. CASE r # i
        BY <1>6, <3>1, <3>4 DEF RolledBack, OwnFiles
      <3> QED BY <3>2, <3>3, <3>4
    <2>2. CASE UploadDone(i)
      BY <1>6, <2>2 DEF UploadDone
    <2>3. CASE ~Unwind(i) /\ ~UploadDone(i)
      <3>1. UNCHANGED expected_prints
        BY <2>3 DEF DispatchStep, ClaimForDispatch, ReserveBudget, BudgetRefused, RecheckRow,
           PrinterNotConnected, UploadFailed, FailDispatch, MarkPrinting, Publish, DeferUntilIdle,
           SendFailed, UploadRefused, memoryVars
      <3> QED BY <1>6, <3>1
    <2> QED BY <2>1, <2>2, <2>3
  \* The row's own dispatch, by the stage it has reached.
  <1>7. ASSUME Open(i)' PROVE  OwnPrintExpected(i)'
    <2>. USE DEF OwnPrintExpected, Active
    <2>0. "expected" \in unconfirmed[i] => pc[i] \in {"registered", "committed", "unwinding"}
      BY DEF ExpectationInv
    <2>1. CASE ClaimForDispatch(i) \/ ReserveBudget(i) \/ RecheckRow(i) \/ UploadRefused(i)
      BY <2>0, <2>1 DEF ClaimForDispatch, ReserveBudget, RecheckRow, UploadRefused
    <2>2. CASE BudgetRefused(i) \/ PrinterNotConnected(i) \/ UploadFailed(i) \/ SendFailed(i)
      <3>1. status'[i] = Failed(i)
        BY <2>2 DEF BudgetRefused, PrinterNotConnected, UploadFailed, SendFailed, FailDispatch
      <3> QED BY <1>7, <3>1 DEF Open, Failed
    <2>3. CASE UploadDone(i)
      BY <1>3, <2>3 DEF UploadDone
    <2>4. CASE MarkPrinting(i)
      <3>1. CASE status[i] = "pending"
        <4>1. UNCHANGED <<inflight, expected_prints, gcode_state>> /\ pc[i] = "registered" /\ pc'[i] = "committed"
          BY <2>4, <3>1 DEF MarkPrinting, memoryVars, printerVars
        <4> QED BY <1>1, <1>2, <1>7, <4>1 DEF LateInv, Active
      <3>2. CASE status[i] # "pending"
        BY <1>7, <2>4, <3>2 DEF MarkPrinting, Open, PrintingStage
      <3> QED BY <3>1, <3>2
    <2>5. CASE Publish(i)
      BY <2>5 DEF Publish
    <2>6. CASE DeferUntilIdle(i)
      <3>1. Active(inflight[i]) /\ inflight[i] \in Printers
        BY <1>3, <2>6 DEF DeferUntilIdle
      <3>2. loaded[inflight[i]] = NoItem
        BY <1>1, <3>1 DEF LateInv
      <3> QED BY <2>6, <3>2, ItemsAssumption DEF DeferUntilIdle, printerVars
    <2>7. CASE Unwind(i)
      BY <2>7 DEF Unwind
    <2> QED BY <2>1, <2>2, <2>3, <2>4, <2>5, <2>6, <2>7 DEF DispatchStep
  <1>8. LateStartExpected'
    <2>0. \A p \in Printers : loaded'[p] \in Items \cup {NoItem}
      BY <1>4 DEF ItemOrNone
    <2> SUFFICES ASSUME NEW p \in Printers, NEW k \in Items, loaded'[p] = k, Open(k)'
                 PROVE  FileOf[k] \in expected_prints'[p]
      BY <2>0 DEF LateStartExpected, Open
    <2>1. CASE loaded[p] = k
      <3>1. FileOf[k] \in expected_prints[p]
        BY <1>1, <1>2, <2>1, ItemsAssumption DEF LateInv, LateStartExpected, Open
      <3> QED BY <1>6, <2>1, <3>1
    <2>2. CASE Publish(i) /\ p = inflight[i] /\ k = i
      <3>1. pc[i] = "committed" /\ ~Active(inflight[i]) /\ UNCHANGED expected_prints
        BY <2>2 DEF Publish
      <3> QED BY <1>1, <1>2, <2>2, <3>1 DEF LateInv, OwnPrintExpected
    <2> QED BY <1>3, <1>4, <2>1, <2>2
  <1>9. \A p \in Printers : connected'[p] /\ (Active(p)' => loaded'[p] = NoItem)
    BY <1>1, <1>4 DEF LateInv, Active, Publish
  <1>10. ASSUME NEW j \in Items \ {i}, Open(j)'
         PROVE  OwnPrintExpected(j)'
    <2>. USE DEF OwnPrintExpected, Active
    <2>1. pc[j] \in {"registered", "committed"} => FileOf[j] \in expected_prints'[inflight[j]] \/ Active(inflight[j])
      BY <1>1, <1>2, <1>3, <1>6, <1>10 DEF LateInv
    <2>2. pc[j] = "unwinding" /\ "expected" \in unconfirmed[j] => loaded'[inflight[j]] # j
      BY <1>1, <1>2, <1>3, <1>4, <1>10 DEF LateInv
    <2> QED BY <1>4, <1>5, <2>1, <2>2 DEF Active
  <1> QED BY <1>7, <1>8, <1>9, <1>10 DEF LateInv

\* The steps of a printer and its callbacks: a start consumes its own expectation
\* and makes the printer active, and a print ends only when no dispatch is between
\* registration and send.
LEMMA LatePrinter ==
  ASSUME LateBase, LateInv, [Next]_vars, NEW p \in Printers, PrinterStep(p)
  PROVE  LateInv'
  <1> SUFFICES ASSUME Spared(LateExcuses)'
               PROVE  LateInv'
    BY DEF LateInv
  <1>. USE DEF LateBase, TypeOK
  <1>1. Spared(LateExcuses)
    BY SparedBefore DEF LateExcuses, FaultKinds
  <1>2. \A j \in Items : pc[j] # "idle" => inflight[j] \in Printers
    BY DEF LaunchedFor, PrinterOrNone
  <1>3. CASE PrinterStarts(p) \/ HandStart(p)
    <2>1. /\ gcode_state' = [gcode_state EXCEPT ![p] = "RUNNING"]
          /\ loaded' = [loaded EXCEPT ![p] = NoItem]
          /\ \A q \in Printers \ {p} : expected_prints'[q] = expected_prints[q]
          /\ UNCHANGED <<status, pc, inflight, unconfirmed, connected>>
      BY <1>3 DEF PrinterStarts, HandStart, rowVars, taskVars, memoryVars
    <2> QED BY <1>1, <1>2, <2>1, ItemsAssumption DEF LateInv, OwnPrintExpected, LateStartExpected, Open, Active
  <1>4. ASSUME NEW o \in Outcomes, PrinterEnds(p, o) PROVE LateInv'
    <2>1. /\ \A q \in Printers \ {p} : gcode_state'[q] = gcode_state[q]
          /\ Active(p) /\ ~Sending(p)
          /\ UNCHANGED <<status, pc, inflight, unconfirmed, connected, loaded, expected_prints>>
      BY <1>4 DEF PrinterEnds, rowVars, taskVars, memoryVars
    <2>2. loaded[p] = NoItem
      BY <1>1, <2>1 DEF LateInv
    <2> QED BY <1>1, <1>2, <2>1, <2>2 DEF LateInv, OwnPrintExpected, LateStartExpected, Open, Active, Sending
  <1>5. CASE PrinterDrops(p) \/ ClearPlate(p) \/ ExpireHolds(p)
    BY <1>5, LateKept DEF PrinterDrops, ClearPlate, ExpireHolds, taskVars, memoryVars, printerVars
  <1>6. CASE OnPrintComplete(p)
    BY <1>6, LateKept DEF OnPrintComplete, taskVars, memoryVars, printerVars
  <1>9. CASE CompletionReads(p) \/ CompletionWrites(p)
    BY <1>9, LateKept DEF CompletionReads, CompletionWrites, taskVars, memoryVars, printerVars
  <1>7. CASE Disconnect(p)
    BY <1>7 DEF Disconnect, Fault, Spared, LateExcuses, FaultKinds
  <1>8. CASE Reconnect(p)
    BY <1>1, <1>8 DEF Reconnect, LateInv
  <1> QED BY <1>3, <1>4, <1>5, <1>6, <1>7, <1>8, <1>9 DEF PrinterStep

\* Every step keeps the invariant, if rows print files of their own.
LEMMA LateStep ==
  ASSUME OwnFiles
  PROVE  LateBase /\ LateInv /\ [Next]_vars => LateInv'
  <1> SUFFICES ASSUME LateBase, LateInv, [Next]_vars PROVE LateInv'
    OBVIOUS
  <1>. USE DEF taskVars, printerVars
  <1>1. CASE UNCHANGED vars
    BY <1>1, LateKept DEF vars, memoryVars
  <1>2. ASSUME NEW i \in Items, NEW p \in Printers, Launch(i, p) PROVE LateInv'
    <2>1. pc[i] = "idle"
      BY <1>2 DEF Launch, Selectable, LateBase, LaunchedFor
    <2>2. /\ \A j \in Items \ {i} : pc'[j] = pc[j] /\ inflight'[j] = inflight[j]
          /\ pc'[i] = "spawned"
          /\ UNCHANGED <<status, unconfirmed, connected, gcode_state, loaded, expected_prints>>
      BY <1>2, <2>1 DEF Launch, memoryVars, LateBase, TypeOK
    <2>3. Spared(LateExcuses)' => Spared(LateExcuses)
      BY SparedBefore DEF LateExcuses, FaultKinds, LateBase
    <2> QED BY <2>1, <2>2, <2>3 DEF LateInv, OwnPrintExpected, LateStartExpected, Open, Active
  <1>3. ASSUME NEW i \in Items, NEW p \in Printers, AssignOnly(i, p) PROVE LateInv'
    BY <1>3, LateKept DEF AssignOnly, memoryVars
  <1>4. ASSUME NEW i \in Items, DispatchStep(i) \/ UploadRefused(i) PROVE LateInv'
    BY <1>4, LateDispatch
  <1>5. ASSUME NEW i \in Items, DispatchRaises(i) PROVE LateInv'
    BY <1>5 DEF DispatchRaises, Fault, Spared, LateExcuses, FaultKinds, LateInv, LateBase, TypeOK
  <1>6. ASSUME NEW i \in Items, PrinterSeenActive(i) \/ WatchdogReads(i) \/ WatchdogWriteFails(i) PROVE LateInv'
    BY <1>6, LateKept DEF PrinterSeenActive, WatchdogReads, WatchdogWriteFails
  <1>7. ASSUME NEW i \in Items, NEW rejected \in BOOLEAN, WatchdogGivesUp(i, rejected) \/ RevertWrites(i, rejected)
        PROVE  LateInv'
    <2>0. UNCHANGED <<pc, inflight, unconfirmed, connected, gcode_state, loaded>>
      BY <1>7 DEF WatchdogGivesUp, RevertWrites
    <2>1. CASE RevertRow(i, rejected)
      <3>1. PICK S \in SUBSET {i} : ForgetUnstarted(S) /\ (S # {} => status'[i] = "failed")
        BY <2>1 DEF RevertRow, Withdrawn, LateBase, TypeOK
      <3>2. ASSUME NEW r \in Items, NEW p \in Printers, Open(r)', FileOf[r] \in expected_prints[p]
            PROVE  FileOf[r] \in expected_prints'[p]
        BY <3>1, <3>2, ForgetsOnly DEF Open, LateBase
      <3> QED BY <2>0, <3>2, LateKept
    <2>2. CASE UNCHANGED expected_prints
      BY <2>0, <2>2, LateKept
    <2> QED BY <1>7, <2>1, <2>2 DEF WatchdogGivesUp, RevertWrites
  <1>8. ASSUME NEW i \in Items, RouteStep(i) PROVE LateInv'
    BY <1>8, LateKept DEF RouteStep, CancelQueueItem, DeleteQueueItem, StopQueueItem, BulkUpdate, UpdateBegins,
       UpdateWrites, CancelReads, StopReads, RouteWrites, memoryVars
  <1>9. ASSUME NEW p \in Printers, PrinterStep(p) PROVE LateInv'
    BY <1>9, LatePrinter
  <1>10. ASSUME NEW elapsed \in SUBSET Printers, CloseStranded(elapsed) PROVE LateInv'
    <2>1. PICK S \in SUBSET Items : ForgetUnstarted(S) /\ \A r \in S : status'[r] \in Terminal
      BY <1>10 DEF CloseStranded, StateOutcome, TerminalState, Active, GcodeStates, Terminal, PrinterOrNone,
         LateBase, TypeOK
    <2>2. ASSUME NEW r \in Items, NEW p \in Printers, Open(r)', FileOf[r] \in expected_prints[p]
          PROVE  FileOf[r] \in expected_prints'[p]
      BY <2>1, <2>2, ForgetsOnly DEF Open, Terminal, LateBase
    <2> QED BY <1>10, <2>2, LateKept DEF CloseStranded
  <1>11. CASE ClearStaleClaims
    BY <1>11, LateKept DEF ClearStaleClaims, memoryVars
  <1>12. CASE Restart
    BY <1>12 DEF Restart, Fault, Spared, LateExcuses, FaultKinds, LateInv, LateBase, TypeOK
  <1> QED BY <1>1, <1>2, <1>3, <1>4, <1>5, <1>6, <1>7, <1>8, <1>9, <1>10, <1>11, <1>12 DEF Next, WatchdogStep

\* A job a printer may still start is expected there while its row is open,
\* through retries, edits, cancels, lost reports and failed writes, for any number
\* of printers: _forget_unstarted_print and the rollbacks withdraw neither too
\* much nor too early. A restart, an exception, a printer that went offline between
\* the two dispatches of a row, or an end that crosses a revert may break it.
THEOREM LateStartsAreExpected ==
  ASSUME OwnFiles
  PROVE  Spec => [](Spared(LateExcuses) => LateStartExpected)
  <1>1. Init => PrintingStage /\ ExpectationInv /\ CrossedInv /\ LateInv
    BY DEF Init, CrossedInv, PrintingStage, ExpectationInv, ExpectationJustified, LateInv, LateStartExpected,
       OwnPrintExpected, Active
  <1>2. TypeOK /\ LaunchedFor /\ PrintingStage /\ ExpectationInv /\ CrossedInv /\ LateInv /\ [Next]_vars
          => (PrintingStage /\ ExpectationInv /\ CrossedInv /\ LateInv)'
    BY PrintingStageStep, ExpectationStep, CrossedStep, LateStep DEF LateBase
  <1>3. LateInv => (Spared(LateExcuses) => LateStartExpected)
    BY DEF LateInv
  <1> QED BY <1>1, <1>2, <1>3, DispatchTypes, PTL DEF Spec
=============================================================================
