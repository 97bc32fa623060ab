------------------------- MODULE PrintQueueAbstract -------------------------
(***************************************************************************)
(* What the print queue promises, whatever coroutines and restarts do: a    *)
(* printer is leased to one row at a time, from the moment the scheduler    *)
(* turns to it until the row's print is over; a row prints only under a     *)
(* lease, is sent a bounded number of times, and once over stays over       *)
(* (unless Reopens: a stale write may take it back to waiting).            *)
(***************************************************************************)
EXTENDS Naturals

CONSTANTS Items, Printers, NoPrinter, MaxSends,
          Reopens  \* a print that did not start may be given back after its end

VARIABLES phase, lease, sent

vars == <<phase, lease, sent>>

Init ==
  /\ phase = [i \in Items |-> "waiting"]
  /\ lease = [i \in Items |-> NoPrinter]
  /\ sent = [i \in Items |-> 0]

Leased(i) == lease[i] # NoPrinter

Take(i, p) ==
  /\ phase[i] = "waiting" /\ ~Leased(i)
  /\ \A j \in Items : lease[j] # p
  /\ lease' = [lease EXCEPT ![i] = p]
  /\ UNCHANGED <<phase, sent>>

Begin(i) ==
  /\ phase[i] = "waiting" /\ Leased(i)
  /\ phase' = [phase EXCEPT ![i] = "printing"]
  /\ UNCHANGED <<lease, sent>>

\* A row that began may be sent even when it has just ended: the send and the
\* stop cross.
Send(i) ==
  /\ Leased(i) /\ phase[i] # "waiting"
  /\ sent[i] < MaxSends
  /\ sent' = [sent EXCEPT ![i] = @ + 1]
  /\ UNCHANGED <<phase, lease>>

\* The print did not start; the dispatch may still hold the lease.
GiveBack(i) ==
  /\ phase[i] = "printing" \/ (Reopens /\ phase[i] = "over")
  /\ phase' = [phase EXCEPT ![i] = "waiting"]
  /\ lease' \in {lease, [lease EXCEPT ![i] = NoPrinter]}
  /\ UNCHANGED sent

\* Rows end for good, and give up the lease now or with their dispatch.
End(S) ==
  /\ \A i \in S : phase[i] # "over"
  /\ phase' = [i \in Items |-> IF i \in S THEN "over" ELSE phase[i]]
  /\ \E kept \in SUBSET S : lease' = [i \in Items |-> IF i \in S \ kept THEN NoPrinter ELSE lease[i]]
  /\ UNCHANGED sent

Release(S) ==
  /\ \A i \in S : phase[i] # "printing"
  /\ lease' = [i \in Items |-> IF i \in S THEN NoPrinter ELSE lease[i]]
  /\ UNCHANGED <<phase, sent>>

Next ==
  \/ \E S \in SUBSET Items : End(S) \/ Release(S)
  \/ \E i \in Items : (\E p \in Printers : Take(i, p)) \/ Begin(i) \/ Send(i) \/ GiveBack(i)

Spec == Init /\ [][Next]_vars

\* A lease is exclusive, and a printing row has one.
Exclusive ==
  /\ \A i, j \in Items : Leased(i) /\ lease[i] = lease[j] => i = j
  /\ \A i \in Items : phase[i] = "printing" => Leased(i)
=============================================================================
