---------------------- MODULE PrintQueueAbstractProofs ----------------------
(* The abstract queue is worth implementing: its leases are exclusive.       *)
EXTENDS PrintQueueAbstract, TLAPS

LeasesTyped ==
  /\ phase \in [Items -> {"waiting", "printing", "over"}]
  /\ lease \in [Items -> Printers \cup {NoPrinter}]

\* Phases and leases keep their types, whatever the bound on sends is.
LEMMA AbstractTypeStep == LeasesTyped /\ [Next]_vars => LeasesTyped'
  <1> SUFFICES ASSUME LeasesTyped, [Next]_vars PROVE LeasesTyped'
    OBVIOUS
  <1>. USE DEF LeasesTyped
  <1>1. CASE UNCHANGED vars
    BY <1>1 DEF vars
  <1>2. ASSUME NEW i \in Items, NEW p \in Printers, Take(i, p) PROVE LeasesTyped'
    BY <1>2 DEF Take
  <1>3. ASSUME NEW i \in Items, Begin(i) \/ GiveBack(i) PROVE LeasesTyped'
    BY <1>3 DEF Begin, GiveBack
  <1>4. ASSUME NEW i \in Items, Send(i) PROVE LeasesTyped'
    BY <1>4 DEF Send
  <1>5. ASSUME NEW S \in SUBSET Items, End(S) \/ Release(S) PROVE LeasesTyped'
    BY <1>5 DEF End, Release
  <1> QED BY <1>1, <1>2, <1>3, <1>4, <1>5 DEF Next

\* Only Take creates a lease, on a printer nobody leases; a printing row gives
\* up its lease only when it ends or goes back.
LEMMA ExclusiveKept == LeasesTyped /\ Exclusive /\ [Next]_vars => Exclusive'
  <1> SUFFICES ASSUME LeasesTyped, Exclusive, [Next]_vars PROVE Exclusive'
    OBVIOUS
  <1>. USE DEF LeasesTyped, Exclusive, Leased
  <1>1. CASE UNCHANGED vars
    BY <1>1 DEF vars
  <1>2. ASSUME NEW i \in Items, NEW p \in Printers, Take(i, p) PROVE Exclusive'
    BY <1>2 DEF Take
  <1>3. ASSUME NEW i \in Items, Begin(i) \/ GiveBack(i) PROVE Exclusive'
    BY <1>3 DEF Begin, GiveBack
  <1>4. ASSUME NEW i \in Items, Send(i) PROVE Exclusive'
    BY <1>4 DEF Send
  <1>5. ASSUME NEW S \in SUBSET Items, End(S) PROVE Exclusive'
    BY <1>5 DEF End
  <1>6. ASSUME NEW S \in SUBSET Items, Release(S) PROVE Exclusive'
    BY <1>6 DEF Release
  <1> QED BY <1>1, <1>2, <1>3, <1>4, <1>5, <1>6 DEF Next

\* A printer is leased to one row at a time, and a printing row has a lease:
\* what a queue that implements this specification inherits.
THEOREM LeasesAreExclusive == Spec => []Exclusive
  <1>1. Init => LeasesTyped /\ Exclusive
    BY DEF Init, LeasesTyped, Exclusive, Leased
  <1> QED BY <1>1, AbstractTypeStep, ExclusiveKept, PTL DEF Spec
=============================================================================
