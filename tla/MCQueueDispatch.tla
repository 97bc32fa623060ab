-------------------------- MODULE MCQueueDispatch --------------------------
(* Instances of QueueDispatch for TLC: one or two rows, one or two printers, *)
(* and the faults each run allows once.                                      *)
EXTENDS QueueDispatch, TLC

CONSTANTS r1, r2, p1, p2, cube

TwoRows == {r1, r2}
OneRow  == {r1}
TwoPrinters == {p1, p2}
OnePrinter  == {p1}

\* Copies of one batch print the same file; a row that prints one of its own
\* lends it its name, so that the two are permuted together.
SameFile == [i \in Items |-> cube]
OwnFile  == [i \in Items |-> i]

Once(kinds) == [k \in FaultKinds |-> IF k \in kinds THEN 1 ELSE 0]
NoFaults      == Once({})
CrossedRoute  == Once({"crossed_route"})
CrashAndRaise == Once({"restart", "raise"})
PrinterFaults == Once({"refused", "foreign", "offline", "lost"})
LostReports   == Once({"lost", "db", "restart", "crossed_callback"})

\* With one printer a row nobody pinned to it differs only until its first launch.
AllPinned == \A i \in Items : pinned[i]

RowSymmetry     == Permutations(Items)
PrinterSymmetry == Permutations(Printers)
FullSymmetry    == Permutations(Items) \cup Permutations(Printers)
=============================================================================
