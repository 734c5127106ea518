------------------------- MODULE MCResumableDownload -------------------------
(* ResumableDownload on small instances: sizes and fault budgets for TLC. *)
EXTENDS ResumableDownload, TLC

CONSTANTS v1, v2, v3

\* Edits that keep the size, in chunks; that shrink the file; that also empty it.
SameSize == [v \in Version |-> 2]
Shrinks  == v1 :> 2 @@ v2 :> 1
Empties  == v1 :> 2 @@ v2 :> 1 @@ v3 :> 0

Faults(fail, cancel, crash, change) ==
    "fail" :> fail @@ "cancel" :> cancel @@ "crash" :> crash @@ "change" :> change

SomeOfEach == Faults(1, 1, 1, 2)
JustCancel == Faults(0, 1, 0, 0)
OneCrash   == Faults(0, 0, 1, 0)
OneChange  == Faults(0, 0, 0, 1)
=============================================================================
