--------------------------- MODULE VerifiedDownload ---------------------------
(***************************************************************************)
(* What download_file of src/pfs/net/transfer.py promises to whoever calls *)
(* it: the abstract specification of ResumableDownload.                    *)
(*                                                                         *)
(* The target is left alone until, in one step, it becomes the content     *)
(* whose digest this very call was given, which the file had at that       *)
(* moment; and the call returns only after that.  A call may give up at    *)
(* any time.  Chunks, workers, the part file and the state file, whatever  *)
(* earlier calls left of them, and what is read of the file while it is    *)
(* edited do not appear: none of it can be told from the target.           *)
(***************************************************************************)
CONSTANTS
    Slot,      \* calls of download_file
    Version,   \* contents the publisher's file may have
    Copies,    \* Version -> what may be stored of a content that was verified
    Absent     \* no such file

VARIABLES
    file,      \* the content of the publisher's file
    target,    \* the file under the target's name
    standing,  \* Slot -> where the call stands
    agreed     \* Slot -> the content of the last digest it was given

vars == <<file, target, standing, agreed>>

Init ==
    /\ file \in Version
    /\ target = Absent
    /\ standing = [a \in Slot |-> "idle"]
    /\ agreed = [a \in Slot |-> file]

Begin(a) ==
    /\ standing[a] \in {"idle", "done"}
    /\ standing' = [standing EXCEPT ![a] = "open"]
    /\ UNCHANGED <<file, target, agreed>>

LearnDigest(a) ==
    /\ standing[a] = "open"
    /\ standing' = [standing EXCEPT ![a] = "verifying"]
    /\ agreed' = [agreed EXCEPT ![a] = file]
    /\ UNCHANGED <<file, target>>

\* A call that was cancelled may still do this: its thread cannot be stopped.
Replace(a) ==
    /\ standing[a] = "verifying"
    /\ target' \in Copies[agreed[a]]
    /\ standing' = [standing EXCEPT ![a] = "replaced"]
    /\ UNCHANGED <<file, agreed>>

Return(a) ==
    /\ standing[a] = "replaced"
    /\ standing' = [standing EXCEPT ![a] = "done"]
    /\ UNCHANGED <<file, target, agreed>>

\* One call fails or is cancelled, or all of them end with their process.
GiveUp(calls) ==
    /\ standing' = [a \in Slot |-> IF a \in calls THEN "idle" ELSE standing[a]]
    /\ UNCHANGED <<file, target, agreed>>

Edit(v) ==
    /\ file' = v
    /\ UNCHANGED <<target, standing, agreed>>

Next ==
    \/ \E a \in Slot : Begin(a) \/ LearnDigest(a) \/ Replace(a) \/ Return(a)
    \/ \E calls \in SUBSET Slot : GiveUp(calls)
    \/ \E v \in Version : Edit(v)

Spec == Init /\ [][Next]_vars
=============================================================================
