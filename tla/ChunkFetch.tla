------------------------------ MODULE ChunkFetch ------------------------------
(***************************************************************************)
(* What download_file relies on when it asks a publisher for a chunk of a  *)
(* file or for its digest: the abstract specification of FileClient's      *)
(* _request_chunk_retry and _request_verify_retry.                         *)
(*                                                                         *)
(* A call asks for one item.  If it returns, it returns that item, of a    *)
(* content the file had at some moment of the call, however many frames    *)
(* were lost, late or sent twice.  It may always fail instead.             *)
(***************************************************************************)
CONSTANTS
    Caller,   \* coroutines that make one call at a time
    Item,     \* what can be asked for: the chunks, and the digest of the whole
    Version,  \* contents the file may have
    Nothing   \* no call in progress; no answer

VARIABLES
    file,    \* the content of the publisher's file
    asking,  \* Caller -> the item it waits for, or Nothing
    seen,    \* Caller -> contents the file has had since the call in progress began
    got      \* Caller -> the answer its last call returned, or Nothing

vars == <<file, asking, seen, got>>

Init ==
    /\ file \in Version
    /\ asking = [c \in Caller |-> Nothing]
    /\ seen = [c \in Caller |-> {}]
    /\ got = [c \in Caller |-> Nothing]

Ask(c, i) ==
    /\ asking[c] = Nothing
    /\ asking' = [asking EXCEPT ![c] = i]
    /\ seen' = [seen EXCEPT ![c] = {file}]
    /\ got' = [got EXCEPT ![c] = Nothing]
    /\ UNCHANGED file

Return(c, v) ==
    /\ asking[c] # Nothing
    /\ v \in seen[c]
    /\ got' = [got EXCEPT ![c] = [item |-> asking[c], version |-> v]]
    /\ asking' = [asking EXCEPT ![c] = Nothing]
    /\ seen' = [seen EXCEPT ![c] = {}]
    /\ UNCHANGED file

\* Calls fail one by one, or together when their download is cancelled.
Fail(callers) ==
    /\ asking' = [c \in Caller |-> IF c \in callers THEN Nothing ELSE asking[c]]
    /\ seen' = [c \in Caller |-> IF c \in callers THEN {} ELSE seen[c]]
    /\ UNCHANGED <<file, got>>

Edit(v) ==
    /\ file' = v
    /\ seen' = [c \in Caller |-> IF asking[c] = Nothing THEN seen[c] ELSE seen[c] \cup {v}]
    /\ UNCHANGED <<asking, got>>

Next ==
    \/ \E c \in Caller : (\E i \in Item : Ask(c, i)) \/ (\E v \in Version : Return(c, v))
    \/ \E callers \in SUBSET Caller : Fail(callers)
    \/ \E v \in Version : Edit(v)

Spec == Init /\ [][Next]_vars
=============================================================================
