-------------------------- MODULE ResumableDownload --------------------------
(***************************************************************************)
(* The receiver's download of one file: FileClient.download_file in        *)
(* src/pfs/net/transfer.py over PartialFile in src/pfs/common/chunker.py,  *)
(* with the FileServer that answers it reduced to what its answers say     *)
(* about the publisher's file at the moment they are computed.             *)
(*                                                                         *)
(* The files on the receiver's disk (<target>, <target>.pfs-part,          *)
(* <target>.pfs-state and <target>.pfs-state.tmp) outlive a crash of the   *)
(* process; everything else does not.  A file is a function from chunk     *)
(* indices to what lies there, so one cell is one CHUNK_SIZE block and the *)
(* size of a file is its number of cells that are not Eof.                 *)
(*                                                                         *)
(* A Slot is a call of download_file together with all it may leave behind *)
(* when it ends early: the sibling workers asyncio.gather does not cancel  *)
(* and the asyncio.to_thread threads nothing can cancel.                   *)
(***************************************************************************)
EXTENDS Integers, FiniteSets

CONSTANTS
    Version,      \* contents the publisher's file may have
    N,            \* chunk indices are 0..N-1
    ChunkCount,   \* size of each version, in chunks
    Slot,         \* calls of download_file that may be alive at once
    Concurrency,  \* workers of a call
    Overlap,      \* may a call start while remains of an ended one still run?
    Budget,       \* how many faults of each kind a behaviour may have
    Absent,       \* no such file
    Hole,         \* zeros nobody wrote
    Torn,         \* a write cut short by a crash
    Eof           \* past the end of the file; as a payload: no bytes

Chunk  == 0 .. N - 1
Worker == Slot \X (1 .. Concurrency)
Fault  == {"fail", "cancel", "crash", "change"}
Cell   == Version \cup {Hole, Torn, Eof}
File   == [Chunk -> Cell]
State  == [size : 0 .. N, received : SUBSET Chunk]
Call   == [size : 0 .. N, received : SUBSET Chunk, queue : SUBSET Chunk,
           expected : Version, locked : BOOLEAN]
Job    == [index : Chunk, payload : Version \cup {Eof}]

ASSUME SizeAssumption ==
    /\ N \in Nat \ {0}
    /\ ChunkCount \in [Version -> 0 .. N]
    /\ Concurrency \in Nat \ {0}
    /\ Overlap \in BOOLEAN
    /\ Budget \in [Fault -> Nat]

ASSUME SentinelAssumption ==
    /\ Absent \notin File \cup State
    /\ {Hole, Torn, Eof} \cap Version = {}
    /\ Hole # Torn /\ Hole # Eof /\ Torn # Eof

VARIABLES
    part, tmp, state, target,   \* the four files of the receiver
    ver,    \* content of the publisher's file now
    man,    \* content it had when the manifest the receiver holds was made
    conn,   \* the call whose connection to the publisher is open
    pc,     \* call -> where download_file stands
    call,   \* call -> its PartialFile, queue, expected digest and lock
    fin,    \* call -> where its PartialFile.finish thread stands
    wpc,    \* worker -> where it, or its thread, stands
    job,    \* worker -> the chunk it works on and the payload it got
    left    \* faults that may still happen

disk == <<part, tmp, state, target>>
net  == <<ver, man, conn>>
vars == <<disk, net, pc, call, fin, wpc, job, left>>

-----------------------------------------------------------------------------
(* Files. *)

Empty == [k \in Chunk |-> Eof]

Content(v) == [k \in Chunk |-> IF k < ChunkCount[v] THEN v ELSE Eof]

\* seek and write: an empty payload changes nothing, a gap is filled with zeros.
WriteAt(f, i, d) ==
    IF d = Eof
    THEN f
    ELSE [k \in Chunk |-> IF k = i THEN d
                          ELSE IF k < i /\ f[k] = Eof THEN Hole ELSE f[k]]

\* truncate to n chunks, in either direction.
Resized(f, n) ==
    [k \in Chunk |-> IF k >= n THEN Eof ELSE IF f[k] = Eof THEN Hole ELSE f[k]]

-----------------------------------------------------------------------------
(* Calls. *)

Running == {"gather", "verify", "compute", "finish"}

WorkersOf(a) == {w \in Worker : w[1] = a}

\* Nothing of the call is left: no coroutine, no worker, no thread.
Quiet(a) ==
    /\ pc[a] \notin Running
    /\ fin[a] = "none"
    /\ \A w \in WorkersOf(a) : wpc[w] = "off"

Spend(fault) ==
    /\ left[fault] > 0
    /\ left' = [left EXCEPT ![fault] = @ - 1]

Init ==
    /\ part = Absent /\ tmp = Absent /\ state = Absent /\ target = Absent
    /\ ver \in Version
    /\ man = ver
    /\ conn = Absent
    /\ pc = [a \in Slot |-> "idle"]
    /\ call = [a \in Slot |-> [size |-> 0, received |-> {}, queue |-> {},
                               expected |-> ver, locked |-> FALSE]]
    /\ fin = [a \in Slot |-> "none"]
    /\ wpc = [w \in Worker |-> "off"]
    /\ job = [w \in Worker |-> [index |-> 0, payload |-> Eof]]
    /\ left = Budget

\* Mutant: the state file is ignored.
LoadedNothing(n) == {}

\* What _load_state takes over from an earlier call for a file of n chunks.
LoadedState(n) ==
    IF state # Absent /\ state.size = n THEN state.received ELSE {}

\* Mutant: one chunk too many.
MissingOneMore(n) == (0 .. n) \ LoadedState(n)

Missing(n) == {i \in Chunk : i < n} \ LoadedState(n)

\* The GUI starts a download once the one before has ended, the command line
\* once nothing is left of it.  open_share replaces the connection;
\* download_file loads the state, queues what is missing, starts its workers.
DownloadFile(a) ==
    /\ Quiet(a)
    /\ \A b \in Slot : IF Overlap THEN pc[b] \notin Running ELSE Quiet(b)
    /\ conn' = a
    /\ pc' = [pc EXCEPT ![a] = "gather"]
    /\ LET n == ChunkCount[man] IN
       /\ call' = [call EXCEPT ![a] =
                     [size |-> n, received |-> LoadedState(n), queue |-> Missing(n),
                      expected |-> @.expected, locked |-> FALSE]]
       /\ wpc' = [w \in Worker |->
                    IF w[1] = a /\ w[2] <= Cardinality(Missing(n))
                    THEN "take" ELSE wpc[w]]
    /\ UNCHANGED <<disk, ver, man, fin, job, left>>

\* The worker's coroutine ends with an exception: gather passes the first one
\* on to download_file at once and lets the other workers run.
WorkerRaises(w) ==
    /\ wpc' = [wpc EXCEPT ![w] = "off"]
    /\ pc' = [pc EXCEPT ![w[1]] = IF @ = "gather" THEN "failed" ELSE @]

\* Mutant: the lock is not released.
NotReleased(a) == call

Released(a) == [call EXCEPT ![a].locked = FALSE]

\* A thread of a cancelled call returns to nobody.
AfterThread(w, next) == IF pc[w[1]] = "cancelled" THEN "off" ELSE next

-----------------------------------------------------------------------------
(* A worker of download_file. *)

\* Mutant: a chunk counts as received when it is requested.
TakeClaims(w) ==
    /\ wpc[w] = "take"
    /\ LET a == w[1] IN
       \/ /\ call[a].queue = {}
          /\ wpc' = [wpc EXCEPT ![w] = "off"]
          /\ UNCHANGED <<call, job>>
       \/ \E i \in call[a].queue :
            /\ \A j \in call[a].queue : i <= j
            /\ call' = [call EXCEPT ![a].queue = @ \ {i}, ![a].received = @ \cup {i}]
            /\ job' = [job EXCEPT ![w].index = i]
            /\ wpc' = [wpc EXCEPT ![w] = "fetch"]
    /\ UNCHANGED <<disk, net, pc, fin, left>>

Take(w) ==
    /\ wpc[w] = "take"
    /\ LET a == w[1] IN
       \/ /\ call[a].queue = {}
          /\ wpc' = [wpc EXCEPT ![w] = "off"]
          /\ UNCHANGED <<call, job>>
       \/ \E i \in call[a].queue :
            /\ \A j \in call[a].queue : i <= j
            /\ call' = [call EXCEPT ![a].queue = @ \ {i}]
            /\ job' = [job EXCEPT ![w].index = i]
            /\ wpc' = [wpc EXCEPT ![w] = "fetch"]
    /\ UNCHANGED <<disk, net, pc, fin, left>>

\* _request_chunk_retry got an answer: what _read_at found at that offset in
\* the publisher's file as it is now, possibly nothing.
FetchChunk(w) ==
    /\ wpc[w] = "fetch"
    /\ conn = w[1]
    /\ job' = [job EXCEPT ![w].payload = Content(ver)[job[w].index]]
    /\ wpc' = [wpc EXCEPT ![w] = "lock"]
    /\ UNCHANGED <<disk, net, pc, call, fin, left>>

\* _request_chunk_retry has no attempt left.
FetchFails(w) ==
    /\ wpc[w] = "fetch"
    /\ IF conn = w[1] THEN Spend("fail") ELSE UNCHANGED left
    /\ WorkerRaises(w)
    /\ UNCHANGED <<disk, net, call, fin, job>>

Lock(w) ==
    /\ wpc[w] = "lock"
    /\ ~ call[w[1]].locked
    /\ call' = [call EXCEPT ![w[1]].locked = TRUE]
    /\ wpc' = [wpc EXCEPT ![w] = "open"]
    /\ UNCHANGED <<disk, net, pc, fin, job, left>>

\* Mutant: the part file is always opened with "w+b".
OpenPartEmptied(w) ==
    /\ wpc[w] = "open"
    /\ wpc' = [wpc EXCEPT ![w] = "create"]
    /\ UNCHANGED <<disk, net, pc, call, fin, job, left>>

\* write_chunk chooses its open mode by whether the part file exists ...
OpenPart(w) ==
    /\ wpc[w] = "open"
    /\ wpc' = [wpc EXCEPT ![w] = IF part = Absent THEN "create" ELSE "update"]
    /\ UNCHANGED <<disk, net, pc, call, fin, job, left>>

\* ... and opens and writes it: "w+b" empties a file made in between, "r+b"
\* does not find one moved away in between.
WriteChunk(w) ==
    /\ wpc[w] \in {"create", "update"}
    /\ wpc[w] = "create" \/ part # Absent
    /\ LET a == w[1]  i == job[w].index IN
       /\ part' = WriteAt(IF wpc[w] = "create" THEN Empty ELSE part, i, job[w].payload)
       /\ call' = [call EXCEPT ![a].received = @ \cup {i}]
    /\ wpc' = [wpc EXCEPT ![w] = AfterThread(w, "save")]
    /\ UNCHANGED <<tmp, state, target, net, pc, fin, job, left>>

\* The write, or the replace below, raises FileNotFoundError under the lock.
ThreadRaises(w) ==
    /\ \/ wpc[w] = "update" /\ part = Absent
       \/ wpc[w] = "replace" /\ tmp = Absent
    /\ call' = Released(w[1])
    /\ WorkerRaises(w)
    /\ UNCHANGED <<disk, net, fin, job, left>>

SaveState(w) ==
    /\ wpc[w] = "save"
    /\ tmp' = [size |-> call[w[1]].size, received |-> call[w[1]].received]
    /\ wpc' = [wpc EXCEPT ![w] = "replace"]
    /\ UNCHANGED <<part, state, target, net, pc, call, fin, job, left>>

ReplaceState(w) ==
    /\ wpc[w] = "replace"
    /\ tmp # Absent
    /\ state' = tmp
    /\ tmp' = Absent
    /\ call' = Released(w[1])
    /\ wpc' = [wpc EXCEPT ![w] = AfterThread(w, "take")]
    /\ UNCHANGED <<part, target, net, pc, fin, job, left>>

-----------------------------------------------------------------------------
(* download_file after its workers. *)

\* Mutant: verification starts once the queue is empty.
QueueEmptied(a) ==
    /\ pc[a] = "gather"
    /\ call[a].queue = {}
    /\ pc' = [pc EXCEPT ![a] = "verify"]
    /\ UNCHANGED <<disk, net, call, fin, wpc, job, left>>

Gathered(a) ==
    /\ pc[a] = "gather"
    /\ \A w \in WorkersOf(a) : wpc[w] = "off"
    /\ pc' = [pc EXCEPT ![a] = "verify"]
    /\ UNCHANGED <<disk, net, call, fin, wpc, job, left>>

\* The publisher hashes its file as it is now.
Verify(a) ==
    /\ pc[a] = "verify"
    /\ call' = [call EXCEPT ![a].expected = ver]
    /\ pc' = [pc EXCEPT ![a] = "compute"]
    /\ UNCHANGED <<disk, net, fin, wpc, job, left>>

VerifyFails(a) ==
    /\ pc[a] = "verify"
    /\ Spend("fail")
    /\ pc' = [pc EXCEPT ![a] = "failed"]
    /\ UNCHANGED <<disk, net, call, fin, wpc, job>>

\* Mutants: nothing is compared; only the sizes are.
Unverified(a) == TRUE

SizesAgree(a) ==
    \A k \in Chunk : Content(call[a].expected)[k] = Eof <=>
                      part = Absent \/ part[k] = Eof

\* The digests agree exactly when the contents do; no part file is an empty one.
DigestsAgree(a) ==
    Content(call[a].expected) = IF part = Absent THEN Empty ELSE part

ComputeSha256(a) ==
    /\ pc[a] = "compute"
    /\ \/ /\ DigestsAgree(a)
          /\ pc' = [pc EXCEPT ![a] = "finish"]
          /\ fin' = [fin EXCEPT ![a] = "resize"]
       \/ /\ ~ DigestsAgree(a)
          /\ pc' = [pc EXCEPT ![a] = "failed"]
          /\ UNCHANGED fin
    /\ UNCHANGED <<disk, net, call, wpc, job, left>>

\* The finish thread ends; its coroutine, unless cancelled, with it.
FinishReturns(a, result) ==
    /\ fin' = [fin EXCEPT ![a] = "none"]
    /\ pc' = [pc EXCEPT ![a] = IF @ = "finish" THEN result ELSE @]

\* finish creates an empty part file, or forces the manifest's size on it.
ResizePart(a) ==
    /\ fin[a] = "resize"
    /\ part # Absent \/ call[a].size = 0
    /\ part' = IF part = Absent THEN Empty ELSE Resized(part, call[a].size)
    /\ fin' = [fin EXCEPT ![a] = "promote"]
    /\ UNCHANGED <<tmp, state, target, net, pc, call, wpc, job, left>>

Promote(a) ==
    /\ fin[a] = "promote"
    /\ part # Absent
    /\ target' = part
    /\ part' = Absent
    /\ fin' = [fin EXCEPT ![a] = "clean"]
    /\ UNCHANGED <<tmp, state, net, pc, call, wpc, job, left>>

FinishRaises(a) ==
    /\ part = Absent
    /\ \/ fin[a] = "resize" /\ call[a].size # 0
       \/ fin[a] = "promote"
    /\ FinishReturns(a, "failed")
    /\ UNCHANGED <<disk, net, call, wpc, job, left>>

RemoveState(a) ==
    /\ fin[a] = "clean"
    /\ state' = Absent
    /\ FinishReturns(a, "done")
    /\ UNCHANGED <<part, tmp, target, net, call, wpc, job, left>>

-----------------------------------------------------------------------------
(* What the environment does. *)

\* The GUI cancels the download, or asyncio.run cancels what a failed one left.
\* Threads that run go on; one that is still queued may or may not start.
Cancel(a) ==
    /\ pc[a] # "cancelled" /\ ~ Quiet(a)
    /\ Spend("cancel")
    /\ pc' = [pc EXCEPT ![a] = "cancelled"]
    /\ call' = Released(a)
    /\ \E started \in SUBSET {w \in WorkersOf(a) : wpc[w] \in {"open", "save"}} :
         wpc' = [w \in Worker |->
                   IF w \notin WorkersOf(a) \/ w \in started
                      \/ wpc[w] \in {"create", "update", "replace"}
                   THEN wpc[w] ELSE "off"]
    /\ \/ UNCHANGED fin
       \/ fin[a] = "resize" /\ fin' = [fin EXCEPT ![a] = "none"]
    /\ UNCHANGED <<disk, net, job>>

\* What a crash leaves of a write: an empty one cannot be torn.
Cut(w) == IF job[w].payload = Eof THEN Eof ELSE Torn

\* The receiver's process dies, perhaps in the middle of a write.
Crash ==
    /\ \E a \in Slot : ~ Quiet(a)
    /\ Spend("crash")
    /\ \/ UNCHANGED part
       \/ \E w \in Worker :
            \/ wpc[w] = "create" /\ part' \in {Empty, WriteAt(Empty, job[w].index, Cut(w))}
            \/ /\ wpc[w] = "update" /\ part # Absent
               /\ part' = WriteAt(part, job[w].index, Cut(w))
    /\ conn' = Absent
    /\ pc' = [a \in Slot |-> "idle"]
    /\ fin' = [a \in Slot |-> "none"]
    /\ wpc' = [w \in Worker |-> "off"]
    /\ UNCHANGED <<tmp, state, target, ver, man, call, job>>

\* The publisher's user edits the file.
ChangeFile ==
    /\ Spend("change")
    /\ ver' \in Version \ {ver}
    /\ UNCHANGED <<disk, man, conn, pc, call, fin, wpc, job>>

\* The publisher scans its folder again and the receiver fetches the manifest.
Republish ==
    /\ man # ver
    /\ man' = ver
    /\ UNCHANGED <<disk, ver, conn, pc, call, fin, wpc, job, left>>

-----------------------------------------------------------------------------
WorkerStep(w) ==
    \/ Take(w) \/ FetchChunk(w) \/ FetchFails(w) \/ Lock(w)
    \/ OpenPart(w) \/ WriteChunk(w) \/ ThreadRaises(w)
    \/ SaveState(w) \/ ReplaceState(w)

CallStep(a) ==
    \/ Gathered(a) \/ Verify(a) \/ VerifyFails(a) \/ ComputeSha256(a)
    \/ ResizePart(a) \/ Promote(a) \/ FinishRaises(a) \/ RemoveState(a)

Next ==
    \/ \E w \in Worker : WorkerStep(w)
    \/ \E a \in Slot : DownloadFile(a) \/ CallStep(a) \/ Cancel(a)
    \/ Crash \/ ChangeFile \/ Republish

Spec == Init /\ [][Next]_vars

\* The event loop and its thread pool run what is ready, and every request is
\* answered or times out.
Scheduling ==
    /\ \A w \in Worker : WF_vars(WorkerStep(w))
    /\ \A a \in Slot : WF_vars(CallStep(a))

FairSpec == Spec /\ Scheduling

\* ... and the user tries again whenever a download has ended.
RetrySpec == FairSpec /\ \A a \in Slot : WF_vars(DownloadFile(a))

-----------------------------------------------------------------------------
(* Properties. *)

\* Types of all variables.
TypeOK ==
    /\ part \in File \cup {Absent}
    /\ tmp \in State \cup {Absent}
    /\ state \in State \cup {Absent}
    /\ target \in File \cup {Absent}
    /\ ver \in Version /\ man \in Version
    /\ conn \in Slot \cup {Absent}
    /\ pc \in [Slot -> Running \cup {"idle", "done", "failed", "cancelled"}]
    /\ call \in [Slot -> Call]
    /\ fin \in [Slot -> {"none", "resize", "promote", "clean"}]
    /\ wpc \in [Worker -> {"off", "take", "fetch", "lock", "open", "create",
                           "update", "save", "replace"}]
    /\ job \in [Worker -> Job]
    /\ left \in [Fault -> Nat]

\* What download_file leaves under the target's name is a content the
\* publisher's file really had, whole: never a mixture of two, never one with
\* a hole or a torn chunk (download_file's checksum test and the order of
\* verification and promotion).
TargetIsAVersion == target = Absent \/ \E v \in Version : target = Content(v)

\* What the finish thread of a call, or else its coroutine, is in the middle of.
Standing(a) ==
    IF fin[a] # "none" THEN IF fin[a] = "clean" THEN "replaced" ELSE "verifying"
    ELSE IF pc[a] \in {"gather", "verify"} THEN "open"
    ELSE IF pc[a] = "compute" THEN "verifying"
    ELSE IF pc[a] = "done" THEN "done"
    ELSE "idle"

\* download_file keeps the promise of VerifiedDownload: whatever was resumed, cancelled,
\* cut off or edited, the target changes only at once, to the content whose digest
\* that call asked for (at the size of a manifest), and a call that returns did it.
Verified == INSTANCE VerifiedDownload WITH
    file <- ver,
    standing <- [a \in Slot |-> Standing(a)],
    agreed <- [a \in Slot |-> call[a].expected],
    Copies <- [v \in Version |-> {Resized(Content(v), ChunkCount[u]) : u \in Version}]

VerifiedSpec == Verified!Spec

\* The same when edits change the size: the target is a content the file had,
\* forced to the size a manifest promised (finish truncates after the test).
TargetIsAVersionResized ==
    target = Absent \/ \E u, v \in Version : target = Resized(Content(u), ChunkCount[v])

\* A chunk the state file claims is in the part file, complete, at every
\* moment a crash could happen: write_chunk before save_state, in every
\* interleaving of the workers and after every resume.
ResumeSafe ==
    part # Absent /\ state # Absent =>
        \A i \in state.received : part[i] \in Version

\* Downloaded chunks are kept for a resume: while the state file of a size
\* exists, no step takes a chunk out of it (save_state of one call against
\* the one of another, of a cancelled thread or of a worker gather left).
KeepsProgress ==
    [][state # Absent /\ state' # Absent /\ state'.size = state.size
         => state.received \subseteq state'.received]_vars

\* When the part file is verified, hashed or promoted no worker and no
\* detached thread of any call can still write to it.
VerifiedUndisturbed ==
    \A a \in Slot : pc[a] \in {"verify", "compute", "finish"} \/ fin[a] # "none" =>
        \A w \in Worker : wpc[w] = "off"

\* Every call comes to its end, with its workers and threads: no worker waits
\* for ever for a lock a failed or cancelled one held.
AttemptsEnd == \A a \in Slot : []<>Quiet(a)

\* A user who keeps trying gets the file: failed requests, cancelled and
\* crashed attempts leave nothing behind that makes all later ones fail.
RetrySucceeds == []<>(\E a \in Slot : pc[a] = "done")

\* Three states stop all later attempts.  A crash left the promoted file's state
\* file behind; it still claims all the chunks.
Orphaned == target # Absent /\ part = Absent /\ state # Absent

\* After an edit the part file holds what no attempt writes again: the state file
\* claims the chunk, though other bytes or none are there (those of another content;
\* a short answer from a file that was briefly shorter; a state of another size,
\* left beside the part file), or it lies past the size downloaded now, in a part
\* file kept though its state was ignored.
Outdated ==
    /\ part # Absent
    /\ left["change"] < Budget["change"]
    /\ \E k \in Chunk :
         /\ part[k] # Content(ver)[k]
         /\ k >= ChunkCount[man] \/ k \in LoadedState(ChunkCount[man])

\* The file has grown since the manifest was made.
Outgrown == ChunkCount[man] < ChunkCount[ver]

\* ... and nothing else does: whatever failed, was cancelled, crashed or was
\* edited, the attempts of a user who keeps trying succeed, or the files are for
\* good in one of these states.
RetrySucceedsUnlessStuck ==
    RetrySucceeds \/ <>[](Orphaned \/ Outdated \/ Outgrown)
=============================================================================
