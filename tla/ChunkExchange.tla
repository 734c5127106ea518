----------------------------- MODULE ChunkExchange -----------------------------
(***************************************************************************)
(* The requests of one download over one connection, between FileClient    *)
(* and FileServer of src/pfs/net/transfer.py: request ids and futures,     *)
(* retries after a timeout or an error, the server's tasks that read in    *)
(* threads and answer in any order, and the two channels.                  *)
(*                                                                         *)
(* Requests, errors and digests go over the ctrl channel, chunks over the  *)
(* data channel; both are reliable and keep their order until the          *)
(* connection is lost.  What the file holds is its version; the bytes of   *)
(* a chunk and the digest are the version they were read from.             *)
(***************************************************************************)
EXTENDS Integers, Sequences, FiniteSets

CONSTANTS
    Caller,      \* the workers of download_file
    N,           \* chunks of the file are 0..N-1
    Digest,      \* the other thing to ask for: the sha256 of the whole file
    Version,     \* contents the publisher's file may have
    MaxRetries,  \* max_retries
    Buffered,    \* _BACKPRESSURE, in frames
    MaxEvents,   \* how many events the environment may cause
    Nothing      \* nothing asked for, nothing answered, nothing cached

Chunk  == 0 .. N - 1
Item   == Chunk \cup {Digest}
RId    == 0 .. N * (MaxRetries + 1)
Answer == [item : Item, version : Version]
Call   == [st : {"idle", "send", "wait", "ended"}, item : Item \cup {Nothing},
           attempt : 0 .. MaxRetries, id : RId,
           future : {"pending", "error", "result"}, answer : {Nothing} \cup Answer]
Task   == [id : RId \cup 0 .. MaxRetries, item : Item, st : {"asked", "hash", "send"},
           version : Version \cup {Nothing}]  \* for a digest, id is the attempt
Frame  == [id : RId, item : Chunk, version : Version]
Reply  == [what : {"done", "error"}, id : RId \cup {Nothing}, version : Version \cup {Nothing}]

ASSUME ExchangeAssumption ==
    /\ N \in Nat /\ MaxRetries \in Nat /\ Buffered \in Nat /\ MaxEvents \in Nat
    /\ Digest \notin Chunk
    /\ Nothing \notin Item \cup Version \cup RId

VARIABLES
    file,    \* content of the publisher's file
    cache,   \* FileServer._hash_cache for the file
    queue,   \* what download_file has still to ask for
    call,    \* Caller -> its request and the future it waits on
    seen,    \* history: Caller -> contents of the file since the call in progress began
    got,     \* Caller -> what its last call returned
    rid,     \* FileClient._rid
    tasks,   \* requests under way to the server or in a task of it
    ctrl,    \* the server's messages on the ctrl channel
    data,    \* the frames on the data channel
    open,    \* the connection
    left     \* edits, refusals, corruptions, cancels and losses that may still happen

server  == <<cache, tasks>>
wires   == <<ctrl, data, open>>
vars    == <<file, queue, call, seen, got, rid, left, server, wires>>

Idle == [st |-> "idle", item |-> Nothing, attempt |-> 0, id |-> 0,
         future |-> "pending", answer |-> Nothing]

Init ==
    /\ file \in Version
    /\ cache = Nothing
    /\ queue = Item
    /\ call = [c \in Caller |-> Idle]
    /\ seen = [c \in Caller |-> {}]
    /\ got = [c \in Caller |-> Nothing]
    /\ rid = 0
    /\ tasks = {}
    /\ ctrl = <<>> /\ data = <<>>
    /\ open = TRUE
    /\ left = MaxEvents

Spend == left > 0 /\ left' = left - 1

-----------------------------------------------------------------------------
(* FileClient: a call of _request_chunk_retry or _request_verify_retry. *)

\* A worker takes the next chunk; when all have, download_file asks for the digest.
IsNext(i) ==
    \/ i \in Chunk /\ \A j \in queue \cap Chunk : i <= j
    \/ i = Digest /\ queue = {Digest} /\ \A d \in Caller : call[d].st = "idle"

Begin(c, i) ==
    /\ call[c].st = "idle"
    /\ i \in queue /\ IsNext(i)
    /\ queue' = queue \ {i}
    /\ call' = [call EXCEPT ![c] = [Idle EXCEPT !.st = "send", !.item = i]]
    /\ seen' = [seen EXCEPT ![c] = {file}]
    /\ got' = [got EXCEPT ![c] = Nothing]
    /\ UNCHANGED <<file, rid, left, server, wires>>

\* Mutant: an id is free again when its request is over.
LowestFreeId == Cardinality({c \in Caller : call[c].st = "wait"})

FreshId == rid

\* The request of one attempt; a digest is asked for by path, without an id.
Request(c) ==
    /\ call[c].st = "send" /\ open
    /\ call' = [call EXCEPT ![c] = [@ EXCEPT !.st = "wait", !.id = FreshId]]
    /\ rid' = IF call[c].item = Digest THEN rid ELSE rid + 1
    /\ tasks' = tasks \cup
         {[id |-> IF call[c].item = Digest THEN call[c].attempt ELSE FreshId,
           item |-> call[c].item, st |-> "asked", version |-> Nothing]}
    /\ UNCHANGED <<file, cache, queue, seen, got, left, wires>>

\* send on a closed channel raises what no retry catches.
RequestRaises(c) ==
    /\ call[c].st = "send" /\ ~ open
    /\ call' = [call EXCEPT ![c] = [Idle EXCEPT !.st = "ended"]]
    /\ seen' = [seen EXCEPT ![c] = {}]
    /\ UNCHANGED <<file, queue, got, rid, left, server, wires>>

\* Whose future a frame or an error with this id finds; whose a digest does.
Awaiting(id) ==
    {c \in Caller : call[c].st = "wait" /\ call[c].item \in Chunk /\ call[c].id = id}

AwaitingDigest == {c \in Caller : call[c].st = "wait" /\ call[c].item = Digest}

\* set_result or set_exception, if the future is there and not done.
Resolve(waiting, future, answer) ==
    call' = [c \in Caller |->
               IF c \in waiting /\ call[c].future = "pending"
               THEN [call[c] EXCEPT !.future = future, !.answer = answer] ELSE call[c]]

\* on_data: the payload, if its digest matches; a malformed frame is dropped.
OnData ==
    /\ data # <<>>
    /\ data' = Tail(data)
    /\ LET f == Head(data) IN
       \/ /\ Resolve(Awaiting(f.id), "result", [item |-> f.item, version |-> f.version])
          /\ UNCHANGED left
       \/ Spend /\ (Resolve(Awaiting(f.id), "error", Nothing) \/ UNCHANGED call)
    /\ UNCHANGED <<file, queue, seen, got, rid, server, ctrl, open>>

\* on_ctrl: an error without an id fails nobody.
OnCtrl ==
    /\ ctrl # <<>>
    /\ ctrl' = Tail(ctrl)
    /\ LET m == Head(ctrl) IN
       \/ /\ m.what = "done"
          /\ Resolve(AwaitingDigest, "result", [item |-> Digest, version |-> m.version])
       \/ /\ m.what = "error"
          /\ Resolve(Awaiting(m.id), "error", Nothing)
    /\ UNCHANGED <<file, queue, seen, got, rid, left, server, data, open>>

Return(c) ==
    /\ call[c].st = "wait" /\ call[c].future = "result"
    /\ got' = [got EXCEPT ![c] = call[c].answer]
    /\ call' = [call EXCEPT ![c] = Idle]
    /\ seen' = [seen EXCEPT ![c] = {}]
    /\ UNCHANGED <<file, queue, rid, left, server, wires>>

\* Mutant: one attempt too many.
OneMoreTry(c) == call[c].attempt <= MaxRetries

MayRetry(c) == call[c].attempt < MaxRetries

\* The attempt is over without a result: the next one, or the worker raises.
Again(c) ==
    /\ call' = [call EXCEPT ![c] = IF MayRetry(c)
                                   THEN [Idle EXCEPT !.st = "send", !.item = call[c].item,
                                                    !.attempt = call[c].attempt + 1]
                                   ELSE [Idle EXCEPT !.st = "ended"]]
    /\ seen' = [seen EXCEPT ![c] = IF MayRetry(c) THEN @ ELSE {}]
    /\ UNCHANGED <<file, queue, got, rid, left, server, wires>>

Raise(c) == call[c].st = "wait" /\ call[c].future = "error" /\ Again(c)

\* Mutant: only requests for chunks have a timeout.
ChunkExpires(c) == call[c].st = "wait" /\ call[c].item # Digest

\* wait_for may expire whatever has been set on the future meanwhile.
Expires(c) == call[c].st = "wait"

TimeOut(c) == Expires(c) /\ Again(c)

\* gather is cancelled, and all the workers with it.
Cancel ==
    /\ Spend
    /\ call' = [c \in Caller |-> [Idle EXCEPT !.st = "ended"]]
    /\ seen' = [c \in Caller |-> {}]
    /\ UNCHANGED <<file, queue, got, rid, server, wires>>

-----------------------------------------------------------------------------
(* FileServer: one task per request; threads finish in any order. *)

Becomes(t, st, v) ==
    tasks' = (tasks \ {t}) \cup {[t EXCEPT !.st = st, !.version = v]}

\* _serve_chunk has read the chunk.
ReadChunk(t) ==
    /\ t.st = "asked" /\ t.item \in Chunk
    /\ Becomes(t, "send", file)
    /\ UNCHANGED <<file, cache, queue, call, seen, got, rid, left, wires>>

\* _serve_verify finds the digest of an earlier attempt, or hashes the file.
LookUpDigest(t) ==
    /\ t.st = "asked" /\ t.item = Digest
    /\ IF cache # Nothing THEN Becomes(t, "send", cache) ELSE Becomes(t, "hash", Nothing)
    /\ UNCHANGED <<file, cache, queue, call, seen, got, rid, left, wires>>

HashFile(t) ==
    /\ t.st = "hash"
    /\ cache' = file
    /\ Becomes(t, "send", file)
    /\ UNCHANGED <<file, queue, call, seen, got, rid, left, wires>>

\* No such file, or not readable: an error, for a digest one that has no id.
Refuse(t) ==
    /\ t.st = "asked"
    /\ Spend
    /\ tasks' = tasks \ {t}
    /\ ctrl' = Append(ctrl, [what |-> "error", version |-> Nothing,
                             id |-> IF t.item = Digest THEN Nothing ELSE t.id])
    /\ UNCHANGED <<file, cache, queue, call, seen, got, rid, data, open>>

\* The task has the send lock and the channel has drained.
SendFrame(t) ==
    /\ t.st = "send" /\ t.item \in Chunk
    /\ Len(data) <= Buffered
    /\ data' = Append(data, [id |-> t.id, item |-> t.item, version |-> t.version])
    /\ tasks' = tasks \ {t}
    /\ UNCHANGED <<file, cache, queue, call, seen, got, rid, left, ctrl, open>>

SendDigest(t) ==
    /\ t.st = "send" /\ t.item = Digest
    /\ ctrl' = Append(ctrl, [what |-> "done", id |-> Nothing, version |-> t.version])
    /\ tasks' = tasks \ {t}
    /\ UNCHANGED <<file, cache, queue, call, seen, got, rid, left, data, open>>

-----------------------------------------------------------------------------
(* The environment. *)

Edit(v) ==
    /\ v # file
    /\ Spend
    /\ file' = v
    /\ seen' = [c \in Caller |-> IF call[c].st \in {"send", "wait"}
                                 THEN seen[c] \cup {v} ELSE seen[c]]
    /\ UNCHANGED <<queue, call, got, rid, server, wires>>

\* The connection is lost with all that is on its way; tasks fail to send.
Lose ==
    /\ open
    /\ Spend
    /\ open' = FALSE
    /\ ctrl' = <<>> /\ data' = <<>> /\ tasks' = {}
    /\ UNCHANGED <<file, cache, queue, call, seen, got, rid>>

-----------------------------------------------------------------------------
Client(c) ==
    \/ \E i \in Item : Begin(c, i)
    \/ Request(c) \/ RequestRaises(c) \/ Return(c) \/ Raise(c) \/ TimeOut(c)

Serve(t) ==
    \/ ReadChunk(t) \/ LookUpDigest(t) \/ HashFile(t) \/ Refuse(t)
    \/ SendFrame(t) \/ SendDigest(t)

Next ==
    \/ \E c \in Caller : Client(c)
    \/ \E t \in tasks : Serve(t)
    \/ OnData \/ OnCtrl \/ Cancel \/ Lose
    \/ \E v \in Version : Edit(v)

Spec == Init /\ [][Next]_vars

\* The receiver's event loop runs, so timeouts expire; nothing is assumed of the
\* publisher or of the connection.
FairSpec == Spec /\ \A c \in Caller : WF_vars(Client(c))

-----------------------------------------------------------------------------
(* Properties. *)

\* Types of all variables; no call makes more than max_retries + 1 attempts.
TypeOK ==
    /\ file \in Version
    /\ cache \in Version \cup {Nothing}
    /\ queue \subseteq Item
    /\ call \in [Caller -> Call]
    /\ seen \in [Caller -> SUBSET Version]
    /\ got \in [Caller -> {Nothing} \cup Answer]
    /\ rid \in RId
    /\ tasks \subseteq Task
    /\ ctrl \in Seq(Reply) /\ data \in Seq(Frame)
    /\ open \in BOOLEAN
    /\ left \in 0 .. MaxEvents

\* The exchange keeps the promise of ChunkFetch: whatever is late, resent, refused
\* or lost, a call returns the item it asked for, of a content the file had while
\* it asked.  In particular no answer to an attempt given up reaches another call.
Fetch == INSTANCE ChunkFetch WITH
    asking <- [c \in Caller |-> IF call[c].st \in {"send", "wait"}
                                THEN call[c].item ELSE Nothing]

FetchSpec == Fetch!Spec

\* Every call ends, with a result or an exception, even if the publisher or the
\* connection is gone, and also when the refusal of a digest, which names no
\* request, is ignored.
CallsEnd == \A c \in Caller : []<>(call[c].st \notin {"send", "wait"})
=============================================================================
