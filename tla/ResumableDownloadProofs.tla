----------------------- MODULE ResumableDownloadProofs -----------------------
(***************************************************************************)
(* What ResumableDownload guarantees for every number of chunks, versions, *)
(* workers and faults, when a download starts only after nothing of the    *)
(* one before is left (~ Overlap: the command line); and that the download *)
(* then implements VerifiedDownload.                                       *)
(***************************************************************************)
EXTENDS ResumableDownload, TLAPS

-----------------------------------------------------------------------------
(* Files. *)

\* Writing one chunk of a file gives a file.
LEMMA WriteAtType ==
    ASSUME NEW f \in File, NEW i, NEW d \in Cell
    PROVE  WriteAt(f, i, d) \in File
BY DEF WriteAt, File, Cell

\* So does forcing a size on it.
LEMMA ResizedType ==
    ASSUME NEW f \in File, NEW n
    PROVE  Resized(f, n) \in File
BY DEF Resized, File, Cell

\* The contents of the publisher's file are files.
LEMMA ContentType ==
    /\ Empty \in File
    /\ \A v \in Version : Content(v) \in File
    /\ \A v \in Version : \A k \in Chunk : Content(v)[k] \in Version \cup {Eof}
BY DEF Content, Empty, File, Cell

\* A file forced to the size it has does not change.
LEMMA ResizedToItsSize ==
    ASSUME NEW u \in Version, NEW v \in Version, ChunkCount[u] = ChunkCount[v]
    PROVE  Resized(Content(u), ChunkCount[v]) = Content(u)
BY SizeAssumption, SentinelAssumption DEF Resized, Content, Chunk

-----------------------------------------------------------------------------
(* Type correctness. *)

\* What _load_state and missing compute has the types of the fields they fill.
LEMMA LoadedType ==
    ASSUME TypeOK, NEW n
    PROVE  LoadedState(n) \subseteq Chunk /\ Missing(n) \subseteq Chunk
BY SentinelAssumption DEF TypeOK, LoadedState, Missing, State

LEMMA TypeInit == Init => TypeOK
BY SizeAssumption DEF Init, TypeOK, Call, Job, Worker, Chunk

\* Fields of a call and of a job are replaced by values of their types.
LEMMA CallType ==
    ASSUME TypeOK, NEW a \in Slot, NEW i, NEW B \in BOOLEAN
    PROVE  /\ [call EXCEPT ![a].queue = @ \ {i}] \in [Slot -> Call]
           /\ i \in Chunk => [call EXCEPT ![a].received = @ \cup {i}] \in [Slot -> Call]
           /\ [call EXCEPT ![a].locked = B] \in [Slot -> Call]
           /\ i \in Version => [call EXCEPT ![a].expected = i] \in [Slot -> Call]
BY DEF TypeOK, Call

LEMMA JobType ==
    ASSUME TypeOK, NEW w \in Worker, NEW i
    PROVE  /\ i \in Chunk => [job EXCEPT ![w].index = i] \in [Worker -> Job]
           /\ i \in Version \cup {Eof} => [job EXCEPT ![w].payload = i] \in [Worker -> Job]
BY DEF TypeOK, Job

\* A step of a worker, or of its thread, preserves the types.
LEMMA TypeWorkerStep ==
    ASSUME TypeOK, NEW w \in Worker, WorkerStep(w)
    PROVE  TypeOK'
<1>0. w[1] \in Slot
  BY DEF Worker
<1> USE DEF disk, net
<1>1. CASE Take(w)
  <2>1. CASE call[w[1]].queue = {} /\ wpc' = [wpc EXCEPT ![w] = "off"] /\ UNCHANGED <<call, job>>
    BY <1>1, <2>1 DEF Take, TypeOK
  <2>2. CASE \E i \in call[w[1]].queue :
               /\ call' = [call EXCEPT ![w[1]].queue = @ \ {i}]
               /\ job' = [job EXCEPT ![w].index = i]
               /\ wpc' = [wpc EXCEPT ![w] = "fetch"]
    <3>1. PICK i \in call[w[1]].queue :
               /\ call' = [call EXCEPT ![w[1]].queue = @ \ {i}]
               /\ job' = [job EXCEPT ![w].index = i]
               /\ wpc' = [wpc EXCEPT ![w] = "fetch"]
      BY <2>2
    <3>2. i \in Chunk
      BY <1>0, <3>1 DEF TypeOK, Call
    <3>3. call' \in [Slot -> Call] /\ job' \in [Worker -> Job]
      BY <1>0, <3>1, <3>2, CallType, JobType
    <3> QED
      BY <1>1, <3>1, <3>3 DEF Take, TypeOK
  <2> QED
    BY <1>1, <2>1, <2>2 DEF Take
<1>2. CASE FetchChunk(w)
  <2>1. Content(ver)[job[w].index] \in Version \cup {Eof}
    BY ContentType DEF TypeOK, Job
  <2>2. job' \in [Worker -> Job]
    BY <1>2, <2>1, JobType DEF FetchChunk
  <2> QED
    BY <1>2, <2>2 DEF FetchChunk, TypeOK
<1>3. CASE FetchFails(w)
  <2>1. left' \in [Fault -> Nat]
    BY <1>3 DEF FetchFails, Spend, TypeOK, Fault
  <2> QED
    BY <1>0, <1>3, <2>1 DEF FetchFails, WorkerRaises, TypeOK, Running
<1>4. CASE Lock(w)
  <2>1. call' \in [Slot -> Call]
    BY <1>0, <1>4, CallType DEF Lock
  <2> QED
    BY <1>4, <2>1 DEF Lock, TypeOK
<1>5. CASE OpenPart(w)
  BY <1>5 DEF OpenPart, TypeOK
<1>6. CASE WriteChunk(w)
  <2>1. job[w].index \in Chunk /\ job[w].payload \in Cell
    BY DEF TypeOK, Job, Cell
  <2>2. call' \in [Slot -> Call]
    BY <1>0, <1>6, <2>1, CallType DEF WriteChunk
  <2>3. part' \in File
    BY <1>6, <2>1, WriteAtType, ContentType DEF WriteChunk, TypeOK
  <2> QED
    BY <1>6, <2>2, <2>3 DEF WriteChunk, AfterThread, TypeOK
<1>7. CASE ThreadRaises(w)
  <2>1. call' \in [Slot -> Call]
    BY <1>0, <1>7, CallType DEF ThreadRaises, Released
  <2> QED
    BY <1>0, <1>7, <2>1 DEF ThreadRaises, WorkerRaises, TypeOK, Running
<1>8. CASE SaveState(w)
  <2>1. tmp' \in State
    BY <1>0, <1>8 DEF SaveState, TypeOK, Call, State
  <2> QED
    BY <1>8, <2>1 DEF SaveState, TypeOK
<1>9. CASE ReplaceState(w)
  <2>1. call' \in [Slot -> Call]
    BY <1>0, <1>9, CallType DEF ReplaceState, Released
  <2> QED
    BY <1>9, <2>1 DEF ReplaceState, AfterThread, TypeOK
<1> QED
  BY <1>1, <1>2, <1>3, <1>4, <1>5, <1>6, <1>7, <1>8, <1>9 DEF WorkerStep

\* So does a step of download_file itself or of its finish thread.
LEMMA TypeCallStep ==
    ASSUME TypeOK, NEW a \in Slot, CallStep(a)
    PROVE  TypeOK'
<1> USE DEF disk, net
<1>1. CASE Gathered(a)
  BY <1>1 DEF Gathered, TypeOK, Running
<1>2. CASE Verify(a)
  <2>1. call' \in [Slot -> Call]
    BY <1>2, CallType DEF Verify, TypeOK
  <2> QED
    BY <1>2, <2>1 DEF Verify, TypeOK, Running
<1>3. CASE VerifyFails(a)
  BY <1>3 DEF VerifyFails, Spend, TypeOK, Running, Fault
<1>4. CASE ComputeSha256(a)
  BY <1>4 DEF ComputeSha256, TypeOK, Running
<1>5. CASE ResizePart(a)
  <2>1. part' \in File
    BY <1>5, ResizedType, ContentType DEF ResizePart, TypeOK
  <2> QED
    BY <1>5, <2>1 DEF ResizePart, TypeOK
<1>6. CASE Promote(a)
  BY <1>6 DEF Promote, TypeOK
<1>7. CASE FinishRaises(a)
  BY <1>7 DEF FinishRaises, FinishReturns, TypeOK, Running
<1>8. CASE RemoveState(a)
  BY <1>8 DEF RemoveState, FinishReturns, TypeOK, Running
<1> QED
  BY <1>1, <1>2, <1>3, <1>4, <1>5, <1>6, <1>7, <1>8 DEF CallStep

\* A new call has the types of its fields.
LEMMA TypeDownloadFile ==
    ASSUME TypeOK, NEW a \in Slot, DownloadFile(a)
    PROVE  TypeOK'
<1> USE DEF disk, net
<1> DEFINE n == ChunkCount[man]
<1>1. n \in 0 .. N
  BY SizeAssumption DEF TypeOK
<1>2. call' \in [Slot -> Call]
  <2>1. LoadedState(n) \subseteq Chunk /\ Missing(n) \subseteq Chunk
    BY LoadedType
  <2>2. [size |-> n, received |-> LoadedState(n), queue |-> Missing(n),
         expected |-> call[a].expected, locked |-> FALSE] \in Call
    BY <1>1, <2>1 DEF TypeOK, Call
  <2> HIDE DEF n
  <2> QED
    BY <2>2 DEF DownloadFile, TypeOK, n
<1>3. wpc' \in [Worker -> {"off", "take", "fetch", "lock", "open", "create",
                          "update", "save", "replace"}]
  BY DEF DownloadFile, TypeOK
<1> QED
  BY <1>2, <1>3 DEF DownloadFile, TypeOK, Running

\* What the environment does has them too.
LEMMA TypeEnvironment ==
    ASSUME TypeOK, (\E a \in Slot : Cancel(a)) \/ Crash \/ ChangeFile \/ Republish
    PROVE  TypeOK'
<1> USE DEF disk, net
<1>1. ASSUME NEW a \in Slot, Cancel(a) PROVE TypeOK'
  <2>1. call' \in [Slot -> Call]
    BY <1>1, CallType DEF Cancel, Released
  <2>2. left' \in [Fault -> Nat]
    BY <1>1 DEF Cancel, Spend, TypeOK, Fault
  <2>3. wpc' \in [Worker -> {"off", "take", "fetch", "lock", "open", "create",
                            "update", "save", "replace"}]
    BY <1>1 DEF Cancel, TypeOK
  <2>4. fin' \in [Slot -> {"none", "resize", "promote", "clean"}]
    BY <1>1 DEF Cancel, TypeOK
  <2> QED
    BY <1>1, <2>1, <2>2, <2>3, <2>4 DEF Cancel, TypeOK, Running
<1>2. CASE Crash
  <2>1. part' \in File \cup {Absent}
    <3>1. CASE UNCHANGED part
      BY <3>1 DEF TypeOK
    <3>2. ASSUME NEW w \in Worker,
                 \/ part' \in {Empty, WriteAt(Empty, job[w].index, Cut(w))}
                 \/ part # Absent /\ part' = WriteAt(part, job[w].index, Cut(w))
          PROVE  part' \in File
      BY <3>2, WriteAtType, ContentType DEF TypeOK, Cell, Cut
    <3> QED
      BY <1>2, <3>1, <3>2 DEF Crash
  <2>2. left' \in [Fault -> Nat]
    BY <1>2 DEF Crash, Spend, TypeOK, Fault
  <2> QED
    BY <1>2, <2>1, <2>2 DEF Crash, TypeOK, Running
<1>3. CASE ChangeFile
  BY <1>3 DEF ChangeFile, Spend, TypeOK, Fault
<1>4. CASE Republish
  BY <1>4 DEF Republish, TypeOK
<1> QED
  BY <1>1, <1>2, <1>3, <1>4

LEMMA TypeNext == TypeOK /\ [Next]_vars => TypeOK'
<1> SUFFICES ASSUME TypeOK, [Next]_vars PROVE TypeOK'
  OBVIOUS
<1>1. CASE UNCHANGED vars
  BY <1>1 DEF vars, disk, net, TypeOK
<1> QED
  BY <1>1, TypeWorkerStep, TypeCallStep, TypeDownloadFile, TypeEnvironment DEF Next

\* TypeOK is an invariant for every value of the constants: no step of the
\* code puts a chunk out of range into a queue or a state file.
THEOREM TypeCorrect == Spec => []TypeOK
<1> QED
  BY TypeInit, TypeNext, PTL DEF Spec

-----------------------------------------------------------------------------
(* The target. *)

\* At most one call has anything left of it.
OneCall == \A a, b \in Slot : a # b => Quiet(a) \/ Quiet(b)

\* A call works on the size of some manifest; its finish thread finds the part
\* file as it was verified and promotes it at the size of the manifest.
FinishVerified ==
    \A a \in Slot :
      /\ pc[a] \in Running \/ fin[a] # "none" =>
            \E v \in Version : call[a].size = ChunkCount[v]
      /\ fin[a] # "none" => pc[a] \in {"finish", "cancelled"}
      /\ fin[a] = "resize" => DigestsAgree(a)
      /\ fin[a] = "promote" =>
            \E v \in Version : part = Resized(Content(call[a].expected), ChunkCount[v])

TargetInv ==
    OneCall /\ VerifiedUndisturbed /\ FinishVerified /\ TargetIsAVersionResized

\* What a worker's step leaves alone.
LEMMA WorkerFrame ==
    ASSUME TypeOK, NEW w \in Worker, WorkerStep(w)
    PROVE  /\ w[1] \in Slot /\ wpc[w] # "off"
           /\ UNCHANGED <<fin, target>>
           /\ \A u \in Worker : u # w => wpc'[u] = wpc[u]
           /\ \A b \in Slot : pc'[b] # pc[b] => b = w[1] /\ pc'[b] = "failed"
           /\ \A b \in Slot : call'[b].size = call[b].size /\ call'[b].expected = call[b].expected
<1> USE DEF disk, net
<1>0. w[1] \in Slot
  BY DEF Worker
<1>1. CASE Take(w)
  <2>1. \/ UNCHANGED call
        \/ \E i \in Chunk : call' = [call EXCEPT ![w[1]].queue = @ \ {i}]
    BY <1>0, <1>1 DEF Take, TypeOK, Call
  <2>2. \A b \in Slot : call'[b].size = call[b].size /\ call'[b].expected = call[b].expected
    <3>1. CASE UNCHANGED call
      BY <3>1
    <3>2. ASSUME NEW i \in Chunk, call' = [call EXCEPT ![w[1]].queue = @ \ {i}]
          PROVE  \A b \in Slot : call'[b].size = call[b].size /\ call'[b].expected = call[b].expected
      BY <1>0, <3>2 DEF TypeOK, Call
    <3> QED
      BY <2>1, <3>1, <3>2
  <2>3. \E x : wpc' = [wpc EXCEPT ![w] = x]
    BY <1>1 DEF Take
  <2> QED
    BY <1>0, <1>1, <2>2, <2>3 DEF Take, TypeOK
<1>2. CASE FetchChunk(w)
  BY <1>0, <1>2 DEF FetchChunk, TypeOK
<1>3. CASE FetchFails(w)
  BY <1>0, <1>3 DEF FetchFails, WorkerRaises, TypeOK
<1>4. CASE Lock(w)
  BY <1>0, <1>4 DEF Lock, TypeOK, Call
<1>5. CASE OpenPart(w)
  BY <1>0, <1>5 DEF OpenPart, TypeOK
<1>6. CASE WriteChunk(w)
  BY <1>0, <1>6 DEF WriteChunk, TypeOK, Call
<1>7. CASE ThreadRaises(w)
  BY <1>0, <1>7 DEF ThreadRaises, WorkerRaises, Released, TypeOK, Call
<1>8. CASE SaveState(w)
  BY <1>0, <1>8 DEF SaveState, TypeOK
<1>9. CASE ReplaceState(w)
  BY <1>0, <1>9 DEF ReplaceState, Released, TypeOK, Call
<1> QED
  BY <1>1, <1>2, <1>3, <1>4, <1>5, <1>6, <1>7, <1>8, <1>9 DEF WorkerStep

\* What a step of download_file itself leaves alone.
LEMMA CallFrame ==
    ASSUME TypeOK, NEW a \in Slot, CallStep(a)
    PROVE  /\ pc[a] \in Running \/ fin[a] # "none"
           /\ UNCHANGED wpc
           /\ \A b \in Slot : b # a => pc'[b] = pc[b] /\ fin'[b] = fin[b]
           /\ \A b \in Slot : call'[b].size = call[b].size
           /\ \A b \in Slot : \/ call'[b].expected = call[b].expected
                              \/ b = a /\ Verify(a)
<1> USE DEF disk, net, TypeOK, Running, Call
<1>1. CASE Gathered(a)
  BY <1>1 DEF Gathered
<1>2. CASE Verify(a)
  BY <1>2 DEF Verify
<1>3. CASE VerifyFails(a)
  BY <1>3 DEF VerifyFails
<1>4. CASE ComputeSha256(a)
  BY <1>4 DEF ComputeSha256
<1>5. CASE ResizePart(a)
  BY <1>5 DEF ResizePart
<1>6. CASE Promote(a)
  BY <1>6 DEF Promote
<1>7. CASE FinishRaises(a)
  BY <1>7 DEF FinishRaises, FinishReturns
<1>8. CASE RemoveState(a)
  BY <1>8 DEF RemoveState, FinishReturns
<1> QED
  BY <1>1, <1>2, <1>3, <1>4, <1>5, <1>6, <1>7, <1>8 DEF CallStep

LEMMA TargetInit == Init => TargetInv
BY DEF Init, TargetInv, OneCall, Quiet, Running, VerifiedUndisturbed, FinishVerified,
       TargetIsAVersionResized, WorkersOf

\* Nothing but a new call disturbs a call that is quiet.
LEMMA TargetWorkerStep ==
    ASSUME TypeOK, TargetInv, NEW w \in Worker, WorkerStep(w)
    PROVE  TargetInv'
<1> USE WorkerFrame DEF TargetInv
<1>1. ASSUME NEW b \in Slot, Quiet(b) PROVE Quiet(b)'
  BY <1>1 DEF Quiet, WorkersOf, Running
<1>2. OneCall'
  BY <1>1 DEF OneCall
<1>3. \A a \in Slot : pc[a] \notin {"verify", "compute", "finish"} /\ fin[a] = "none"
  BY DEF VerifiedUndisturbed
<1>4. \A a \in Slot : pc'[a] \notin {"verify", "compute", "finish"} /\ fin'[a] = "none"
  BY <1>3
<1>5. VerifiedUndisturbed'
  BY <1>4 DEF VerifiedUndisturbed
<1>6. FinishVerified'
  BY <1>4 DEF FinishVerified, Running
<1>7. TargetIsAVersionResized'
  BY DEF TargetIsAVersionResized
<1> QED
  BY <1>2, <1>5, <1>6, <1>7

\* A call that verifies or promotes has the files to itself.
LEMMA CallAlone ==
    ASSUME TypeOK, TargetInv, NEW a \in Slot, CallStep(a)
    PROVE  /\ \A b \in Slot : b # a => Quiet(b)
           /\ \A u \in Worker : wpc[u] = "off"
<1> USE CallFrame DEF TargetInv
<1>1. ~ Quiet(a)
  BY DEF Quiet
<1>2. \A b \in Slot : b # a => Quiet(b)
  BY <1>1 DEF OneCall
<1>3. CASE Gathered(a)
  <2>1. ASSUME NEW u \in Worker PROVE wpc[u] = "off"
    <3>1. u[1] \in Slot /\ u \in WorkersOf(u[1])
      BY DEF Worker, WorkersOf
    <3> QED
      BY <1>2, <1>3, <3>1 DEF Gathered, Quiet
  <2> QED
    BY <1>2, <2>1
<1>4. CASE ~ Gathered(a)
  BY <1>2, <1>4 DEF CallStep, Verify, VerifyFails, ComputeSha256, ResizePart, Promote,
     FinishRaises, RemoveState, VerifiedUndisturbed
<1> QED
  BY <1>3, <1>4

LEMMA TargetCallStep ==
    ASSUME TypeOK, TargetInv, NEW a \in Slot, CallStep(a)
    PROVE  TargetInv'
<1> USE CallFrame DEF TargetInv
<1>1. ASSUME NEW b \in Slot, Quiet(b) PROVE Quiet(b)' /\ b # a
  BY <1>1 DEF Quiet, WorkersOf
<1>2. OneCall'
  BY <1>1 DEF OneCall
<1>3. \A b \in Slot : b # a => Quiet(b)
  BY <1>1 DEF OneCall
<1>4. \A u \in Worker : wpc[u] = "off"
  BY CallAlone
<1>5. VerifiedUndisturbed'
  BY <1>4 DEF VerifiedUndisturbed
<1>6. ASSUME NEW b \in Slot, pc'[b] \in Running \/ fin'[b] # "none"
      PROVE  b = a /\ \E v \in Version : call'[b].size = ChunkCount[v]
  BY <1>3, <1>6 DEF Quiet, FinishVerified
<1>7. ASSUME fin'[a] = "resize" PROVE DigestsAgree(a)'
  <2>1. ComputeSha256(a) /\ DigestsAgree(a)
    BY <1>7 DEF CallStep, Gathered, Verify, VerifyFails, ComputeSha256, ResizePart, Promote,
       FinishRaises, RemoveState, FinishReturns, FinishVerified, TypeOK
  <2> QED
    BY <2>1 DEF ComputeSha256, DigestsAgree, disk
<1>8. ASSUME fin'[a] = "promote"
      PROVE  \E v \in Version : part' = Resized(Content(call'[a].expected), ChunkCount[v])
  <2>1. CASE fin[a] = "promote"
    BY <1>8, <2>1, <1>4
    DEF CallStep, Gathered, Verify, VerifyFails, ComputeSha256, ResizePart, Promote,
        FinishRaises, RemoveState, FinishReturns, FinishVerified, TypeOK, disk
  <2>2. CASE fin[a] # "promote"
    <3>1. ResizePart(a)
      BY <1>8, <2>2 DEF CallStep, Gathered, Verify, VerifyFails, ComputeSha256, Promote,
         FinishRaises, RemoveState, FinishReturns, TypeOK
    <3>2. PICK v \in Version : call[a].size = ChunkCount[v]
      BY <3>1 DEF ResizePart, FinishVerified
    <3>3. call[a].expected \in Version
      BY DEF TypeOK, Call
    <3>4. CASE part = Absent
      <4>1. part' = Empty /\ ChunkCount[v] = 0 /\ call' = call
        BY <3>1, <3>2, <3>4 DEF ResizePart
      <4>2. \A u : Resized(Content(u), 0) = Empty
        BY SizeAssumption DEF Resized, Empty, Chunk
      <4> QED
        BY <4>1, <4>2
    <3>5. CASE part # Absent
      <4>1. part = Content(call[a].expected)
        BY <3>1, <3>5 DEF ResizePart, FinishVerified, DigestsAgree
      <4> QED
        BY <3>1, <3>2, <3>3, <3>5, <4>1 DEF ResizePart
    <3> QED
      BY <3>4, <3>5
  <2> QED
    BY <2>1, <2>2
<1>9. fin'[a] # "none" => pc'[a] \in {"finish", "cancelled"}
  BY DEF CallStep, Gathered, Verify, VerifyFails, ComputeSha256, ResizePart, Promote,
     FinishRaises, RemoveState, FinishReturns, FinishVerified, TypeOK
<1>10. FinishVerified'
  BY <1>6, <1>7, <1>8, <1>9 DEF FinishVerified
<1>11. TargetIsAVersionResized'
  <2>1. CASE UNCHANGED target
    BY <2>1 DEF TargetIsAVersionResized
  <2>2. CASE Promote(a)
    <3>1. call[a].expected \in Version
      BY DEF TypeOK, Call
    <3> QED
      BY <2>2, <3>1 DEF Promote, FinishVerified, TargetIsAVersionResized
  <2> QED
    BY <2>1, <2>2 DEF CallStep, Gathered, Verify, VerifyFails, ComputeSha256, ResizePart,
       FinishRaises, RemoveState, disk
<1> QED
  BY <1>2, <1>5, <1>10, <1>11

\* The command line starts a download when nothing of the one before is left.
LEMMA TargetDownloadFile ==
    ASSUME TypeOK, TargetInv, ~ Overlap, NEW a \in Slot, DownloadFile(a)
    PROVE  TargetInv'
<1> USE DEF TargetInv
<1>1. \A b \in Slot : Quiet(b)
  BY DEF DownloadFile
<1>2. \A b \in Slot : b # a => Quiet(b)'
  BY <1>1 DEF DownloadFile, Quiet, WorkersOf, TypeOK, Worker
<1>3. \A b \in Slot : fin'[b] = "none" /\ pc'[b] \notin {"verify", "compute", "finish"}
  BY <1>1 DEF DownloadFile, Quiet, TypeOK, Running
<1>4. \E v \in Version : call'[a].size = ChunkCount[v]
  BY DEF DownloadFile, TypeOK
<1>5. \A b \in Slot : b # a => pc'[b] \notin Running
  BY <1>1 DEF DownloadFile, Quiet, TypeOK
<1>6. OneCall'
  BY <1>2 DEF OneCall
<1>7. VerifiedUndisturbed'
  BY <1>3 DEF VerifiedUndisturbed
<1>8. FinishVerified'
  BY <1>3, <1>4, <1>5 DEF FinishVerified
<1>9. TargetIsAVersionResized'
  BY DEF DownloadFile, TargetIsAVersionResized, disk
<1> QED
  BY <1>6, <1>7, <1>8, <1>9

LEMMA TargetEnvironment ==
    ASSUME TypeOK, TargetInv,
           (\E a \in Slot : Cancel(a)) \/ Crash \/ ChangeFile \/ Republish
    PROVE  TargetInv'
<1> USE DEF TargetInv
<1>1. ASSUME NEW a \in Slot, Cancel(a) PROVE TargetInv'
  <2>1. \A u \in Worker : wpc'[u] \in {wpc[u], "off"}
    BY <1>1 DEF Cancel, TypeOK
  <2>2. \A b \in Slot : pc'[b] = (IF b = a THEN "cancelled" ELSE pc[b])
    BY <1>1 DEF Cancel, TypeOK
  <2>3. \A b \in Slot : fin'[b] \in {fin[b], "none"}
    BY <1>1 DEF Cancel, TypeOK
  <2>4. \A b \in Slot : call'[b].size = call[b].size /\ call'[b].expected = call[b].expected
    BY <1>1 DEF Cancel, Released, TypeOK, Call
  <2>5. UNCHANGED disk
    BY <1>1 DEF Cancel
  <2>6. \A b \in Slot : Quiet(b) => Quiet(b)'
    BY <2>1, <2>2, <2>3 DEF Quiet, WorkersOf, Running
  <2>7. OneCall'
    BY <2>6 DEF OneCall
  <2>8. VerifiedUndisturbed'
    BY <2>1, <2>2, <2>3 DEF VerifiedUndisturbed
  <2>9. FinishVerified'
    BY <2>2, <2>3, <2>4, <2>5 DEF FinishVerified, DigestsAgree, Running, disk
  <2>10. TargetIsAVersionResized'
    BY <2>5 DEF TargetIsAVersionResized, disk
  <2> QED
    BY <2>7, <2>8, <2>9, <2>10
<1>2. CASE Crash
  <2>1. \A b \in Slot : Quiet(b)' /\ pc'[b] \notin Running /\ fin'[b] = "none"
    BY <1>2 DEF Crash, Quiet, WorkersOf, Running
  <2> QED
    BY <1>2, <2>1 DEF Crash, OneCall, VerifiedUndisturbed, FinishVerified,
       TargetIsAVersionResized, Running
<1>3. CASE ChangeFile \/ Republish
  BY <1>3 DEF ChangeFile, Republish, OneCall, Quiet, VerifiedUndisturbed, FinishVerified,
     DigestsAgree, TargetIsAVersionResized, disk
<1> QED
  BY <1>1, <1>2, <1>3

LEMMA TargetInvariant == ~ Overlap => (Spec => []TargetInv)
<1> SUFFICES ASSUME ~ Overlap PROVE Spec => []TargetInv
  OBVIOUS
<1>1. TypeOK /\ TargetInv /\ [Next]_vars => TargetInv'
  <2> SUFFICES ASSUME TypeOK, TargetInv, [Next]_vars PROVE TargetInv'
    OBVIOUS
  <2>1. CASE UNCHANGED vars
    BY <2>1 DEF vars, disk, net, TargetInv, OneCall, Quiet, VerifiedUndisturbed,
       FinishVerified, DigestsAgree, TargetIsAVersionResized
  <2> QED
    BY <2>1, TargetWorkerStep, TargetCallStep, TargetDownloadFile, TargetEnvironment DEF Next
<1> QED
  BY <1>1, TargetInit, TypeCorrect, PTL DEF Spec

\* With nothing left of earlier calls, what is under the target's name is always
\* a content the publisher's file had, at the size some manifest promised: no
\* fault, edit or crash makes download_file promote a mixture.
THEOREM TargetVerified == ~ Overlap => (Spec => []TargetIsAVersionResized)
<1>1. TargetInv => TargetIsAVersionResized
  BY DEF TargetInv
<1> QED
  BY <1>1, TargetInvariant, PTL

\* If no edit changes the file's size, the target is such a content, whole.
THEOREM TargetWhole ==
    ASSUME ~ Overlap, \A u, v \in Version : ChunkCount[u] = ChunkCount[v]
    PROVE  Spec => []TargetIsAVersion
<1>1. TargetIsAVersionResized => TargetIsAVersion
  BY ResizedToItsSize DEF TargetIsAVersionResized, TargetIsAVersion
<1> QED
  BY <1>1, TargetVerified, PTL

\* While a part file is verified, hashed or promoted, no worker and no thread
\* of any call can write to it.
THEOREM Undisturbed == ~ Overlap => (Spec => []VerifiedUndisturbed)
<1>1. TargetInv => VerifiedUndisturbed
  BY DEF TargetInv
<1> QED
  BY <1>1, TargetInvariant, PTL

-----------------------------------------------------------------------------
(* The promise of VerifiedDownload. *)

\* A step after which all calls stand where they stood.
LEMMA StandsStill ==
    ASSUME UNCHANGED <<ver, target>>,
           \A b \in Slot : Standing(b)' = Standing(b) /\ call'[b].expected = call[b].expected
    PROVE  UNCHANGED Verified!vars
BY DEF Verified!vars

\* A step with which some calls end, with nothing done.
LEMMA GivesUp ==
    ASSUME UNCHANGED <<ver, target>>, NEW calls \in SUBSET Slot,
           \A b \in Slot : /\ Standing(b)' = IF b \in calls THEN "idle" ELSE Standing(b)
                           /\ call'[b].expected = call[b].expected
    PROVE  Verified!Next
<1>1. Verified!GiveUp(calls)
  BY DEF Verified!GiveUp
<1> QED
  BY <1>1 DEF Verified!Next

\* Workers and their threads end at most their own call, and leave its finish alone.
LEMMA WorkerPromise ==
    ASSUME TypeOK, NEW w \in Worker, WorkerStep(w)
    PROVE  Verified!Next
<1> DEFINE calls == {b \in Slot : pc'[b] # pc[b] /\ fin[b] = "none"}
<1>1. /\ UNCHANGED <<fin, target>>
      /\ \A b \in Slot : pc'[b] # pc[b] => pc'[b] = "failed"
      /\ \A b \in Slot : call'[b].expected = call[b].expected
  BY WorkerFrame
<1>2. UNCHANGED ver
  BY DEF WorkerStep, Take, FetchChunk, FetchFails, Lock, OpenPart, WriteChunk, ThreadRaises,
         SaveState, ReplaceState, net
<1>3. \A b \in Slot : Standing(b)' = IF b \in calls THEN "idle" ELSE Standing(b)
  BY <1>1 DEF Standing
<1> HIDE DEF calls
<1>4. calls \in SUBSET Slot
  BY DEF calls
<1> QED
  BY <1>1, <1>2, <1>3, <1>4, GivesUp

LEMMA BeginPromise ==
    ASSUME TypeOK, NEW a \in Slot, DownloadFile(a)
    PROVE  Verified!Next
<1>1. /\ pc[a] \notin Running /\ fin[a] = "none" /\ UNCHANGED <<ver, target, fin>>
      /\ pc' = [pc EXCEPT ![a] = "gather"]
  BY DEF DownloadFile, Quiet, disk
<1>2. \A b \in Slot : call'[b].expected = call[b].expected
  BY DEF DownloadFile, TypeOK, Call
<1>3. Standing(a) \in {"idle", "done"}
  BY <1>1 DEF Standing, Running
<1>4. \A b \in Slot : Standing(b)' = IF b = a THEN "open" ELSE Standing(b)
  BY <1>1 DEF Standing, TypeOK
<1>5. Verified!Begin(a)
  BY <1>1, <1>2, <1>3, <1>4 DEF Verified!Begin
<1> QED
  BY <1>5 DEF Verified!Next

\* The finish thread finds the part file as it was verified, so what it puts under the
\* target's name is the content this call agreed to.
LEMMA CallPromise ==
    ASSUME TypeOK, TargetInv, NEW a \in Slot, CallStep(a)
    PROVE  [Verified!Next]_(Verified!vars)
<1>1. /\ pc \in [Slot -> Running \cup {"idle", "done", "failed", "cancelled"}]
      /\ fin \in [Slot -> {"none", "resize", "promote", "clean"}]
      /\ \A b \in Slot : b # a => Standing(b)' = Standing(b)
      /\ \A b \in Slot : call'[b].expected = call[b].expected \/ (b = a /\ Verify(a))
      /\ fin[a] # "none" => pc[a] \in {"finish", "cancelled"}
      /\ UNCHANGED ver
  <2>1. \A b \in Slot : b # a => Standing(b)' = Standing(b)
    BY CallFrame DEF Standing
  <2>2. UNCHANGED ver
    BY DEF CallStep, Gathered, Verify, VerifyFails, ComputeSha256, ResizePart, Promote,
           FinishRaises, RemoveState, net
  <2> QED
    BY <2>1, <2>2, CallFrame DEF TypeOK, TargetInv, FinishVerified
<1>2. ASSUME Standing(a)' = "idle", ~ Verify(a), UNCHANGED target PROVE Verified!Next
  <2>1. \A b \in Slot : /\ Standing(b)' = IF b \in {a} THEN "idle" ELSE Standing(b)
                        /\ call'[b].expected = call[b].expected
    BY <1>1, <1>2
  <2> QED
    BY <1>1, <1>2, <2>1, GivesUp
<1>3. ASSUME Standing(a)' = Standing(a), ~ Verify(a), UNCHANGED target
      PROVE  UNCHANGED Verified!vars
  BY <1>1, <1>3, StandsStill
<1>4. CASE Gathered(a)
  <2>1. Standing(a)' = Standing(a) /\ ~ Verify(a) /\ UNCHANGED target
    BY <1>1, <1>4 DEF Gathered, Verify, Standing, disk
  <2> QED
    BY <1>3, <2>1
<1>5. CASE Verify(a)
  <2>1. fin[a] = "none" /\ pc[a] = "verify" /\ pc'[a] = "compute" /\ UNCHANGED <<fin, target>>
    BY <1>1, <1>5 DEF Verify, disk
  <2>2. Standing(a) = "open" /\ Standing(a)' = "verifying"
    BY <2>1 DEF Standing
  <2>3. \A b \in Slot : call'[b].expected = IF b = a THEN ver ELSE call[b].expected
    BY <1>1, <1>5 DEF Verify, TypeOK, Call
  <2>4. Verified!LearnDigest(a)
    BY <1>1, <2>1, <2>2, <2>3 DEF Verified!LearnDigest
  <2> QED
    BY <2>4 DEF Verified!Next
<1>6. CASE VerifyFails(a)
  <2>1. Standing(a)' = "idle" /\ ~ Verify(a) /\ UNCHANGED target
    BY <1>1, <1>6 DEF VerifyFails, Verify, Standing, disk
  <2> QED
    BY <1>2, <2>1
<1>7. CASE ComputeSha256(a)
  <2>1. /\ ~ Verify(a) /\ UNCHANGED target
        /\ Standing(a)' = "idle" \/ Standing(a)' = Standing(a)
    BY <1>1, <1>7 DEF ComputeSha256, Verify, Standing, disk
  <2> QED
    BY <1>2, <1>3, <2>1
<1>8. CASE ResizePart(a)
  <2>1. Standing(a)' = Standing(a) /\ ~ Verify(a) /\ UNCHANGED target
    BY <1>1, <1>8 DEF ResizePart, Verify, Standing
  <2> QED
    BY <1>3, <2>1
<1>9. CASE Promote(a)
  <2>1. ~ Verify(a) /\ Standing(a) = "verifying" /\ Standing(a)' = "replaced"
    BY <1>1, <1>9 DEF Promote, Verify, Standing
  <2>2. \E v \in Version : part = Resized(Content(call[a].expected), ChunkCount[v])
    BY <1>9 DEF Promote, TargetInv, FinishVerified
  <2>3. call[a].expected \in Version /\ target' = part
    BY <1>9 DEF Promote, TypeOK, Call
  <2>4. Verified!Replace(a)
    BY <1>1, <2>1, <2>2, <2>3 DEF Verified!Replace
  <2> QED
    BY <2>4 DEF Verified!Next
<1>10. CASE FinishRaises(a)
  <2>1. Standing(a)' = "idle" /\ ~ Verify(a) /\ UNCHANGED target
    BY <1>1, <1>10 DEF FinishRaises, FinishReturns, Verify, Standing, disk
  <2> QED
    BY <1>2, <2>1
<1>11. CASE RemoveState(a)
  <2>1. /\ ~ Verify(a) /\ UNCHANGED target /\ Standing(a) = "replaced"
        /\ Standing(a)' = "idle" \/ Standing(a)' = "done"
    BY <1>1, <1>11 DEF RemoveState, FinishReturns, Verify, Standing
  <2>2. CASE Standing(a)' = "done"
    <3>1. Verified!Return(a)
      BY <1>1, <2>1, <2>2 DEF Verified!Return
    <3> QED
      BY <3>1 DEF Verified!Next
  <2> QED
    BY <1>2, <2>1, <2>2
<1> QED
  BY <1>4, <1>5, <1>6, <1>7, <1>8, <1>9, <1>10, <1>11 DEF CallStep

LEMMA EnvironmentPromise ==
    ASSUME TypeOK, (\E a \in Slot : Cancel(a)) \/ Crash \/ ChangeFile \/ Republish
    PROVE  [Verified!Next]_(Verified!vars)
<1>1. ASSUME NEW a \in Slot, Cancel(a) PROVE Verified!Next
  <2> DEFINE calls == {b \in Slot : b = a /\ fin'[b] = "none"}
  <2>1. /\ \A b \in Slot : pc'[b] = IF b = a THEN "cancelled" ELSE pc[b]
        /\ \A b \in Slot : fin'[b] = fin[b] \/ (b = a /\ fin'[b] = "none")
        /\ \A b \in Slot : call'[b].expected = call[b].expected
        /\ UNCHANGED <<ver, target>>
    <3>1. \A b \in Slot : pc'[b] = IF b = a THEN "cancelled" ELSE pc[b]
      BY <1>1 DEF Cancel, TypeOK
    <3>2. \A b \in Slot : fin'[b] = fin[b] \/ (b = a /\ fin'[b] = "none")
      BY <1>1 DEF Cancel, TypeOK
    <3>3. \A b \in Slot : call'[b].expected = call[b].expected
      BY <1>1 DEF Cancel, Released, TypeOK, Call
    <3> QED
      BY <1>1, <3>1, <3>2, <3>3 DEF Cancel, disk, net
  <2>2. \A b \in Slot : Standing(b)' = IF b \in calls THEN "idle" ELSE Standing(b)
    BY <2>1 DEF Standing
  <2> HIDE DEF calls
  <2>3. calls \in SUBSET Slot
    BY DEF calls
  <2> QED
    BY <2>1, <2>2, <2>3, GivesUp
<1>2. CASE Crash
  <2>1. /\ \A b \in Slot : Standing(b)' = "idle" /\ call'[b].expected = call[b].expected
        /\ UNCHANGED <<ver, target>>
    BY <1>2 DEF Crash, Standing
  <2> QED
    BY <2>1, GivesUp
<1>3. CASE ChangeFile
  <2>1. /\ ver' \in Version /\ UNCHANGED target
        /\ \A b \in Slot : Standing(b)' = Standing(b) /\ call'[b].expected = call[b].expected
    BY <1>3 DEF ChangeFile, Standing, disk
  <2>2. Verified!Edit(ver')
    BY <2>1 DEF Verified!Edit
  <2> QED
    BY <2>1, <2>2 DEF Verified!Next
<1>4. CASE Republish
  BY <1>4, StandsStill DEF Republish, Standing, disk
<1> QED
  BY <1>1, <1>2, <1>3, <1>4

\* Without overlap of calls, for any number of chunks, contents, workers and faults:
\* download_file implements VerifiedDownload.  The target changes in one step only, to
\* the content whose digest that call was given (at the size some manifest promised),
\* and no call returns before it has done that.
THEOREM ImplementsVerified == ~ Overlap => (Spec => VerifiedSpec)
<1>1. Init => Verified!Init
  BY DEF Init, Verified!Init, Standing
<1>2. TypeOK /\ TargetInv /\ [Next]_vars => [Verified!Next]_(Verified!vars)
  <2> SUFFICES ASSUME TypeOK, TargetInv, [Next]_vars PROVE [Verified!Next]_(Verified!vars)
    OBVIOUS
  <2>1. CASE UNCHANGED vars
    BY <2>1, StandsStill DEF vars, disk, net, Standing
  <2> QED
    BY <2>1, WorkerPromise, BeginPromise, CallPromise, EnvironmentPromise DEF Next
<1> QED
  BY <1>1, <1>2, TypeCorrect, TargetInvariant, PTL DEF Spec, VerifiedSpec, Verified!Spec

=============================================================================
