--------------------------- MODULE ResumeSafeProofs ---------------------------
(***************************************************************************)
(* A resume never trusts a chunk that is not on disk, and never loses one  *)
(* that is: ResumeSafe and KeepsProgress of ResumableDownload, for every   *)
(* number of chunks, workers, edits, failures, cancels and crashes, when   *)
(* edits keep the size of the file and a download starts only after        *)
(* nothing of the one before is left (~ Overlap).                          *)
(***************************************************************************)
EXTENDS ResumableDownloadProofs, FiniteSetTheorems

\* Edits change what is in the file, not how long it is.
EditsKeepSize == \A u, v \in Version : ChunkCount[u] = ChunkCount[v]

\* The size, in chunks, that every manifest promises, and its chunks.
Size == ChunkCount[man]
All  == {i \in Chunk : i < Size}

\* What the state file claims.
Claimed == IF state = Absent THEN {} ELSE state.received

\* A worker has a chunk; has not written it yet; is under the lock.
Holds(w)    == wpc[w] \notin {"off", "take"}
Unwritten(w) == wpc[w] \in {"fetch", "lock", "open", "create", "update"}
Critical(w) == wpc[w] \in {"open", "create", "update", "save", "replace"}

\* Every chunk of a live call is in one place: queued, with one worker, or written.
JobsInv ==
    /\ \A w \in Worker : wpc[w] # "off" =>
         /\ call[w[1]].size = Size
         /\ call[w[1]].queue \subseteq All
         /\ call[w[1]].received \subseteq All \ call[w[1]].queue
    /\ \A w \in Worker : Holds(w) => job[w].index \in All \ call[w[1]].queue
    /\ \A w, u \in Worker : Holds(w) /\ Holds(u) /\ job[w].index = job[u].index => w = u
    /\ \A w \in Worker : Unwritten(w) => job[w].index \notin call[w[1]].received
    /\ \A w \in Worker : wpc[w] \in {"save", "replace"} => job[w].index \in call[w[1]].received
    /\ \A w \in Worker : wpc[w] \in {"lock", "open", "create", "update"} =>
         job[w].payload \in Version

\* The lock excludes; what a cancel leaves are threads that ran under it.
LockInv ==
    /\ \A w, u \in Worker : Critical(w) /\ Critical(u) => w = u
    /\ \A w \in Worker : Critical(w) => call[w[1]].locked \/ pc[w[1]] = "cancelled"
    /\ \A w \in Worker : pc[w[1]] = "cancelled" => wpc[w] = "off" \/ Critical(w)

\* What is claimed, in the state file, in the file that will replace it and in
\* a live call's memory, is on disk.
ClaimsInv ==
    /\ state # Absent => state.size = Size /\ state.received \subseteq All
    /\ part = Absent => Claimed = {} \/ Claimed = All
    /\ ResumeSafe
    /\ \A w \in Worker : wpc[w] # "off" =>
         /\ Claimed \subseteq call[w[1]].received
         /\ \A i \in call[w[1]].received : part # Absent /\ part[i] \in Version
    /\ \A w \in Worker : wpc[w] = "create" => part = Absent
    /\ \A w \in Worker : wpc[w] = "replace" =>
         /\ tmp # Absent /\ tmp.size = Size
         /\ Claimed \subseteq tmp.received
         /\ job[w].index \in tmp.received
         /\ tmp.received \subseteq call[w[1]].received

\* A call that gathers has lost no chunk, and one that verifies has saved all.
GatherInv ==
    /\ \A a \in Slot : pc[a] = "gather" /\ call[a].queue # {} => wpc[<<a, 1>>] # "off"
    /\ \A a \in Slot : pc[a] = "gather" =>
         \A i \in All : \/ i \in Claimed \/ i \in call[a].queue
                        \/ \E w \in WorkersOf(a) : Holds(w) /\ job[w].index = i
    /\ \A a \in Slot : pc[a] \in {"verify", "compute"} \/ fin[a] \in {"resize", "promote"} =>
         Claimed = All

ResumeInv == JobsInv /\ LockInv /\ ClaimsInv /\ GatherInv

-----------------------------------------------------------------------------
(* Steps of a worker. *)

\* While a worker is alive, every live worker is of its call, and nothing is
\* verified or promoted.
LEMMA Alone ==
    ASSUME TypeOK, TargetInv, NEW w \in Worker, wpc[w] # "off"
    PROVE  /\ w[1] \in Slot
           /\ \A u \in Worker : u[1] \in Slot /\ (wpc[u] # "off" => u[1] = w[1])
           /\ \A b \in Slot : pc[b] \notin {"verify", "compute", "finish"} /\ fin[b] = "none"
<1>1. \A u \in Worker : u[1] \in Slot /\ u \in WorkersOf(u[1])
  BY DEF Worker, WorkersOf
<1>2. \A u \in Worker : wpc[u] # "off" => ~ Quiet(u[1])
  BY <1>1 DEF Quiet
<1> QED
  BY <1>1, <1>2 DEF TargetInv, OneCall, VerifiedUndisturbed

\* Every worker belongs to its call, and every call has a first worker.
LEMMA Workers ==
    /\ \A w \in Worker : w[1] \in Slot /\ w \in WorkersOf(w[1])
    /\ \A a \in Slot : <<a, 1>> \in Worker
    /\ \A a \in Slot : WorkersOf(a) \subseteq Worker
BY SizeAssumption DEF Worker, WorkersOf

\* A worker goes on with its chunk, or gives it up, or has saved it.
LEMMA JobsMove ==
    ASSUME TypeOK, TargetInv, JobsInv, NEW w \in Worker, wpc[w] # "off", UNCHANGED man,
           \A u \in Worker : u # w => wpc'[u] = wpc[u] /\ job'[u] = job[u],
           job'[w].index = job[w].index,
           \A b \in Slot : /\ call'[b].size = call[b].size
                           /\ call'[b].queue = call[b].queue
                           /\ call'[b].received = call[b].received,
           Holds(w)' => Holds(w),
           Unwritten(w)' => Unwritten(w),
           wpc'[w] \in {"save", "replace"} => wpc[w] \in {"save", "replace"},
           wpc'[w] \in {"lock", "open", "create", "update"} => job'[w].payload \in Version
    PROVE  JobsInv'
<1>1. All' = All /\ Size' = Size
  BY DEF All, Size
<1>2. \A u \in Worker : /\ u[1] \in Slot
                        /\ job'[u].index = job[u].index
                        /\ wpc'[u] # "off" => wpc[u] # "off"
                        /\ Holds(u)' => Holds(u)
                        /\ Unwritten(u)' => Unwritten(u)
                        /\ wpc'[u] \in {"save", "replace"} => wpc[u] \in {"save", "replace"}
  BY Workers DEF Holds, Unwritten
<1>3. \A u \in Worker : wpc'[u] # "off" =>
         /\ call'[u[1]].size = Size
         /\ call'[u[1]].queue \subseteq All
         /\ call'[u[1]].received \subseteq All \ call'[u[1]].queue
  BY <1>2 DEF JobsInv
<1>4. \A u \in Worker : Holds(u)' => job'[u].index \in All \ call'[u[1]].queue
  BY <1>2 DEF JobsInv
<1>5. \A u, x \in Worker : Holds(u)' /\ Holds(x)' /\ job'[u].index = job'[x].index => u = x
  BY <1>2 DEF JobsInv
<1>6. \A u \in Worker : Unwritten(u)' => job'[u].index \notin call'[u[1]].received
  BY <1>2 DEF JobsInv
<1>7. \A u \in Worker :
        /\ wpc'[u] \in {"save", "replace"} => job'[u].index \in call'[u[1]].received
        /\ wpc'[u] \in {"lock", "open", "create", "update"} => job'[u].payload \in Version
  BY <1>2 DEF JobsInv
<1> QED
  BY <1>1, <1>3, <1>4, <1>5, <1>6, <1>7 DEF JobsInv

\* It moves on under the lock, or leaves it; whoever leaves it was alone there.
LEMMA LockMove ==
    ASSUME LockInv, NEW w \in Worker,
           \A u \in Worker : u # w => wpc'[u] = wpc[u],
           Critical(w)' => Critical(w),
           \A b \in Slot : pc'[b] = "cancelled" <=> pc[b] = "cancelled",
           Critical(w)' \/ ~ Critical(w) =>
              \A b \in Slot : call'[b].locked = call[b].locked,
           pc[w[1]] = "cancelled" => wpc'[w] = "off" \/ Critical(w)'
    PROVE  LockInv'
<1>1. \A u \in Worker : u[1] \in Slot /\ (Critical(u)' => Critical(u))
  BY Workers DEF Critical
<1> QED
  BY <1>1 DEF LockInv, Critical

\* It changes nothing that is claimed.
LEMMA ClaimsMove ==
    ASSUME ClaimsInv, NEW w \in Worker, wpc[w] # "off", UNCHANGED <<part, tmp, state, man>>,
           \A u \in Worker : u # w => wpc'[u] = wpc[u] /\ job'[u] = job[u],
           job'[w].index = job[w].index,
           \A b \in Slot : call'[b].received = call[b].received,
           wpc'[w] = "create" => wpc[w] = "create" \/ part = Absent,
           wpc'[w] = "replace" => wpc[w] = "replace"
    PROVE  ClaimsInv'
<1>1. All' = All /\ Size' = Size /\ Claimed' = Claimed
  BY DEF All, Size, Claimed
<1>2. \A u \in Worker : /\ u[1] \in Slot
                        /\ job'[u].index = job[u].index
                        /\ wpc'[u] # "off" => wpc[u] # "off"
                        /\ wpc'[u] = "create" => part = Absent
                        /\ wpc'[u] = "replace" => wpc[u] = "replace"
  BY Workers DEF ClaimsInv
<1> QED
  BY <1>1, <1>2 DEF ClaimsInv, ResumeSafe

\* It keeps its chunk or has saved it, if its call still gathers.
LEMMA GatherMove ==
    ASSUME GatherInv, NEW w \in Worker, UNCHANGED <<man, fin>>,
           \A u \in Worker : u # w => wpc'[u] = wpc[u] /\ job'[u] = job[u],
           job'[w].index = job[w].index,
           \A b \in Slot : call'[b].queue = call[b].queue,
           \A b \in Slot : pc'[b] = pc[b] \/ pc'[b] = "failed",
           \A b \in Slot : pc[b] \notin {"verify", "compute", "finish"} /\ fin[b] = "none",
           Claimed \subseteq Claimed',
           pc'[w[1]] = "gather" => /\ wpc'[w] # "off"
                                   /\ Holds(w)' \/ job[w].index \in Claimed'
    PROVE  GatherInv'
<1>1. All' = All /\ \A b \in Slot : WorkersOf(b)' = WorkersOf(b)
  BY DEF All, Size, WorkersOf
<1>2. \A b \in Slot : pc'[b] = "gather" /\ call'[b].queue # {} => wpc'[<<b, 1>>] # "off"
  BY Workers DEF GatherInv
<1>3. ASSUME NEW b \in Slot, pc'[b] = "gather", NEW k \in All,
             k \notin Claimed', k \notin call'[b].queue
      PROVE  \E u \in WorkersOf(b) : Holds(u)' /\ job'[u].index = k
  <2>1. PICK u \in WorkersOf(b) : Holds(u) /\ job[u].index = k
    BY <1>3 DEF GatherInv
  <2>2. u \in Worker /\ u[1] = b
    BY DEF WorkersOf
  <2>3. Holds(u)' /\ job'[u].index = k
    BY <1>3, <2>1, <2>2 DEF Holds
  <2> QED
    BY <2>3
<1>4. \A b \in Slot : pc'[b] \notin {"verify", "compute"} /\ fin'[b] \notin {"resize", "promote"}
  OBVIOUS
<1> QED
  BY <1>1, <1>2, <1>3, <1>4 DEF GatherInv

LEMMA ResumeTake ==
    ASSUME TypeOK, TargetInv, ResumeInv, NEW w \in Worker, Take(w)
    PROVE  ResumeInv'
<1> DEFINE a == w[1]
<1>1. /\ a \in Slot
      /\ \A u \in Worker : u[1] \in Slot /\ (wpc[u] # "off" => u[1] = a)
      /\ \A b \in Slot : pc[b] \notin {"verify", "compute", "finish"} /\ fin[b] = "none"
      /\ wpc[w] = "take"
  BY Alone DEF Take
<1>2. UNCHANGED <<part, tmp, state, man, pc, fin>> /\ All' = All /\ Size' = Size
      /\ Claimed' = Claimed
  BY DEF Take, disk, net, All, Size, Claimed
<1>3. CASE call[a].queue = {} /\ wpc' = [wpc EXCEPT ![w] = "off"] /\ UNCHANGED <<call, job>>
  <2>1. \A u \in Worker : wpc'[u] = IF u = w THEN "off" ELSE wpc[u]
    BY <1>3 DEF TypeOK
  <2>2. JobsInv'
    BY <1>2, <1>3, <2>1 DEF ResumeInv, JobsInv, Holds, Unwritten
  <2>3. LockInv'
    BY <1>2, <1>3, <2>1 DEF ResumeInv, LockInv, Critical
  <2>4. ClaimsInv'
    BY <1>2, <1>3, <2>1 DEF ResumeInv, ClaimsInv, ResumeSafe
  <2>5. GatherInv'
    BY <1>1, <1>2, <1>3, <2>1 DEF ResumeInv, GatherInv, Holds, WorkersOf
  <2> QED
    BY <2>2, <2>3, <2>4, <2>5 DEF ResumeInv
<1>4. ASSUME NEW i \in call[a].queue,
             call' = [call EXCEPT ![a].queue = @ \ {i}],
             job' = [job EXCEPT ![w].index = i],
             wpc' = [wpc EXCEPT ![w] = "fetch"]
      PROVE  ResumeInv'
  <2>1. /\ \A u \in Worker : wpc'[u] = IF u = w THEN "fetch" ELSE wpc[u]
        /\ \A u \in Worker : u # w => job'[u] = job[u]
        /\ job'[w].index = i
        /\ \A b \in Slot : b # a => call'[b] = call[b]
        /\ call'[a].queue = call[a].queue \ {i}
        /\ \A b \in Slot : /\ call'[b].received = call[b].received
                           /\ call'[b].size = call[b].size
                           /\ call'[b].locked = call[b].locked
    BY <1>1, <1>4 DEF TypeOK, Call, Job
  <2>2. JobsInv'
    <3>1. /\ i \in All /\ i \notin call[a].received
          /\ \A u \in Worker : Holds(u) => job[u].index # i /\ u # w
      BY <1>1 DEF ResumeInv, JobsInv, Holds
    <3>2. \A u \in Worker : Holds(u)' <=> u = w \/ Holds(u)
      BY <2>1 DEF Holds
    <3>3. \A u \in Worker : Unwritten(u)' => u = w \/ Unwritten(u)
      BY <2>1 DEF Unwritten
    <3>4. \A u \in Worker : wpc'[u] # "off" =>
            /\ call'[u[1]].size = Size
            /\ call'[u[1]].queue \subseteq All
            /\ call'[u[1]].received \subseteq All \ call'[u[1]].queue
      <4>1. /\ call[a].size = Size
            /\ call[a].queue \subseteq All
            /\ call[a].received \subseteq All \ call[a].queue
        BY <1>1 DEF ResumeInv, JobsInv
      <4>2. \A u \in Worker : wpc'[u] # "off" => u[1] = a
        BY <1>1, <2>1
      <4> QED
        BY <1>1, <2>1, <4>1, <4>2
    <3>5. \A u \in Worker : Holds(u)' => job'[u].index \in All \ call'[u[1]].queue
      BY <1>1, <2>1, <3>1, <3>2 DEF ResumeInv, JobsInv
    <3>6. \A u, x \in Worker : Holds(u)' /\ Holds(x)' /\ job'[u].index = job'[x].index => u = x
      BY <2>1, <3>1, <3>2 DEF ResumeInv, JobsInv
    <3>7. \A u \in Worker : Unwritten(u)' => job'[u].index \notin call'[u[1]].received
      BY <1>1, <2>1, <3>1, <3>3 DEF ResumeInv, JobsInv
    <3>8. \A u \in Worker :
            /\ wpc'[u] \in {"save", "replace"} => job'[u].index \in call'[u[1]].received
            /\ wpc'[u] \in {"lock", "open", "create", "update"} => job'[u].payload \in Version
      BY <1>1, <2>1 DEF ResumeInv, JobsInv
    <3> QED
      BY <1>2, <3>4, <3>5, <3>6, <3>7, <3>8 DEF JobsInv
  <2>3. LockInv'
    BY <1>1, <1>2, <2>1 DEF ResumeInv, LockInv, Critical
  <2>4. ClaimsInv'
    BY <1>1, <1>2, <2>1 DEF ResumeInv, ClaimsInv, ResumeSafe
  <2>5. GatherInv'
    <3>1. \A u \in Worker : Holds(u) => Holds(u)' /\ u # w
      BY <1>1, <2>1 DEF Holds
    <3>2. Holds(w)' /\ w \in WorkersOf(a)
      BY <2>1, Workers DEF Holds
    <3>3. \A b \in Slot : pc[b] = "gather" /\ call'[b].queue # {} => wpc'[<<b, 1>>] # "off"
      BY <2>1, Workers DEF ResumeInv, GatherInv
    <3>4. \A b \in Slot : pc[b] = "gather" =>
            \A k \in All : \/ k \in Claimed \/ k \in call'[b].queue
                           \/ \E u \in WorkersOf(b) : Holds(u)' /\ job'[u].index = k
      BY <1>1, <2>1, <3>1, <3>2, Workers DEF ResumeInv, GatherInv
    <3> QED
      BY <1>1, <1>2, <3>3, <3>4 DEF GatherInv, WorkersOf
  <2> QED
    BY <2>2, <2>3, <2>4, <2>5 DEF ResumeInv
<1> QED
  BY <1>3, <1>4 DEF Take, a

\* Waiting, failing and choosing the open mode change nothing that is claimed.
LEMMA ResumeFetch ==
    ASSUME TypeOK, TargetInv, ResumeInv, EditsKeepSize, NEW w \in Worker,
           FetchChunk(w) \/ FetchFails(w) \/ Lock(w) \/ OpenPart(w) \/ ThreadRaises(w)
    PROVE  ResumeInv'
<1> USE DEF ResumeInv
<1>1. /\ w[1] \in Slot
      /\ \A u \in Worker : u[1] \in Slot /\ (wpc[u] # "off" => u[1] = w[1])
      /\ \A b \in Slot : pc[b] \notin {"verify", "compute", "finish"} /\ fin[b] = "none"
      /\ wpc[w] # "off"
  BY Alone DEF FetchChunk, FetchFails, Lock, OpenPart, ThreadRaises
<1>2. UNCHANGED <<part, tmp, state, man, fin>> /\ Claimed' = Claimed
  BY DEF FetchChunk, FetchFails, Lock, OpenPart, ThreadRaises, disk, net, Claimed
<1>3. /\ \A u \in Worker : u # w => wpc'[u] = wpc[u] /\ job'[u] = job[u]
      /\ job'[w].index = job[w].index
      /\ \A b \in Slot : /\ call'[b].size = call[b].size
                         /\ call'[b].queue = call[b].queue
                         /\ call'[b].received = call[b].received
  <2>1. CASE FetchChunk(w)
    BY <1>1, <2>1 DEF FetchChunk, TypeOK, Job
  <2>2. CASE FetchFails(w)
    BY <1>1, <2>2 DEF FetchFails, WorkerRaises, TypeOK
  <2>3. CASE Lock(w)
    BY <1>1, <2>3 DEF Lock, TypeOK, Call
  <2>4. CASE OpenPart(w)
    BY <1>1, <2>4 DEF OpenPart, TypeOK
  <2>5. CASE ThreadRaises(w)
    BY <1>1, <2>5 DEF ThreadRaises, WorkerRaises, Released, TypeOK, Call
  <2> QED
    BY <2>1, <2>2, <2>3, <2>4, <2>5
<1>4. CASE FetchChunk(w)
  <2>1. Content(ver)[job[w].index] \in Version
    BY <1>4 DEF FetchChunk, JobsInv, Holds, Content, All, Size, EditsKeepSize, TypeOK
  <2>2. wpc[w] = "fetch" /\ wpc'[w] = "lock" /\ job'[w].payload \in Version
        /\ UNCHANGED <<pc, call>>
    BY <1>4, <2>1 DEF FetchChunk, TypeOK
  <2>3. JobsInv'
    BY <1>1, <1>2, <1>3, <2>2, JobsMove DEF Holds, Unwritten
  <2>4. LockInv'
    BY <1>1, <1>3, <2>2, LockMove DEF Critical, LockInv
  <2>5. ClaimsInv'
    BY <1>1, <1>2, <1>3, <2>2, ClaimsMove
  <2>6. GatherInv'
    BY <1>1, <1>2, <1>3, <2>2, GatherMove DEF Holds
  <2> QED
    BY <2>3, <2>4, <2>5, <2>6
<1>5. CASE FetchFails(w)
  <2>1. wpc[w] = "fetch" /\ wpc'[w] = "off" /\ UNCHANGED call
    BY <1>5 DEF FetchFails, WorkerRaises, TypeOK
  <2>2. \A b \in Slot : pc'[b] = IF b = w[1] /\ pc[b] = "gather" THEN "failed" ELSE pc[b]
    BY <1>5 DEF FetchFails, WorkerRaises, TypeOK
  <2>3. JobsInv'
    BY <1>1, <1>2, <1>3, <2>1, JobsMove DEF Holds, Unwritten
  <2>4. LockInv'
    BY <1>1, <1>3, <2>1, <2>2, LockMove DEF Critical
  <2>5. ClaimsInv'
    BY <1>1, <1>2, <1>3, <2>1, ClaimsMove
  <2>6. GatherInv'
    BY <1>1, <1>2, <1>3, <2>2, GatherMove DEF Holds
  <2> QED
    BY <2>3, <2>4, <2>5, <2>6
<1>6. CASE Lock(w)
  <2>1. /\ wpc[w] = "lock" /\ wpc'[w] = "open" /\ UNCHANGED <<pc, job>>
        /\ ~ call[w[1]].locked /\ call'[w[1]].locked
        /\ \A u \in Worker : u # w => wpc'[u] = wpc[u]
    BY <1>1, <1>6 DEF Lock, TypeOK, Call
  <2>2. job[w].payload \in Version
    BY <2>1 DEF JobsInv
  <2>3. JobsInv'
    BY <1>1, <1>2, <1>3, <2>1, <2>2, JobsMove DEF Holds, Unwritten
  <2>4. LockInv'
    <3>1. pc[w[1]] # "cancelled" /\ \A u \in Worker : ~ Critical(u)
      BY <1>1, <2>1 DEF LockInv, Critical
    <3> QED
      BY <1>1, <2>1, <3>1 DEF LockInv, Critical
  <2>5. ClaimsInv'
    BY <1>1, <1>2, <1>3, <2>1, ClaimsMove
  <2>6. GatherInv'
    BY <1>1, <1>2, <1>3, <2>1, GatherMove DEF Holds
  <2> QED
    BY <2>3, <2>4, <2>5, <2>6
<1>7. CASE OpenPart(w)
  <2>1. /\ wpc[w] = "open" /\ wpc'[w] = (IF part = Absent THEN "create" ELSE "update")
        /\ UNCHANGED <<pc, call, job>>
    BY <1>7 DEF OpenPart, TypeOK
  <2>2. job[w].payload \in Version
    BY <2>1 DEF JobsInv
  <2>3. JobsInv'
    BY <1>1, <1>2, <1>3, <2>1, <2>2, JobsMove DEF Holds, Unwritten
  <2>4. LockInv'
    BY <1>1, <1>3, <2>1, LockMove DEF Critical
  <2>5. ClaimsInv'
    BY <1>1, <1>2, <1>3, <2>1, ClaimsMove
  <2>6. GatherInv'
    BY <1>1, <1>2, <1>3, <2>1, GatherMove DEF Holds
  <2> QED
    BY <2>3, <2>4, <2>5, <2>6
<1>8. CASE ThreadRaises(w)
  <2>1. /\ wpc[w] \in {"update", "replace"} /\ wpc'[w] = "off"
        /\ \A b \in Slot : pc'[b] = IF b = w[1] /\ pc[b] = "gather" THEN "failed" ELSE pc[b]
        /\ UNCHANGED job
    BY <1>8 DEF ThreadRaises, WorkerRaises, TypeOK
  <2>3. JobsInv'
    BY <1>1, <1>2, <1>3, <2>1, JobsMove DEF Holds, Unwritten
  <2>4. LockInv'
    BY <1>1, <1>3, <2>1, LockMove DEF Critical
  <2>5. ClaimsInv'
    BY <1>1, <1>2, <1>3, <2>1, ClaimsMove
  <2>6. GatherInv'
    BY <1>1, <1>2, <1>3, <2>1, GatherMove DEF Holds
  <2> QED
    BY <2>3, <2>4, <2>5, <2>6
<1> QED
  BY <1>4, <1>5, <1>6, <1>7, <1>8

\* A chunk is on disk, complete, when write_chunk counts it as received.
LEMMA ResumeWrite ==
    ASSUME TypeOK, TargetInv, ResumeInv, NEW w \in Worker, WriteChunk(w)
    PROVE  ResumeInv'
<1> USE DEF ResumeInv
<1> DEFINE a == w[1]
<1> DEFINE i == job[w].index
<1>1. /\ a \in Slot
      /\ \A u \in Worker : u[1] \in Slot /\ (wpc[u] # "off" => u[1] = a)
      /\ \A b \in Slot : pc[b] \notin {"verify", "compute", "finish"} /\ fin[b] = "none"
      /\ wpc[w] \in {"create", "update"}
  BY Alone DEF WriteChunk
<1>2. /\ UNCHANGED <<tmp, state, man, pc, fin, job>> /\ Claimed' = Claimed
      /\ All' = All /\ Size' = Size
  BY DEF WriteChunk, net, Claimed, All, Size
<1>3. /\ \A u \in Worker : u # w => wpc'[u] = wpc[u]
      /\ wpc'[w] = IF pc[a] = "cancelled" THEN "off" ELSE "save"
      /\ \A b \in Slot : b # a => call'[b] = call[b]
      /\ \A b \in Slot : /\ call'[b].size = call[b].size
                         /\ call'[b].queue = call[b].queue
                         /\ call'[b].locked = call[b].locked
      /\ call'[a].received = call[a].received \cup {i}
  BY <1>1 DEF WriteChunk, AfterThread, TypeOK, Call
<1>4. /\ i \in All /\ i \in Chunk /\ i \notin call[a].queue /\ i \notin call[a].received
      /\ job[w].payload \in Version
      /\ \A u \in Worker : Holds(u) /\ u # w => job[u].index # i
  BY <1>1 DEF JobsInv, Holds, Unwritten, All
<1>5. /\ part' # Absent /\ part'[i] \in Version
      /\ \A k \in call[a].received : part'[k] \in Version
  <2>1. \A k \in call[a].received : k \in Chunk /\ k # i
    BY <1>1, <1>4 DEF TypeOK, Call
  <2>2. job[w].payload # Eof
    BY <1>4, SentinelAssumption
  <2>3. CASE wpc[w] = "create"
    <3>1. call[a].received = {}
      BY <1>1, <2>3 DEF ClaimsInv
    <3>2. part' = WriteAt(Empty, i, job[w].payload)
      BY <2>3 DEF WriteChunk
    <3>3. part' \in File /\ part'[i] = job[w].payload
      BY <1>4, <2>2, <3>2, ContentType, WriteAtType DEF WriteAt, Cell
    <3> QED
      BY <1>4, <3>1, <3>3, SentinelAssumption
  <2>4. CASE wpc[w] = "update"
    <3>1. part # Absent /\ part \in File /\ part' = WriteAt(part, i, job[w].payload)
      BY <2>4 DEF WriteChunk, TypeOK
    <3>2. \A k \in call[a].received : part[k] \in Version /\ part[k] # Eof
      BY <1>1, SentinelAssumption DEF ClaimsInv
    <3>3. part' \in File /\ part'[i] = job[w].payload
          /\ \A k \in call[a].received : part'[k] = part[k]
      BY <1>4, <2>1, <2>2, <3>1, <3>2, WriteAtType DEF WriteAt, Cell
    <3> QED
      BY <1>4, <3>2, <3>3, SentinelAssumption
  <2> QED
    BY <1>1, <2>3, <2>4
<1> HIDE DEF i
<1>6. JobsInv'
  <2>1. \A u \in Worker : /\ Holds(u)' => Holds(u)
                          /\ Unwritten(u)' => Unwritten(u) /\ u # w
                          /\ wpc'[u] # "off" => wpc[u] # "off"
    BY <1>1, <1>3 DEF Holds, Unwritten
  <2>2. \A u \in Worker : wpc'[u] # "off" =>
          /\ call'[u[1]].size = Size
          /\ call'[u[1]].queue \subseteq All
          /\ call'[u[1]].received \subseteq All \ call'[u[1]].queue
    <3>1. call[a].size = Size /\ call[a].queue \subseteq All
          /\ call[a].received \subseteq All \ call[a].queue
      BY <1>1 DEF JobsInv
    <3>2. call'[a].received \subseteq All \ call'[a].queue
      BY <1>1, <1>3, <1>4, <3>1
    <3> QED
      BY <1>1, <1>3, <2>1, <3>1, <3>2
  <2>3. \A u \in Worker : Holds(u)' => job'[u].index \in All \ call'[u[1]].queue
    BY <1>1, <1>2, <1>3, <2>1 DEF JobsInv
  <2>4. \A u, x \in Worker : Holds(u)' /\ Holds(x)' /\ job'[u].index = job'[x].index => u = x
    BY <1>2, <2>1 DEF JobsInv
  <2>5. \A u \in Worker : Unwritten(u)' => job'[u].index \notin call'[u[1]].received
    <3>1. ASSUME NEW u \in Worker, Unwritten(u), u # w
          PROVE  job[u].index \notin call[a].received \cup {i} /\ u[1] = a
      BY <1>1, <1>4, <3>1 DEF JobsInv, Unwritten, Holds
    <3> QED
      BY <1>2, <1>3, <2>1, <3>1
  <2>6. \A u \in Worker :
          wpc'[u] \in {"save", "replace"} => job'[u].index \in call'[u[1]].received
    <3>1. ASSUME NEW u \in Worker, u # w, wpc[u] \in {"save", "replace"}
          PROVE  job[u].index \in call[a].received /\ u[1] = a
      BY <1>1, <3>1 DEF JobsInv
    <3>2. job[w].index \in call'[a].received
      BY <1>3 DEF i
    <3> QED
      BY <1>2, <1>3, <3>1, <3>2
  <2>7. \A u \in Worker :
          wpc'[u] \in {"lock", "open", "create", "update"} => job'[u].payload \in Version
    BY <1>2, <1>3 DEF JobsInv
  <2> QED
    BY <1>2, <2>2, <2>3, <2>4, <2>5, <2>6, <2>7 DEF JobsInv
<1>7. LockInv'
  BY <1>1, <1>2, <1>3, LockMove DEF Critical
<1>8. ClaimsInv'
  <2>1. \A u \in Worker : wpc[u] = "replace" \/ wpc[u] = "create" => u = w
    BY <1>1 DEF LockInv, Critical
  <2>2. \A u \in Worker : wpc'[u] # "replace" /\ wpc'[u] # "create"
    BY <1>1, <1>3, <2>1
  <2>3. Claimed \subseteq call[a].received
    BY <1>1 DEF ClaimsInv
  <2>4. \A u \in Worker : wpc'[u] # "off" =>
          /\ Claimed \subseteq call'[u[1]].received
          /\ \A k \in call'[u[1]].received : part' # Absent /\ part'[k] \in Version
    <3>1. \A u \in Worker : wpc'[u] # "off" => u[1] = a
      BY <1>1, <1>3
    <3> QED
      BY <1>3, <1>5, <2>3, <3>1 DEF i
  <2>5. ResumeSafe'
    BY <1>2, <1>5, <2>3 DEF ResumeSafe, Claimed
  <2> QED
    BY <1>2, <1>5, <2>2, <2>4, <2>5 DEF ClaimsInv
<1>9. GatherInv'
  BY <1>1, <1>2, <1>3, GatherMove DEF Holds
<1> QED
  BY <1>6, <1>7, <1>8, <1>9

\* What is saved was received, and everything saved before is in it.
LEMMA ResumeSave ==
    ASSUME TypeOK, TargetInv, ResumeInv, NEW w \in Worker, SaveState(w)
    PROVE  ResumeInv'
<1> USE DEF ResumeInv
<1>1. /\ w[1] \in Slot
      /\ \A u \in Worker : u[1] \in Slot /\ (wpc[u] # "off" => u[1] = w[1])
      /\ \A b \in Slot : pc[b] \notin {"verify", "compute", "finish"} /\ fin[b] = "none"
      /\ wpc[w] = "save"
  BY Alone DEF SaveState
<1>2. /\ UNCHANGED <<part, state, man, pc, fin, call, job>> /\ Claimed' = Claimed
      /\ All' = All /\ Size' = Size
  BY DEF SaveState, net, Claimed, All, Size
<1>3. /\ \A u \in Worker : u # w => wpc'[u] = wpc[u]
      /\ wpc'[w] = "replace"
      /\ tmp' = [size |-> call[w[1]].size, received |-> call[w[1]].received]
      /\ tmp' \in State
  BY <1>1 DEF SaveState, TypeOK, Call, State
<1>4. JobsInv'
  BY <1>1, <1>2, <1>3, JobsMove DEF Holds, Unwritten
<1>5. LockInv'
  BY <1>1, <1>2, <1>3, LockMove DEF Critical
<1>6. ClaimsInv'
  <2>1. \A u \in Worker : wpc[u] = "replace" => u = w
    BY <1>1 DEF LockInv, Critical
  <2>2. \A u \in Worker : wpc'[u] = "replace" => u = w
    BY <1>3, <2>1
  <2>3. tmp' # Absent /\ tmp'.size = Size /\ tmp'.received = call[w[1]].received
    BY <1>1, <1>3, SentinelAssumption DEF JobsInv
  <2>4. Claimed \subseteq call[w[1]].received /\ job[w].index \in call[w[1]].received
    BY <1>1 DEF ClaimsInv, JobsInv
  <2>5. \A u \in Worker : wpc'[u] # "off" => wpc[u] # "off"
    BY <1>1, <1>3
  <2>6. \A u \in Worker : wpc'[u] = "create" => wpc[u] = "create"
    BY <1>1, <1>3
  <2> QED
    BY <1>2, <2>2, <2>3, <2>4, <2>5, <2>6 DEF ClaimsInv, ResumeSafe
<1>7. GatherInv'
  BY <1>1, <1>2, <1>3, GatherMove DEF Holds
<1> QED
  BY <1>4, <1>5, <1>6, <1>7

\* The state file grows to what was saved.
LEMMA ResumeReplace ==
    ASSUME TypeOK, TargetInv, ResumeInv, NEW w \in Worker, ReplaceState(w)
    PROVE  ResumeInv' /\ Claimed \subseteq Claimed'
<1> USE DEF ResumeInv
<1>1. /\ w[1] \in Slot
      /\ \A u \in Worker : u[1] \in Slot /\ (wpc[u] # "off" => u[1] = w[1])
      /\ \A b \in Slot : pc[b] \notin {"verify", "compute", "finish"} /\ fin[b] = "none"
      /\ wpc[w] = "replace"
  BY Alone DEF ReplaceState
<1>2. /\ UNCHANGED <<part, man, pc, fin, job>> /\ state' = tmp /\ tmp # Absent
      /\ All' = All /\ Size' = Size /\ Claimed' = tmp.received
  BY DEF ReplaceState, net, Claimed, All, Size
<1>3. /\ \A u \in Worker : u # w => wpc'[u] = wpc[u]
      /\ wpc'[w] = IF pc[w[1]] = "cancelled" THEN "off" ELSE "take"
      /\ \A b \in Slot : /\ call'[b].size = call[b].size
                         /\ call'[b].queue = call[b].queue
                         /\ call'[b].received = call[b].received
  BY <1>1 DEF ReplaceState, Released, AfterThread, TypeOK, Call
<1>4. /\ tmp.size = Size /\ Claimed \subseteq tmp.received
      /\ job[w].index \in tmp.received /\ tmp.received \subseteq call[w[1]].received
      /\ call[w[1]].received \subseteq All
      /\ \A i \in call[w[1]].received : part # Absent /\ part[i] \in Version
  BY <1>1 DEF ClaimsInv, JobsInv
<1>5. JobsInv'
  BY <1>1, <1>2, <1>3, JobsMove DEF Holds, Unwritten
<1>6. LockInv'
  BY <1>1, <1>2, <1>3, LockMove DEF Critical
<1>7. ClaimsInv'
  <2>1. \A u \in Worker : wpc[u] \in {"replace", "create"} => u = w
    BY <1>1 DEF LockInv, Critical
  <2>2. \A u \in Worker : wpc'[u] \notin {"replace", "create"}
    BY <1>3, <2>1
  <2>3. \A u \in Worker : wpc'[u] # "off" => u[1] = w[1]
    BY <1>1, <1>3
  <2>4. ResumeSafe'
    BY <1>2, <1>4 DEF ResumeSafe
  <2>5. part = Absent => Claimed' = {}
    BY <1>2, <1>4
  <2>6. state' # Absent /\ state'.size = Size /\ state'.received \subseteq All
    BY <1>2, <1>4
  <2>7. \A u \in Worker : wpc'[u] # "off" =>
          /\ Claimed' \subseteq call'[u[1]].received
          /\ \A i \in call'[u[1]].received : part' # Absent /\ part'[i] \in Version
    BY <1>1, <1>2, <1>3, <1>4, <2>3
  <2> QED
    BY <1>2, <2>2, <2>4, <2>5, <2>6, <2>7 DEF ClaimsInv
<1>8. GatherInv'
  BY <1>1, <1>2, <1>3, <1>4, GatherMove DEF Holds
<1> QED
  BY <1>2, <1>4, <1>5, <1>6, <1>7, <1>8
-----------------------------------------------------------------------------
(* Other steps. *)

\* With no worker alive, JobsInv and LockInv say nothing, ClaimsInv and
\* GatherInv little.
LEMMA NobodyAlive ==
    ASSUME \A u \in Worker : wpc[u] = "off",
           state # Absent => state.size = Size /\ state.received \subseteq All,
           part = Absent => Claimed = {} \/ Claimed = All,
           ResumeSafe
    PROVE  JobsInv /\ LockInv /\ ClaimsInv
BY DEF JobsInv, LockInv, ClaimsInv, Holds, Unwritten, Critical

\* Verification starts when every chunk was saved; promotion takes away the part
\* file whole, and removing the state takes away every claim.
LEMMA ResumeCallStep ==
    ASSUME TypeOK, TargetInv, ResumeInv, EditsKeepSize, NEW a \in Slot, CallStep(a)
    PROVE  ResumeInv' /\ (state' # Absent => Claimed \subseteq Claimed')
<1> USE DEF ResumeInv
<1>1. /\ \A b \in Slot : b # a => Quiet(b) /\ pc'[b] = pc[b] /\ fin'[b] = fin[b]
      /\ \A u \in Worker : wpc[u] = "off" /\ wpc'[u] = "off"
  BY CallAlone, CallFrame
<1>2. UNCHANGED man /\ Size' = Size /\ All' = All
  BY DEF CallStep, Gathered, Verify, VerifyFails, ComputeSha256, ResizePart, Promote,
     FinishRaises, RemoveState, net, Size, All
<1>3. \A b \in Slot : b # a => /\ pc'[b] \notin {"gather", "verify", "compute"}
                               /\ fin'[b] \notin {"resize", "promote"}
  BY <1>1 DEF Quiet, Running
<1>4. /\ state # Absent => state.size = Size /\ state.received \subseteq All
      /\ part = Absent => Claimed = {} \/ Claimed = All
      /\ ResumeSafe /\ Claimed \subseteq All
  BY DEF ClaimsInv, Claimed
<1>5. CASE Gathered(a) \/ Verify(a) \/ VerifyFails(a) \/ ComputeSha256(a) \/ FinishRaises(a)
  <2>1. UNCHANGED <<part, state>> /\ Claimed' = Claimed
    BY <1>5 DEF Gathered, Verify, VerifyFails, ComputeSha256, FinishRaises, disk, Claimed
  <2>2. (JobsInv /\ LockInv /\ ClaimsInv)'
    BY <1>1, <1>2, <1>4, <2>1 DEF JobsInv, LockInv, ClaimsInv, Holds, Unwritten, Critical,
       ResumeSafe
  <2>3. pc'[a] # "gather"
    BY <1>5 DEF Gathered, Verify, VerifyFails, ComputeSha256, FinishRaises, FinishReturns,
       TypeOK, TargetInv, FinishVerified
  <2>4. pc'[a] \in {"verify", "compute"} \/ fin'[a] \in {"resize", "promote"} => Claimed = All
    <3>1. CASE Gathered(a)
      <4>1. call[a].queue = {}
        BY <1>1, <3>1, Workers DEF Gathered, GatherInv
      <4>2. \A i \in All : i \in Claimed
        BY <1>1, <3>1, <4>1, Workers DEF Gathered, GatherInv, Holds
      <4> QED
        BY <1>4, <4>2
    <3>2. CASE ~ Gathered(a)
      BY <1>5, <3>2 DEF Verify, VerifyFails, ComputeSha256, FinishRaises, FinishReturns,
         TypeOK, GatherInv
    <3> QED
      BY <3>1, <3>2
  <2>5. GatherInv'
    BY <1>2, <1>3, <2>1, <2>3, <2>4 DEF GatherInv
  <2> QED
    BY <2>1, <2>2, <2>5
<1>6. CASE ResizePart(a) \/ Promote(a)
  <2>1. UNCHANGED <<state, pc>> /\ Claimed' = Claimed
    BY <1>6 DEF ResizePart, Promote, Claimed, net
  <2>2. Claimed = All /\ call[a].size = Size /\ pc[a] # "gather"
    BY <1>6 DEF ResizePart, Promote, GatherInv, TargetInv, FinishVerified, EditsKeepSize,
       Size, TypeOK
  <2>3. ResumeSafe'
    <3>1. CASE Promote(a)
      BY <3>1 DEF Promote, ResumeSafe
    <3>2. CASE ResizePart(a) /\ part = Absent
      <4>1. All = {}
        BY <2>2, <3>2, SizeAssumption DEF ResizePart, All, Chunk
      <4> QED
        BY <1>4, <2>1, <4>1 DEF ResumeSafe
    <3>3. CASE ResizePart(a) /\ part # Absent
      <4>1. part' = Resized(part, Size)
        BY <2>2, <3>3 DEF ResizePart
      <4>2. ASSUME state # Absent, NEW i \in state.received PROVE part'[i] \in Version
        <5>1. i \in Chunk /\ i < Size /\ part[i] \in Version
          BY <1>4, <3>3, <4>2 DEF All, ResumeSafe
        <5>2. part[i] # Eof /\ ~ (i >= Size)
          BY <5>1, SentinelAssumption, SizeAssumption DEF Chunk, Size, TypeOK
        <5> QED
          BY <4>1, <5>1, <5>2 DEF Resized
      <4> QED
        BY <2>1, <4>2 DEF ResumeSafe
    <3> QED
      BY <1>6, <3>1, <3>2, <3>3
  <2>4. (JobsInv /\ LockInv /\ ClaimsInv)'
    BY <1>1, <1>2, <1>4, <2>1, <2>2, <2>3 DEF JobsInv, LockInv, ClaimsInv, Holds,
       Unwritten, Critical
  <2>5. GatherInv'
    BY <1>2, <1>3, <2>1, <2>2 DEF GatherInv
  <2> QED
    BY <2>1, <2>4, <2>5
<1>7. CASE RemoveState(a)
  <2>1. UNCHANGED part /\ state' = Absent /\ Claimed' = {}
    BY <1>7 DEF RemoveState, Claimed
  <2>2. pc'[a] \notin {"gather", "verify", "compute"} /\ fin'[a] = "none"
    BY <1>7 DEF RemoveState, FinishReturns, TypeOK, TargetInv, FinishVerified
  <2>3. (JobsInv /\ LockInv /\ ClaimsInv)'
    BY <1>1, <1>2, <2>1 DEF JobsInv, LockInv, ClaimsInv, Holds, Unwritten, Critical,
       ResumeSafe
  <2>4. GatherInv'
    BY <1>2, <1>3, <2>2 DEF GatherInv
  <2> QED
    BY <2>1, <2>3, <2>4
<1> QED
  BY <1>5, <1>6, <1>7 DEF CallStep

\* A new call requests what the state file does not claim; if it requests
\* anything and there is no part file, nothing was claimed.
LEMMA ResumeDownloadFile ==
    ASSUME TypeOK, TargetInv, ResumeInv, ~ Overlap, NEW a \in Slot, DownloadFile(a)
    PROVE  ResumeInv' /\ UNCHANGED state
<1> USE DEF ResumeInv
<1>1. /\ \A b \in Slot : pc[b] \notin Running /\ fin[b] = "none"
      /\ \A u \in Worker : wpc[u] = "off"
  BY Workers DEF DownloadFile, Quiet
<1>2. /\ UNCHANGED <<part, tmp, state, man, fin, job>> /\ Size' = Size /\ All' = All
      /\ Claimed' = Claimed
  BY DEF DownloadFile, disk, Size, All, Claimed
<1>3. /\ state # Absent => state.size = Size /\ state.received \subseteq All
      /\ part = Absent => Claimed = {} \/ Claimed = All
      /\ ResumeSafe /\ Claimed \subseteq All
  BY DEF ClaimsInv, Claimed
<1>4. LoadedState(Size) = Claimed /\ Missing(Size) = All \ Claimed
  BY <1>3 DEF LoadedState, Missing, Claimed, All
<1>5. /\ call'[a].size = Size /\ call'[a].queue = All \ Claimed
      /\ call'[a].received = Claimed
      /\ \A b \in Slot : pc'[b] = IF b = a THEN "gather" ELSE pc[b]
      /\ \A u \in Worker : wpc'[u] = IF u[1] = a /\ u[2] <= Cardinality(All \ Claimed)
                                     THEN "take" ELSE "off"
  BY <1>1, <1>4 DEF DownloadFile, TypeOK, Size
<1>6. \A u \in Worker : wpc'[u] # "off" => u[1] = a /\ wpc'[u] = "take" /\ Claimed # All
  <2>1. SUFFICES ASSUME NEW u \in Worker, wpc'[u] # "off", Claimed = All PROVE FALSE
    BY <1>5
  <2>2. All \ Claimed = {} /\ u[2] \in 1 .. Concurrency /\ u[2] <= Cardinality(All \ Claimed)
    BY <1>5, <2>1 DEF Worker
  <2> QED
    BY <2>2, FS_EmptySet, SizeAssumption
<1>7. All \ Claimed # {} => wpc'[<<a, 1>>] = "take"
  <2>1. SUFFICES ASSUME All \ Claimed # {} PROVE 1 <= Cardinality(All \ Claimed)
    BY <1>5, Workers
  <2>2. IsFiniteSet(0 .. N - 1) /\ All \ Claimed \subseteq 0 .. N - 1
    BY FS_Interval, SizeAssumption DEF All, Chunk
  <2>3. IsFiniteSet(All \ Claimed) /\ Cardinality(All \ Claimed) \in Nat
    BY <2>2, FS_Subset, FS_CardinalityType
  <2>4. Cardinality(All \ Claimed) # 0
    BY <2>1, <2>3, FS_EmptySet
  <2> QED
    BY <2>3, <2>4
<1>8. JobsInv'
  BY <1>2, <1>3, <1>5, <1>6 DEF JobsInv, Holds, Unwritten
<1>9. LockInv'
  BY <1>5, <1>6 DEF LockInv, Critical
<1>10. ClaimsInv'
  <2>1. \A i \in Claimed : part # Absent => part[i] \in Version
    BY <1>3 DEF ResumeSafe, Claimed
  <2>2. \A u \in Worker : wpc'[u] # "off" =>
          /\ Claimed \subseteq call'[u[1]].received
          /\ \A i \in call'[u[1]].received : part # Absent /\ part[i] \in Version
    BY <1>3, <1>5, <1>6, <2>1
  <2>3. ResumeSafe'
    BY <1>2, <1>3 DEF ResumeSafe
  <2>4. \A u \in Worker : wpc'[u] \notin {"create", "replace"}
    BY <1>6
  <2> QED
    BY <1>2, <1>3, <2>2, <2>3, <2>4 DEF ClaimsInv
<1>11. GatherInv'
  BY <1>1, <1>2, <1>5, <1>7, Workers DEF GatherInv, Running
<1> QED
  BY <1>2, <1>8, <1>9, <1>10, <1>11

\* A cancel leaves the threads under the lock; all else of the call goes.
LEMMA ResumeCancel ==
    ASSUME TypeOK, TargetInv, ResumeInv, NEW a \in Slot, Cancel(a)
    PROVE  ResumeInv' /\ UNCHANGED state
<1> USE DEF ResumeInv
<1>1. /\ UNCHANGED <<part, tmp, state, man, job>> /\ Size' = Size /\ All' = All
      /\ Claimed' = Claimed
  BY DEF Cancel, disk, net, Size, All, Claimed
<1>2. /\ \A b \in Slot : /\ pc'[b] = IF b = a THEN "cancelled" ELSE pc[b]
                         /\ fin'[b] \in {fin[b], "none"}
                         /\ call'[b].size = call[b].size
                         /\ call'[b].queue = call[b].queue
                         /\ call'[b].received = call[b].received
                         /\ b # a => call'[b] = call[b]
  BY DEF Cancel, Released, TypeOK, Call
<1>3. \A u \in Worker : /\ wpc'[u] \in {wpc[u], "off"}
                        /\ u[1] # a => wpc'[u] = wpc[u]
                        /\ u[1] = a => wpc'[u] = "off" \/ Critical(u)'
  BY DEF Cancel, TypeOK, WorkersOf, Critical
<1>4. \A b \in Slot : b # a => Quiet(b)
  BY DEF Cancel, TargetInv, OneCall
<1>5. \A u \in Worker : /\ u[1] \in Slot
                        /\ wpc'[u] # "off" => wpc'[u] = wpc[u] /\ wpc[u] # "off"
                        /\ Holds(u)' => Holds(u)
                        /\ Unwritten(u)' => Unwritten(u)
                        /\ Critical(u)' => Critical(u)
  BY <1>3, Workers DEF Holds, Unwritten, Critical
<1>6. JobsInv'
  <2>1. \A u \in Worker : wpc'[u] # "off" =>
          /\ call'[u[1]].size = Size
          /\ call'[u[1]].queue \subseteq All
          /\ call'[u[1]].received \subseteq All \ call'[u[1]].queue
    <3>1. ASSUME NEW u \in Worker, wpc'[u] # "off"
          PROVE  /\ call[u[1]].size = Size
                 /\ call[u[1]].queue \subseteq All
                 /\ call[u[1]].received \subseteq All \ call[u[1]].queue
      BY <1>5, <3>1 DEF JobsInv
    <3>2. \A b \in Slot : /\ call'[b].size = call[b].size
                          /\ call'[b].queue = call[b].queue
                          /\ call'[b].received = call[b].received
      BY <1>2
    <3> QED
      BY <1>5, <3>1, <3>2
  <2>2. \A u \in Worker : Holds(u)' => job[u].index \in All \ call'[u[1]].queue
    BY <1>2, <1>5 DEF JobsInv
  <2>3. \A u, x \in Worker : Holds(u)' /\ Holds(x)' /\ job[u].index = job[x].index => u = x
    BY <1>5 DEF JobsInv
  <2>4. \A u \in Worker : Unwritten(u)' => job[u].index \notin call'[u[1]].received
    BY <1>2, <1>5 DEF JobsInv
  <2>5. \A u \in Worker :
          wpc'[u] \in {"save", "replace"} => job[u].index \in call'[u[1]].received
    <3>1. ASSUME NEW u \in Worker, wpc'[u] \in {"save", "replace"}
          PROVE  wpc[u] \in {"save", "replace"}
      BY <1>5, <3>1
    <3> QED
      BY <1>2, <1>5, <3>1 DEF JobsInv
  <2>6. \A u \in Worker :
          wpc'[u] \in {"lock", "open", "create", "update"} => job[u].payload \in Version
    <3>1. ASSUME NEW u \in Worker, wpc'[u] \in {"lock", "open", "create", "update"}
          PROVE  wpc[u] \in {"lock", "open", "create", "update"}
      BY <1>5, <3>1
    <3> QED
      BY <3>1 DEF JobsInv
  <2> QED
    BY <1>1, <2>1, <2>2, <2>3, <2>4, <2>5, <2>6 DEF JobsInv
<1>7. LockInv'
  <2>1. \A u, x \in Worker : Critical(u)' /\ Critical(x)' => u = x
    BY <1>5 DEF LockInv
  <2>2. \A u \in Worker : Critical(u)' => call'[u[1]].locked \/ pc'[u[1]] = "cancelled"
    BY <1>2, <1>5 DEF LockInv
  <2>3. \A u \in Worker : pc'[u[1]] = "cancelled" => wpc'[u] = "off" \/ Critical(u)'
    <3>1. ASSUME NEW u \in Worker, u[1] # a, pc[u[1]] = "cancelled"
          PROVE  wpc'[u] = "off" \/ Critical(u)'
      BY <1>3, <3>1 DEF LockInv, Critical
    <3> QED
      BY <1>2, <1>3, <1>5, <3>1
  <2> QED
    BY <2>1, <2>2, <2>3 DEF LockInv
<1>8. ClaimsInv'
  BY <1>1, <1>2, <1>5 DEF ClaimsInv, ResumeSafe
<1>9. GatherInv'
  <2>1. \A b \in Slot : pc'[b] # "gather"
    BY <1>2, <1>4 DEF Quiet, Running
  <2>2. \A b \in Slot : pc'[b] \in {"verify", "compute"} \/ fin'[b] \in {"resize", "promote"}
                          => Claimed = All
    BY <1>2 DEF GatherInv
  <2> QED
    BY <1>1, <2>1, <2>2 DEF GatherInv
<1> QED
  BY <1>1, <1>6, <1>7, <1>8, <1>9

\* A crash may tear the chunk that is being written: nobody claims that one.
LEMMA ResumeCrash ==
    ASSUME TypeOK, TargetInv, ResumeInv, Crash
    PROVE  ResumeInv' /\ UNCHANGED state
<1> USE DEF ResumeInv
<1>1. /\ UNCHANGED <<state, man>> /\ Size' = Size /\ All' = All /\ Claimed' = Claimed
      /\ \A u \in Worker : wpc'[u] = "off"
      /\ \A b \in Slot : pc'[b] = "idle" /\ fin'[b] = "none"
  BY DEF Crash, Size, All, Claimed
<1>2. /\ state # Absent => state.size = Size /\ state.received \subseteq All
      /\ part = Absent => Claimed = {} \/ Claimed = All
      /\ ResumeSafe
  BY DEF ClaimsInv
<1>3. ResumeSafe' /\ (part' = Absent => part = Absent)
  <2>1. CASE UNCHANGED part
    BY <1>1, <1>2, <2>1 DEF ResumeSafe
  <2>2. ASSUME NEW w \in Worker, wpc[w] = "create",
               part' \in {Empty, WriteAt(Empty, job[w].index, Cut(w))}
        PROVE  ResumeSafe' /\ (part' = Absent => part = Absent)
    <3>1. part = Absent /\ Claimed = {}
      BY <2>2 DEF ClaimsInv
    <3> QED
      BY <1>1, <3>1 DEF ResumeSafe, Claimed
  <2>3. ASSUME NEW w \in Worker, wpc[w] = "update", part # Absent,
               part' = WriteAt(part, job[w].index, Cut(w))
        PROVE  ResumeSafe' /\ (part' = Absent => part = Absent)
    <3>1. job[w].index \notin Claimed
      BY <2>3 DEF JobsInv, ClaimsInv, Unwritten
    <3>2. part \in File /\ part' \in File
      BY <2>3, WriteAtType DEF TypeOK, Cell, Cut
    <3>3. ASSUME state # Absent, NEW i \in state.received PROVE part'[i] \in Version
      <4>1. i \in Chunk /\ i # job[w].index /\ part[i] \in Version
        BY <1>2, <2>3, <3>1, <3>3 DEF ResumeSafe, Claimed, All
      <4>2. part[i] # Eof
        BY <4>1, SentinelAssumption
      <4> QED
        BY <2>3, <3>1, <4>1, <4>2 DEF WriteAt
    <3> QED
      BY <1>1, <3>2, <3>3, SentinelAssumption DEF ResumeSafe
  <2> QED
    BY <2>1, <2>2, <2>3 DEF Crash
<1>4. (JobsInv /\ LockInv /\ ClaimsInv)'
  BY <1>1, <1>2, <1>3 DEF JobsInv, LockInv, ClaimsInv, Holds, Unwritten, Critical
<1>5. GatherInv'
  BY <1>1 DEF GatherInv
<1> QED
  BY <1>1, <1>4, <1>5

\* Edits and new manifests touch nothing of the receiver's.
LEMMA ResumePublisher ==
    ASSUME TypeOK, ResumeInv, EditsKeepSize, ChangeFile \/ Republish
    PROVE  ResumeInv' /\ UNCHANGED state
<1>1. UNCHANGED <<part, tmp, state, pc, call, fin, wpc, job>>
  BY DEF ChangeFile, Republish, disk
<1>2. Size' = Size
  BY DEF ChangeFile, Republish, Size, EditsKeepSize, TypeOK
<1>3. All' = All /\ Claimed' = Claimed
  BY <1>1, <1>2 DEF All, Claimed
<1> QED
  BY <1>1, <1>2, <1>3 DEF ResumeInv, JobsInv, LockInv, ClaimsInv, GatherInv, Holds,
     Unwritten, Critical, ResumeSafe, WorkersOf

LEMMA ResumeInit == Init => ResumeInv
BY DEF Init, ResumeInv, JobsInv, LockInv, ClaimsInv, GatherInv, Holds, Unwritten, Critical,
   ResumeSafe, Claimed

LEMMA ResumeNext ==
    ASSUME TypeOK, TargetInv, ResumeInv, EditsKeepSize, ~ Overlap, [Next]_vars
    PROVE  ResumeInv' /\ (state' # Absent => Claimed \subseteq Claimed')
<1>1. CASE UNCHANGED vars
  BY <1>1 DEF vars, disk, net, ResumeInv, JobsInv, LockInv, ClaimsInv, GatherInv, Holds,
     Unwritten, Critical, ResumeSafe, WorkersOf, Size, All, Claimed
<1>2. ASSUME NEW w \in Worker, WorkerStep(w) PROVE ResumeInv' /\ Claimed \subseteq Claimed'
  <2>1. CASE ReplaceState(w)
    BY <2>1, ResumeReplace
  <2>2. CASE ~ ReplaceState(w)
    <3>1. UNCHANGED state
      BY <1>2, <2>2 DEF WorkerStep, Take, FetchChunk, FetchFails, Lock, OpenPart, WriteChunk,
         ThreadRaises, SaveState, disk
    <3> QED
      BY <1>2, <2>2, <3>1, ResumeTake, ResumeFetch, ResumeWrite, ResumeSave
      DEF WorkerStep, Claimed
  <2> QED
    BY <2>1, <2>2
<1>3. ASSUME UNCHANGED state PROVE Claimed \subseteq Claimed'
  BY <1>3 DEF Claimed
<1>4. ASSUME NEW a \in Slot, DownloadFile(a) \/ Cancel(a)
      PROVE  ResumeInv' /\ Claimed \subseteq Claimed'
  BY <1>3, <1>4, ResumeDownloadFile, ResumeCancel
<1>5. CASE Crash \/ ChangeFile \/ Republish
  BY <1>3, <1>5, ResumeCrash, ResumePublisher
<1> QED
  BY <1>1, <1>2, <1>4, <1>5, ResumeCallStep DEF Next

LEMMA ResumeInvariant == ~ Overlap /\ EditsKeepSize => (Spec => []ResumeInv)
<1> SUFFICES ASSUME ~ Overlap, EditsKeepSize PROVE Spec => []ResumeInv
  OBVIOUS
<1>1. TypeOK /\ TargetInv /\ ResumeInv /\ [Next]_vars => ResumeInv'
  BY ResumeNext
<1> QED
  BY <1>1, ResumeInit, TypeCorrect, TargetInvariant, PTL DEF Spec

\* At every moment, so also after a crash at that moment, a chunk the state file
\* claims is in the part file, complete.
THEOREM ResumeIsSafe ==
    ASSUME ~ Overlap, EditsKeepSize
    PROVE  Spec => []ResumeSafe
<1>1. ResumeInv => ResumeSafe
  BY DEF ResumeInv, ClaimsInv
<1> QED
  BY <1>1, ResumeInvariant, PTL

\* No step takes a chunk out of the state file, before a download is complete.
THEOREM ProgressIsKept ==
    ASSUME ~ Overlap, EditsKeepSize
    PROVE  Spec => KeepsProgress
<1>1. TypeOK /\ TargetInv /\ ResumeInv /\ [Next]_vars =>
        [state # Absent /\ state' # Absent /\ state'.size = state.size
           => state.received \subseteq state'.received]_vars
  BY ResumeNext DEF Claimed
<1> QED
  BY <1>1, ResumeInvariant, TypeCorrect, TargetInvariant, PTL DEF Spec, KeepsProgress
=============================================================================
