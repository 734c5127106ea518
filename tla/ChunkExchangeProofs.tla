-------------------------- MODULE ChunkExchangeProofs --------------------------
(***************************************************************************)
(* ChunkExchange implements ChunkFetch, for any number of workers, chunks, *)
(* contents, retries and events: what a call returns is the item it asked  *)
(* for, of a content the file had while it asked.  Then how many requests  *)
(* there can be, which bounds the ids and the types.                       *)
(***************************************************************************)
EXTENDS ChunkExchange, FiniteSetTheorems, TLAPS

Active(c) == call[c].st \in {"send", "wait"}

Waiting(c, i) == call[c].st = "wait" /\ call[c].item = i

-----------------------------------------------------------------------------
(* The inductive invariant. *)

CallT  == [st : {"idle", "send", "wait", "ended"}, item : Item \cup {Nothing},
           attempt : Nat, id : Nat, future : {"pending", "error", "result"},
           answer : {Nothing} \cup Answer]
TaskT  == [id : Nat, item : Item, st : {"asked", "hash", "send"},
           version : Version \cup {Nothing}]
FrameT == [id : Nat, item : Chunk, version : Version]
ReplyT == [what : {"done", "error"}, id : Nat \cup {Nothing}, version : Version \cup {Nothing}]

\* Types, without the bounds that follow from the number of retries.
Types ==
    /\ file \in Version
    /\ cache \in Version \cup {Nothing}
    /\ queue \subseteq Item
    /\ call \in [Caller -> CallT]
    /\ seen \in [Caller -> SUBSET Version]
    /\ rid \in Nat
    /\ tasks \subseteq TaskT
    /\ ctrl \in Seq(ReplyT)
    /\ data \in Seq(FrameT)

\* A call in progress is about something, and may return the content of now.
Asked ==
    /\ \A c \in Caller : Active(c) => call[c].item \in Item /\ file \in seen[c]
    /\ \A c \in Caller : call[c].st = "send" => call[c].future = "pending"
    /\ \A t \in tasks : /\ t.st = "send" => t.version \in Version
                        /\ t.st = "hash" => t.item = Digest

\* Ids in use were given out.
Ids ==
    /\ \A t \in tasks : t.item \in Chunk => t.id < rid
    /\ \A n \in 1 .. Len(data) : data[n].id < rid

\* What bears the id of a call that waits is about the chunk it waits for, and was
\* read since the call began.
Chunks ==
    \A c \in Caller, i \in Chunk : Waiting(c, i) =>
        /\ call[c].id < rid
        /\ \A t \in tasks : t.item \in Chunk /\ t.id = call[c].id =>
             t.item = i /\ t.version \in seen[c] \cup {Nothing}
        /\ \A n \in 1 .. Len(data) : data[n].id = call[c].id =>
             data[n].item = i /\ data[n].version \in seen[c]

\* The digest is asked for by one call, and everything that was hashed was hashed
\* since it began: that is why a digest may go by path.
Digests ==
    /\ Digest \in queue =>
         /\ cache = Nothing
         /\ \A t \in tasks : t.item # Digest
         /\ \A n \in 1 .. Len(ctrl) : ctrl[n].what = "error"
         /\ \A c \in Caller : Active(c) => call[c].item # Digest
    /\ \A c \in Caller : Active(c) /\ call[c].item = Digest =>
         /\ cache \in seen[c] \cup {Nothing}
         /\ \A t \in tasks : t.item = Digest => t.version \in seen[c] \cup {Nothing}
         /\ \A n \in 1 .. Len(ctrl) : ctrl[n].what = "done" => ctrl[n].version \in seen[c]

\* A future that is done holds what the call asked for.
Results ==
    \A c \in Caller : call[c].st = "wait" /\ call[c].future = "result" =>
        \E v \in seen[c] : call[c].answer = [item |-> call[c].item, version |-> v]

ExchangeInv == Types /\ Asked /\ Ids /\ Chunks /\ Digests /\ Results

-----------------------------------------------------------------------------
LEMMA ExchangeStart == Init => ExchangeInv
BY ExchangeAssumption
   DEF Init, Idle, ExchangeInv, Types, CallT, TaskT, FrameT, ReplyT, Asked, Active, Ids,
       Chunks, Waiting, Digests, Results

\* Steps of one call that touch neither the server nor the wires: the call begins
\* afresh, goes on to its next attempt, or ends.
LEMMA CallerSteps ==
    ASSUME ExchangeInv, NEW c \in Caller, NEW r \in CallT, NEW s \in SUBSET Version,
           call' = [call EXCEPT ![c] = r], seen' = [seen EXCEPT ![c] = s],
           UNCHANGED <<file, rid, server, wires>>, r.st = "send" => r.future = "pending",
           \/ r.st \notin {"send", "wait"} /\ queue' = queue
           \/ r.st = "send" /\ r.item = call[c].item /\ s = seen[c] /\ Active(c) /\ queue' = queue
           \/ r.st = "send" /\ r.item \in queue /\ file \in s /\ queue' = queue \ {r.item}
    PROVE  ExchangeInv'
<1>1. Types'
  BY DEF ExchangeInv, Types, server, wires
<1>2. Asked'
  BY DEF ExchangeInv, Types, Asked, Active, server, CallT
<1>3. Ids'
  BY DEF ExchangeInv, Ids, server, wires
<1>4. Chunks'
  BY DEF ExchangeInv, Types, Chunks, Waiting, server, wires
<1>5. Digests'
  BY DEF ExchangeInv, Types, Digests, Active, server, wires
<1>6. Results'
  BY DEF ExchangeInv, Types, Results
<1> QED
  BY <1>1, <1>2, <1>3, <1>4, <1>5, <1>6 DEF ExchangeInv

LEMMA BeginStep ==
    ASSUME ExchangeInv, NEW c \in Caller, NEW i \in Item, Begin(c, i) PROVE ExchangeInv'
<1> DEFINE r == [Idle EXCEPT !.st = "send", !.item = i]
<1>1. r \in CallT /\ r.st = "send" /\ r.item = i /\ r.future = "pending"
  BY DEF Idle, CallT
<1>2. file \in Version
  BY DEF ExchangeInv, Types
<1>3. /\ call' = [call EXCEPT ![c] = r] /\ seen' = [seen EXCEPT ![c] = {file}]
      /\ i \in queue /\ queue' = queue \ {i}
      /\ UNCHANGED <<file, rid, server, wires>>
  BY DEF Begin, server, wires
<1> HIDE DEF r
<1> QED
  BY <1>1, <1>2, <1>3, CallerSteps

LEMMA RequestRaisesStep ==
    ASSUME ExchangeInv, NEW c \in Caller, RequestRaises(c) PROVE ExchangeInv'
<1> DEFINE r == [Idle EXCEPT !.st = "ended"]
<1>1. r \in CallT /\ r.st = "ended"
  BY DEF Idle, CallT
<1>2. /\ call' = [call EXCEPT ![c] = r] /\ seen' = [seen EXCEPT ![c] = {}]
      /\ queue' = queue /\ UNCHANGED <<file, rid, server, wires>>
  BY DEF RequestRaises, server, wires
<1> HIDE DEF r
<1> QED
  BY <1>1, <1>2, CallerSteps

LEMMA ReturnStep ==
    ASSUME ExchangeInv, NEW c \in Caller, Return(c) PROVE ExchangeInv'
<1>1. Idle \in CallT /\ Idle.st = "idle"
  BY DEF Idle, CallT
<1>2. /\ call' = [call EXCEPT ![c] = Idle] /\ seen' = [seen EXCEPT ![c] = {}]
      /\ queue' = queue /\ UNCHANGED <<file, rid, server, wires>>
  BY DEF Return, server, wires
<1> QED
  BY <1>1, <1>2, CallerSteps

LEMMA AgainStep ==
    ASSUME ExchangeInv, NEW c \in Caller, Again(c), call[c].st = "wait" PROVE ExchangeInv'
<1>0. UNCHANGED <<queue, file, rid, server, wires>>
  BY DEF Again, server, wires
<1>1. CASE MayRetry(c)
  <2> DEFINE r == [Idle EXCEPT !.st = "send", !.item = call[c].item,
                               !.attempt = call[c].attempt + 1]
  <2>1. r \in CallT /\ r.st = "send" /\ r.item = call[c].item /\ r.future = "pending"
    <3>1. call[c].item \in Item \cup {Nothing} /\ call[c].attempt + 1 \in Nat
      BY DEF CallT, ExchangeInv, Types
    <3> QED
      BY <3>1 DEF Idle, CallT
  <2>2. /\ call' = [call EXCEPT ![c] = r] /\ seen' = [seen EXCEPT ![c] = seen[c]]
    BY <1>1 DEF Again
  <2>3. seen[c] \in SUBSET Version
    BY DEF ExchangeInv, Types
  <2> HIDE DEF r
  <2> QED
    BY <1>0, <2>1, <2>2, <2>3, CallerSteps DEF Active
<1>2. CASE ~ MayRetry(c)
  <2> DEFINE r == [Idle EXCEPT !.st = "ended"]
  <2>1. r \in CallT /\ r.st = "ended"
    BY DEF Idle, CallT
  <2>2. /\ call' = [call EXCEPT ![c] = r] /\ seen' = [seen EXCEPT ![c] = {}]
    BY <1>2 DEF Again
  <2> HIDE DEF r
  <2> QED
    BY <1>0, <2>1, <2>2, CallerSteps
<1> QED
  BY <1>1, <1>2

LEMMA CancelStep ==
    ASSUME ExchangeInv, Cancel PROVE ExchangeInv'
<1>1. \A c \in Caller : call'[c].st = "ended"
  BY DEF Cancel, Idle
<1>2. Types'
  BY DEF Cancel, Idle, ExchangeInv, Types, CallT, server, wires
<1> QED
  BY <1>1, <1>2 DEF Cancel, ExchangeInv, Asked, Active, Ids, Chunks, Waiting, Digests, Results,
                    server, wires

\* The id of a request is new, so nothing about another chunk bears it.
LEMMA RequestStep ==
    ASSUME ExchangeInv, NEW c \in Caller, Request(c) PROVE ExchangeInv'
<1> DEFINE item == call[c].item
           r == [call[c] EXCEPT !.st = "wait", !.id = rid]
           t == [id |-> IF item = Digest THEN call[c].attempt ELSE rid, item |-> item,
                 st |-> "asked", version |-> Nothing]
<1>0. /\ call' = [call EXCEPT ![c] = r]
      /\ rid' = IF item = Digest THEN rid ELSE rid + 1
      /\ tasks' = tasks \cup {t}
      /\ UNCHANGED <<file, cache, queue, seen, ctrl, data>>
  BY DEF Request, FreshId, wires
<1>1. item \in Item /\ Active(c)
  BY DEF ExchangeInv, Asked, Active, Request
<1>2. /\ r \in CallT /\ r.st = "wait" /\ r.item = item /\ r.id = rid
      /\ r.future = call[c].future /\ r.answer = call[c].answer
  BY DEF ExchangeInv, Types, CallT
<1>3. t \in TaskT /\ t.item = item /\ t.version = Nothing /\ t.st = "asked"
      /\ (item \in Chunk => t.id = rid)
  BY <1>1, ExchangeAssumption DEF ExchangeInv, Types, CallT, TaskT, Chunk
<1>4. call[c].st = "send"
  BY DEF Request
<1> HIDE DEF r, t
<1>5. Types'
  BY <1>0, <1>2, <1>3 DEF ExchangeInv, Types
<1>6. Asked'
  BY <1>0, <1>1, <1>2, <1>3 DEF ExchangeInv, Types, Asked, Active
<1>7. Ids'
  <2>1. rid' \in Nat /\ rid' >= rid
    BY <1>0, <1>5 DEF ExchangeInv, Types
  <2>2. t.item \in Chunk => t.id < rid'
    BY <1>0, <1>3, ExchangeAssumption DEF ExchangeInv, Types
  <2>3. /\ \A u \in tasks : u.item \in Chunk => u.id < rid'
        /\ \A n \in 1 .. Len(data) : data[n].id < rid'
    <3>1. /\ \A u \in tasks : u.id \in Nat /\ (u.item \in Chunk => u.id < rid)
          /\ \A n \in 1 .. Len(data) : data[n].id \in Nat /\ data[n].id < rid
      <4>1. ASSUME NEW u \in tasks PROVE u.id \in Nat /\ (u.item \in Chunk => u.id < rid)
        BY DEF ExchangeInv, Types, Ids, TaskT
      <4>2. ASSUME NEW n \in 1 .. Len(data) PROVE data[n].id \in Nat /\ data[n].id < rid
        <5>1. data[n] \in FrameT
          BY DEF ExchangeInv, Types
        <5> QED
          BY <5>1 DEF ExchangeInv, Ids, FrameT
      <4> QED
        BY <4>1, <4>2
    <3>2. rid \in Nat
      BY DEF ExchangeInv, Types
    <3> QED
      BY <2>1, <3>1, <3>2
  <2> QED
    BY <1>0, <2>2, <2>3 DEF Ids
<1>8. Chunks'
  <2> SUFFICES ASSUME NEW d \in Caller, NEW i \in Chunk, Waiting(d, i)'
               PROVE  /\ call'[d].id < rid'
                      /\ \A u \in tasks' : u.item \in Chunk /\ u.id = call'[d].id =>
                           u.item = i /\ u.version \in seen'[d] \cup {Nothing}
                      /\ \A n \in 1 .. Len(data') : data'[n].id = call'[d].id =>
                           data'[n].item = i /\ data'[n].version \in seen'[d]
    BY DEF Chunks
  <2>1. CASE d = c
    <3>1. call'[d] = r /\ item = i /\ rid' = rid + 1 /\ rid \in Nat
      BY <1>0, <1>2, <2>1, ExchangeAssumption DEF ExchangeInv, Types, Waiting, Chunk
    <3>2. \A u \in tasks : u.item \in Chunk => u.id # rid
      BY <3>1 DEF ExchangeInv, Ids, Types, TaskT
    <3>3. \A n \in 1 .. Len(data) : data[n].id # rid
      BY <3>1 DEF ExchangeInv, Ids, Types, FrameT
    <3> QED
      BY <1>0, <1>2, <1>3, <3>1, <3>2, <3>3
  <2>2. CASE d # c
    <3>1. call'[d] = call[d] /\ Waiting(d, i) /\ call[d].id \in Nat
      BY <1>0, <2>2 DEF ExchangeInv, Types, Waiting, CallT
    <3>2. call[d].id < rid /\ rid \in Nat
      BY <3>1 DEF ExchangeInv, Chunks, Types
    <3>3. t.item \in Chunk => t.id # call[d].id
      BY <1>3, <3>1, <3>2
    <3> QED
      BY <1>0, <3>1, <3>2, <3>3 DEF ExchangeInv, Chunks
  <2> QED
    BY <2>1, <2>2
<1>9. Digests'
  <2>1. \A d \in Caller : Active(d)' => Active(d) /\ call'[d].item = call[d].item
    BY <1>0, <1>1, <1>2 DEF ExchangeInv, Types, Active
  <2> QED
    BY <1>0, <1>1, <1>3, <2>1 DEF ExchangeInv, Digests, Active
<1>10. Results'
  <2>1. call'[c].future = "pending"
    BY <1>0, <1>2, <1>4 DEF ExchangeInv, Types, Asked
  <2> QED
    BY <1>0, <2>1 DEF ExchangeInv, Types, Results
<1> QED
  BY <1>5, <1>6, <1>7, <1>8, <1>9, <1>10 DEF ExchangeInv

-----------------------------------------------------------------------------
\* Messages leave the wires, and futures may be done.
LEMMA WireSteps ==
    ASSUME ExchangeInv, call' \in [Caller -> CallT],
           \A c \in Caller : /\ call'[c].st = call[c].st /\ call'[c].item = call[c].item
                             /\ call'[c].id = call[c].id
                             /\ call'[c].st = "send" => call'[c].future = "pending",
           Results',
           UNCHANGED <<file, queue, seen, rid, server>>,
           ctrl' \in Seq(ReplyT), data' \in Seq(FrameT),
           \A n \in 1 .. Len(ctrl') : \E k \in 1 .. Len(ctrl) : ctrl'[n] = ctrl[k],
           \A n \in 1 .. Len(data') : \E k \in 1 .. Len(data) : data'[n] = data[k]
    PROVE  ExchangeInv'
<1>1. Types'
  BY DEF ExchangeInv, Types, server
<1>2. Asked'
  BY DEF ExchangeInv, Asked, Active, server
<1>3. Ids'
  BY DEF ExchangeInv, Ids, server
<1>4. Chunks'
  <2>1. ASSUME NEW c \in Caller, NEW i \in Chunk, Waiting(c, i)
        PROVE  \A n \in 1 .. Len(data') : data'[n].id = call[c].id =>
                 data'[n].item = i /\ data'[n].version \in seen[c]
    <3>1. \A k \in 1 .. Len(data) : data[k].id = call[c].id =>
            data[k].item = i /\ data[k].version \in seen[c]
      BY <2>1 DEF ExchangeInv, Chunks
    <3> QED
      BY <3>1
  <2>2. \A c \in Caller, i \in Chunk : Waiting(c, i)' => Waiting(c, i) /\ call'[c].id = call[c].id
    BY DEF Waiting
  <2> QED
    BY <2>1, <2>2 DEF ExchangeInv, Chunks, server
<1>5. Digests'
  <2>1. \A c \in Caller : Active(c)' => Active(c) /\ call'[c].item = call[c].item
    BY DEF Active
  <2>2. ASSUME Digest \in queue PROVE \A n \in 1 .. Len(ctrl') : ctrl'[n].what = "error"
    BY <2>2 DEF ExchangeInv, Digests
  <2>3. ASSUME NEW c \in Caller, Active(c), call[c].item = Digest
        PROVE  \A n \in 1 .. Len(ctrl') : ctrl'[n].what = "done" => ctrl'[n].version \in seen[c]
    BY <2>3 DEF ExchangeInv, Digests
  <2> QED
    BY <2>1, <2>2, <2>3 DEF ExchangeInv, Digests, server
<1> QED
  BY <1>1, <1>2, <1>3, <1>4, <1>5 DEF ExchangeInv

\* What Resolve sets is what the future's call asked for.
LEMMA ResolveSteps ==
    ASSUME ExchangeInv, NEW waiting \in SUBSET Caller, NEW future \in {"error", "result"},
           NEW answer \in {Nothing} \cup Answer, Resolve(waiting, future, answer),
           \A c \in waiting : call[c].st = "wait",
           future = "result" =>
             \A c \in waiting : \E v \in seen[c] : answer = [item |-> call[c].item, version |-> v],
           seen' = seen
    PROVE  /\ call' \in [Caller -> CallT]
           /\ \A c \in Caller : /\ call'[c].st = call[c].st /\ call'[c].item = call[c].item
                                /\ call'[c].id = call[c].id
                                /\ call'[c].st = "send" => call'[c].future = "pending"
           /\ Results'
<1> DEFINE r(c) == IF c \in waiting /\ call[c].future = "pending"
                   THEN [call[c] EXCEPT !.future = future, !.answer = answer] ELSE call[c]
<1>1. call' = [c \in Caller |-> r(c)]
  BY DEF Resolve
<1>2. ASSUME NEW c \in Caller
      PROVE  /\ r(c) \in CallT
             /\ r(c).st = call[c].st /\ r(c).item = call[c].item /\ r(c).id = call[c].id
             /\ \/ r(c).future = call[c].future /\ r(c).answer = call[c].answer
                \/ c \in waiting /\ r(c).future = future /\ r(c).answer = answer
  BY DEF ExchangeInv, Types, CallT
<1> HIDE DEF r
<1>3. \A c \in Caller : call'[c].st = "send" => call'[c].future = "pending"
  BY <1>1, <1>2 DEF ExchangeInv, Asked
<1>4. Results'
  <2> SUFFICES ASSUME NEW c \in Caller, call'[c].st = "wait", call'[c].future = "result"
               PROVE  \E v \in seen[c] : call'[c].answer = [item |-> call'[c].item, version |-> v]
    BY DEF Results
  <2>1. call'[c] = r(c)
    BY <1>1
  <2>2. CASE r(c).future = call[c].future /\ r(c).answer = call[c].answer
    BY <1>2, <2>1, <2>2 DEF ExchangeInv, Results
  <2>3. CASE c \in waiting /\ r(c).future = future /\ r(c).answer = answer
    BY <1>2, <2>1, <2>3
  <2> QED
    BY <1>2, <2>2, <2>3
<1> QED
  BY <1>1, <1>2, <1>3, <1>4

LEMMA TailEntries ==
    ASSUME NEW S, NEW q \in Seq(S), q # <<>>
    PROVE  /\ Tail(q) \in Seq(S) /\ Head(q) \in S /\ Len(q) >= 1 /\ Head(q) = q[1]
           /\ \A n \in 1 .. Len(Tail(q)) : \E k \in 1 .. Len(q) : Tail(q)[n] = q[k]
<1>1. \A n \in 1 .. Len(Tail(q)) : n + 1 \in 1 .. Len(q) /\ Tail(q)[n] = q[n + 1]
  OBVIOUS
<1> QED
  BY <1>1

LEMMA OnDataStep ==
    ASSUME ExchangeInv, OnData PROVE ExchangeInv'
<1> DEFINE f == Head(data)  waiting == Awaiting(f.id)
<1>1. /\ data # <<>> /\ data' = Tail(data) /\ ctrl' = ctrl
      /\ UNCHANGED <<file, queue, seen, rid, server>>
  BY DEF OnData
<1>2. ctrl \in Seq(ReplyT) /\ data \in Seq(FrameT)
  BY DEF ExchangeInv, Types
<1>3. /\ data' \in Seq(FrameT) /\ f \in FrameT /\ 1 \in 1 .. Len(data) /\ f = data[1]
      /\ \A n \in 1 .. Len(data') : \E k \in 1 .. Len(data) : data'[n] = data[k]
  BY <1>1, <1>2, TailEntries
<1>4. /\ waiting \in SUBSET Caller
      /\ \A c \in waiting : call[c].st = "wait" /\ call[c].item \in Chunk /\ call[c].id = f.id
  BY DEF Awaiting
<1>5. \A c \in waiting : f.item = call[c].item /\ f.version \in seen[c]
  BY <1>3, <1>4 DEF ExchangeInv, Chunks, Waiting
<1> HIDE DEF waiting, f
<1>6. CASE Resolve(waiting, "result", [item |-> f.item, version |-> f.version])
  <2>1. [item |-> f.item, version |-> f.version] \in Answer
    BY <1>3 DEF FrameT, Answer, Item
  <2> QED
    BY <1>1, <1>2, <1>3, <1>4, <1>5, <1>6, <2>1, ResolveSteps, WireSteps
<1>7. CASE Resolve(waiting, "error", Nothing)
  BY <1>1, <1>2, <1>3, <1>4, <1>7, ResolveSteps, WireSteps
<1>8. CASE UNCHANGED call
  <2>1. call' \in [Caller -> CallT] /\ Results'
    BY <1>1, <1>8 DEF ExchangeInv, Types, Results
  <2>2. \A c \in Caller : call'[c].st = "send" => call'[c].future = "pending"
    BY <1>8 DEF ExchangeInv, Asked
  <2> QED
    BY <1>1, <1>2, <1>3, <1>8, <2>1, <2>2, WireSteps
<1> QED
  BY <1>6, <1>7, <1>8 DEF OnData, f, waiting

LEMMA OnCtrlStep ==
    ASSUME ExchangeInv, OnCtrl PROVE ExchangeInv'
<1> DEFINE m == Head(ctrl)
<1>1. /\ ctrl # <<>> /\ ctrl' = Tail(ctrl) /\ data' = data
      /\ UNCHANGED <<file, queue, seen, rid, server>>
  BY DEF OnCtrl
<1>2. ctrl \in Seq(ReplyT) /\ data \in Seq(FrameT)
  BY DEF ExchangeInv, Types
<1>3. /\ ctrl' \in Seq(ReplyT) /\ m \in ReplyT /\ 1 \in 1 .. Len(ctrl) /\ m = ctrl[1]
      /\ \A n \in 1 .. Len(ctrl') : \E k \in 1 .. Len(ctrl) : ctrl'[n] = ctrl[k]
  BY <1>1, <1>2, TailEntries
<1> HIDE DEF m
<1>4. CASE m.what = "done" /\ Resolve(AwaitingDigest, "result", [item |-> Digest, version |-> m.version])
  <2>1. /\ AwaitingDigest \in SUBSET Caller
        /\ \A c \in AwaitingDigest : call[c].st = "wait" /\ call[c].item = Digest
    BY DEF AwaitingDigest
  <2>2. \A c \in AwaitingDigest : m.version \in seen[c]
    BY <1>3, <1>4, <2>1 DEF ExchangeInv, Digests, Active
  <2>3. CASE AwaitingDigest = {}
    <3>1. call' = call
      BY <1>4, <2>3 DEF Resolve, ExchangeInv, Types
    <3>2. call' \in [Caller -> CallT] /\ Results'
      BY <1>1, <3>1 DEF ExchangeInv, Types, Results
    <3>3. \A c \in Caller : call'[c].st = "send" => call'[c].future = "pending"
      BY <3>1 DEF ExchangeInv, Asked
    <3> QED
      BY <1>1, <1>2, <1>3, <3>1, <3>2, <3>3, WireSteps
  <2>4. CASE AwaitingDigest # {}
    <3>1. m.version \in Version
      BY <2>1, <2>2, <2>4 DEF ExchangeInv, Types
    <3>2. [item |-> Digest, version |-> m.version] \in Answer
      BY <3>1 DEF Answer, Item
    <3> QED
      BY <1>1, <1>2, <1>3, <1>4, <2>1, <2>2, <3>2, ResolveSteps, WireSteps
  <2> QED
    BY <2>3, <2>4
<1>5. CASE m.what = "error" /\ Resolve(Awaiting(m.id), "error", Nothing)
  <2>1. /\ Awaiting(m.id) \in SUBSET Caller
        /\ \A c \in Awaiting(m.id) : call[c].st = "wait"
    BY DEF Awaiting
  <2> QED
    BY <1>1, <1>2, <1>3, <1>5, <2>1, ResolveSteps, WireSteps
<1> QED
  BY <1>4, <1>5 DEF OnCtrl, m

-----------------------------------------------------------------------------
\* A task of the server goes on: it may have read the file, or the cached digest.
LEMMA TaskSteps ==
    ASSUME ExchangeInv, NEW t \in tasks, NEW u \in TaskT, tasks' = (tasks \ {t}) \cup {u},
           u.id = t.id, u.item = t.item,
           u.st = "send" => u.version \in Version, u.st = "hash" => u.item = Digest,
           \/ u.version \in {Nothing, file}
           \/ u.item = Digest /\ u.version = cache,
           cache' = cache \/ (u.item = Digest /\ cache' = file),
           UNCHANGED <<file, queue, call, seen, rid, ctrl, data>>
    PROVE  ExchangeInv'
<1>0. Digest \notin Chunk
  BY ExchangeAssumption
<1>1. Types'
  BY DEF ExchangeInv, Types
<1>2. Asked'
  BY DEF ExchangeInv, Asked, Active
<1>3. Ids'
  BY DEF ExchangeInv, Ids
<1>4. Chunks'
  <2> SUFFICES ASSUME NEW c \in Caller, NEW i \in Chunk, Waiting(c, i),
                      NEW w \in tasks', w.item \in Chunk, w.id = call[c].id
               PROVE  w.item = i /\ w.version \in seen[c] \cup {Nothing}
    BY DEF ExchangeInv, Chunks, Waiting
  <2>1. file \in seen[c]
    BY DEF ExchangeInv, Asked, Active, Waiting
  <2>2. CASE w \in tasks
    BY <2>2 DEF ExchangeInv, Chunks
  <2>3. CASE w = u
    BY <1>0, <2>1, <2>3 DEF ExchangeInv, Chunks
  <2> QED
    BY <2>2, <2>3
<1>5. Digests'
  <2>1. \A c \in Caller : Active(c)' => Active(c) /\ file \in seen[c]
    BY DEF ExchangeInv, Asked, Active
  <2> QED
    BY <2>1 DEF ExchangeInv, Digests, Active
<1>6. Results'
  BY DEF ExchangeInv, Results
<1> QED
  BY <1>1, <1>2, <1>3, <1>4, <1>5, <1>6 DEF ExchangeInv

\* Tasks end; what they put on the wires is what they had read.
LEMMA LeavingSteps ==
    ASSUME ExchangeInv, tasks' \subseteq tasks,
           ctrl' \in Seq(ReplyT), data' \in Seq(FrameT),
           \A n \in 1 .. Len(ctrl') :
             \/ \E k \in 1 .. Len(ctrl) : ctrl'[n] = ctrl[k]
             \/ ctrl'[n].what = "error"
             \/ \E t \in tasks : /\ t.item = Digest /\ t.version \in Version
                                 /\ ctrl'[n].version = t.version,
           \A n \in 1 .. Len(data') :
             \/ \E k \in 1 .. Len(data) : data'[n] = data[k]
             \/ \E t \in tasks : /\ t.item \in Chunk /\ t.version \in Version
                                 /\ data'[n] = [id |-> t.id, item |-> t.item,
                                                version |-> t.version],
           UNCHANGED <<file, cache, queue, call, seen, rid>>
    PROVE  ExchangeInv'
<1>0. Nothing \notin Version
  BY ExchangeAssumption
<1>1. Types'
  BY DEF ExchangeInv, Types
<1>2. Asked'
  BY DEF ExchangeInv, Asked, Active
<1>3. Ids'
  <2>1. ASSUME NEW n \in 1 .. Len(data') PROVE data'[n].id < rid
    <3>1. CASE \E k \in 1 .. Len(data) : data'[n] = data[k]
      BY <3>1 DEF ExchangeInv, Ids
    <3>2. CASE \E t \in tasks : /\ t.item \in Chunk /\ t.version \in Version
                                /\ data'[n] = [id |-> t.id, item |-> t.item,
                                               version |-> t.version]
      BY <3>2 DEF ExchangeInv, Ids
    <3> QED
      BY <3>1, <3>2
  <2> QED
    BY <2>1 DEF ExchangeInv, Ids
<1>4. Chunks'
  <2> SUFFICES ASSUME NEW c \in Caller, NEW i \in Chunk, Waiting(c, i),
                      NEW n \in 1 .. Len(data'), data'[n].id = call[c].id
               PROVE  data'[n].item = i /\ data'[n].version \in seen[c]
    BY DEF ExchangeInv, Chunks, Waiting
  <2>1. CASE \E k \in 1 .. Len(data) : data'[n] = data[k]
    BY <2>1 DEF ExchangeInv, Chunks
  <2>2. CASE ~ \E k \in 1 .. Len(data) : data'[n] = data[k]
    <3>1. PICK t \in tasks : /\ t.item \in Chunk /\ t.version \in Version
                             /\ data'[n] = [id |-> t.id, item |-> t.item, version |-> t.version]
      BY <2>2
    <3> QED
      BY <1>0, <3>1 DEF ExchangeInv, Chunks
  <2> QED
    BY <2>1, <2>2
<1>5. Digests'
  <2>1. ASSUME Digest \in queue, NEW n \in 1 .. Len(ctrl') PROVE ctrl'[n].what = "error"
    BY <2>1 DEF ExchangeInv, Digests
  <2>2. ASSUME NEW c \in Caller, Active(c), call[c].item = Digest,
               NEW n \in 1 .. Len(ctrl'), ctrl'[n].what = "done"
        PROVE  ctrl'[n].version \in seen[c]
    <3>1. CASE \E k \in 1 .. Len(ctrl) : ctrl'[n] = ctrl[k]
      BY <2>2, <3>1 DEF ExchangeInv, Digests
    <3>2. CASE \E t \in tasks : /\ t.item = Digest /\ t.version \in Version
                                /\ ctrl'[n].version = t.version
      BY <1>0, <2>2, <3>2 DEF ExchangeInv, Digests
    <3> QED
      BY <2>2, <3>1, <3>2
  <2>3. \A c \in Caller : Active(c)' <=> Active(c)
    BY DEF Active
  <2> QED
    BY <2>1, <2>2, <2>3 DEF ExchangeInv, Digests
<1>6. Results'
  BY DEF ExchangeInv, Results
<1> QED
  BY <1>1, <1>2, <1>3, <1>4, <1>5, <1>6 DEF ExchangeInv

LEMMA AppendEntries ==
    ASSUME NEW S, NEW q \in Seq(S), NEW e \in S
    PROVE  /\ Append(q, e) \in Seq(S)
           /\ \A n \in 1 .. Len(Append(q, e)) :
                (\E k \in 1 .. Len(q) : Append(q, e)[n] = q[k]) \/ Append(q, e)[n] = e
OBVIOUS

LEMMA ServeStep ==
    ASSUME ExchangeInv, NEW t \in tasks, Serve(t) PROVE ExchangeInv'
<1>1. /\ t \in TaskT /\ t.item \in Item /\ file \in Version /\ cache \in Version \cup {Nothing}
      /\ (t.st = "send" => t.version \in Version) /\ (t.st = "hash" => t.item = Digest)
      /\ ctrl \in Seq(ReplyT) /\ data \in Seq(FrameT) /\ t.id \in Nat
  <2>1. t \in TaskT /\ file \in Version /\ cache \in Version \cup {Nothing}
        /\ ctrl \in Seq(ReplyT) /\ data \in Seq(FrameT)
    BY DEF ExchangeInv, Types
  <2>2. (t.st = "send" => t.version \in Version) /\ (t.st = "hash" => t.item = Digest)
    BY DEF ExchangeInv, Asked
  <2> QED
    BY <2>1, <2>2 DEF TaskT
<1>2. ASSUME NEW st \in {"hash", "send"}, NEW v \in Version \cup {Nothing}
      PROVE  LET u == [t EXCEPT !.st = st, !.version = v] IN
             u \in TaskT /\ u.id = t.id /\ u.item = t.item /\ u.st = st /\ u.version = v
  BY <1>1 DEF TaskT
<1>3. CASE ReadChunk(t)
  <2> DEFINE u == [t EXCEPT !.st = "send", !.version = file]
  <2>1. u \in TaskT /\ u.id = t.id /\ u.item = t.item /\ u.st = "send" /\ u.version = file
    BY <1>1, <1>2
  <2>2. /\ tasks' = (tasks \ {t}) \cup {u} /\ cache' = cache
        /\ UNCHANGED <<file, queue, call, seen, rid, ctrl, data>>
    BY <1>3 DEF ReadChunk, Becomes, wires
  <2> HIDE DEF u
  <2> QED
    BY <1>1, <2>1, <2>2, TaskSteps
<1>4. CASE LookUpDigest(t) /\ cache # Nothing
  <2> DEFINE u == [t EXCEPT !.st = "send", !.version = cache]
  <2>1. u \in TaskT /\ u.id = t.id /\ u.item = t.item /\ u.st = "send" /\ u.version = cache
    BY <1>1, <1>2
  <2>2. /\ tasks' = (tasks \ {t}) \cup {u} /\ t.item = Digest /\ cache' = cache
        /\ UNCHANGED <<file, queue, call, seen, rid, ctrl, data>>
    BY <1>4 DEF LookUpDigest, Becomes, wires
  <2> HIDE DEF u
  <2> QED
    BY <1>1, <1>4, <2>1, <2>2, TaskSteps
<1>5. CASE LookUpDigest(t) /\ cache = Nothing
  <2> DEFINE u == [t EXCEPT !.st = "hash", !.version = Nothing]
  <2>1. u \in TaskT /\ u.id = t.id /\ u.item = t.item /\ u.st = "hash" /\ u.version = Nothing
    BY <1>1, <1>2
  <2>2. /\ tasks' = (tasks \ {t}) \cup {u} /\ t.item = Digest /\ cache' = cache
        /\ UNCHANGED <<file, queue, call, seen, rid, ctrl, data>>
    BY <1>5 DEF LookUpDigest, Becomes, wires
  <2> HIDE DEF u
  <2> QED
    BY <1>1, <2>1, <2>2, TaskSteps
<1>6. CASE HashFile(t)
  <2> DEFINE u == [t EXCEPT !.st = "send", !.version = file]
  <2>1. u \in TaskT /\ u.id = t.id /\ u.item = t.item /\ u.st = "send" /\ u.version = file
    BY <1>1, <1>2
  <2>2. /\ tasks' = (tasks \ {t}) \cup {u} /\ t.st = "hash" /\ cache' = file
        /\ UNCHANGED <<file, queue, call, seen, rid, ctrl, data>>
    BY <1>6 DEF HashFile, Becomes, wires
  <2> HIDE DEF u
  <2> QED
    BY <1>1, <2>1, <2>2, TaskSteps
<1>7. CASE Refuse(t)
  <2> DEFINE m == [what |-> "error", version |-> Nothing,
                   id |-> IF t.item = Digest THEN Nothing ELSE t.id]
  <2>1. m \in ReplyT /\ m.what = "error"
    BY <1>1 DEF ReplyT
  <2>2. ctrl' = Append(ctrl, m) /\ tasks' \subseteq tasks /\ data' = data
        /\ UNCHANGED <<file, cache, queue, call, seen, rid>>
    BY <1>7 DEF Refuse
  <2> HIDE DEF m
  <2> QED
    BY <1>1, <2>1, <2>2, AppendEntries, LeavingSteps
<1>8. CASE SendFrame(t)
  <2> DEFINE f == [id |-> t.id, item |-> t.item, version |-> t.version]
  <2>1. f \in FrameT /\ t.item \in Chunk /\ t.version \in Version
    BY <1>1, <1>8 DEF FrameT, SendFrame
  <2>2. data' = Append(data, f) /\ tasks' \subseteq tasks /\ ctrl' = ctrl
        /\ UNCHANGED <<file, cache, queue, call, seen, rid>>
    BY <1>8 DEF SendFrame
  <2>3. \A n \in 1 .. Len(data') :
          \/ \E k \in 1 .. Len(data) : data'[n] = data[k]
          \/ \E w \in tasks : /\ w.item \in Chunk /\ w.version \in Version
                              /\ data'[n] = [id |-> w.id, item |-> w.item, version |-> w.version]
    BY <1>1, <2>1, <2>2, AppendEntries
  <2> HIDE DEF f
  <2> QED
    BY <1>1, <2>1, <2>2, <2>3, AppendEntries, LeavingSteps
<1>9. CASE SendDigest(t)
  <2> DEFINE m == [what |-> "done", id |-> Nothing, version |-> t.version]
  <2>1. m \in ReplyT /\ m.version = t.version /\ t.item = Digest /\ t.version \in Version
    BY <1>1, <1>9 DEF ReplyT, SendDigest
  <2>2. ctrl' = Append(ctrl, m) /\ tasks' \subseteq tasks /\ data' = data
        /\ UNCHANGED <<file, cache, queue, call, seen, rid>>
    BY <1>9 DEF SendDigest
  <2> HIDE DEF m
  <2> QED
    BY <1>1, <2>1, <2>2, AppendEntries, LeavingSteps
<1> QED
  BY <1>3, <1>4, <1>5, <1>6, <1>7, <1>8, <1>9 DEF Serve

LEMMA LoseStep ==
    ASSUME ExchangeInv, Lose PROVE ExchangeInv'
<1>1. /\ ctrl' = <<>> /\ data' = <<>> /\ tasks' \subseteq tasks
      /\ UNCHANGED <<file, cache, queue, call, seen, rid>>
  BY DEF Lose
<1>2. ctrl' \in Seq(ReplyT) /\ data' \in Seq(FrameT) /\ Len(ctrl') = 0 /\ Len(data') = 0
  BY <1>1
<1> QED
  BY <1>1, <1>2, LeavingSteps

\* What was read remains among the contents the file has had.
LEMMA EditStep ==
    ASSUME ExchangeInv, NEW v \in Version, Edit(v) PROVE ExchangeInv'
<1>1. /\ file' = v
      /\ UNCHANGED <<queue, call, rid, cache, tasks, ctrl, data>>
  BY DEF Edit, server, wires
<1>2. seen' \in [Caller -> SUBSET Version] /\ \A c \in Caller : seen[c] \subseteq seen'[c]
  BY DEF Edit, ExchangeInv, Types
<1>3. \A c \in Caller : Active(c) => v \in seen'[c]
  BY DEF Edit, Active
<1>4. Types'
  BY <1>1, <1>2 DEF ExchangeInv, Types
<1>5. Asked'
  BY <1>1, <1>3 DEF ExchangeInv, Asked, Active
<1>6. Ids'
  BY <1>1 DEF ExchangeInv, Ids
<1>7. Chunks'
  BY <1>1, <1>2 DEF ExchangeInv, Chunks, Waiting
<1>8. Digests'
  BY <1>1, <1>2 DEF ExchangeInv, Digests, Active
<1>9. Results'
  BY <1>1, <1>2 DEF ExchangeInv, Results
<1> QED
  BY <1>4, <1>5, <1>6, <1>7, <1>8, <1>9 DEF ExchangeInv

LEMMA ExchangeNext ==
    ExchangeInv /\ [Next]_vars => ExchangeInv'
<1> SUFFICES ASSUME ExchangeInv, [Next]_vars PROVE ExchangeInv'
  OBVIOUS
<1>1. ASSUME NEW c \in Caller, Client(c) PROVE ExchangeInv'
  <2>1. CASE \E i \in Item : Begin(c, i)
    BY <2>1, BeginStep
  <2>2. CASE Request(c)
    BY <2>2, RequestStep
  <2>3. CASE RequestRaises(c)
    BY <2>3, RequestRaisesStep
  <2>4. CASE Return(c)
    BY <2>4, ReturnStep
  <2>5. CASE Raise(c) \/ TimeOut(c)
    BY <2>5, AgainStep DEF Raise, TimeOut, Expires
  <2> QED
    BY <1>1, <2>1, <2>2, <2>3, <2>4, <2>5 DEF Client
<1>2. CASE UNCHANGED vars
  BY <1>2 DEF vars, server, wires, ExchangeInv, Types, Asked, Active, Ids, Chunks, Waiting,
              Digests, Results
<1> QED
  BY <1>1, <1>2, ServeStep, OnDataStep, OnCtrlStep, CancelStep, LoseStep, EditStep DEF Next

-----------------------------------------------------------------------------
(* The refinement. *)

asking == [c \in Caller |-> IF Active(c) THEN call[c].item ELSE Nothing]

\* What ChunkFetch is about stays as it is.
LEMMA FetchStutters ==
    ASSUME UNCHANGED <<file, seen, got>>,
           \A c \in Caller : /\ Active(c)' <=> Active(c)
                             /\ Active(c) => call'[c].item = call[c].item
    PROVE  UNCHANGED Fetch!vars
BY DEF Fetch!vars, Active

\* A call that is over without a result.
LEMMA FetchFails ==
    ASSUME ExchangeInv, NEW c \in Caller, NEW r, r.st = "ended",
           call' = [call EXCEPT ![c] = r], seen' = [seen EXCEPT ![c] = {}],
           UNCHANGED <<file, got>>
    PROVE  Fetch!Next
<1>1. /\ asking' = [d \in Caller |-> IF d \in {c} THEN Nothing ELSE asking[d]]
      /\ seen' = [d \in Caller |-> IF d \in {c} THEN {} ELSE seen[d]]
  BY DEF ExchangeInv, Types, asking, Active
<1>2. Fetch!Fail({c})
  BY <1>1 DEF Fetch!Fail, asking, Active
<1> QED
  BY <1>2 DEF Fetch!Next

\* Every step is one of ChunkFetch, or changes nothing it is about.
LEMMA FetchStep ==
    ASSUME ExchangeInv, [Next]_vars PROVE [Fetch!Next]_(Fetch!vars)
<1>0. /\ call \in [Caller -> CallT] /\ seen \in [Caller -> SUBSET Version] /\ file \in Version
      /\ Nothing \notin Item
  BY ExchangeAssumption DEF ExchangeInv, Types
<1>1. ASSUME NEW c \in Caller, NEW i \in Item, Begin(c, i) PROVE Fetch!Next
  <2>1. asking[c] = Nothing /\ asking' = [asking EXCEPT ![c] = i]
    BY <1>0, <1>1 DEF Begin, Idle, asking, Active
  <2>2. Fetch!Ask(c, i)
    BY <1>1, <2>1 DEF Fetch!Ask, Begin, asking, Active
  <2> QED
    BY <2>2 DEF Fetch!Next
<1>2. ASSUME NEW c \in Caller, Request(c) PROVE UNCHANGED Fetch!vars
  <2>1. /\ UNCHANGED <<file, seen, got>> /\ call[c].st = "send"
        /\ call' = [call EXCEPT ![c] = [@ EXCEPT !.st = "wait", !.id = FreshId]]
    BY <1>2 DEF Request
  <2>2. call'[c].st = "wait" /\ call'[c].item = call[c].item
    BY <1>0, <2>1 DEF CallT
  <2> QED
    BY <1>0, <2>1, <2>2, FetchStutters DEF Active
<1>3. ASSUME NEW c \in Caller, RequestRaises(c) PROVE Fetch!Next
  <2> DEFINE r == [Idle EXCEPT !.st = "ended"]
  <2>1. r.st = "ended" /\ call' = [call EXCEPT ![c] = r] /\ seen' = [seen EXCEPT ![c] = {}]
        /\ UNCHANGED <<file, got>>
    BY <1>3 DEF RequestRaises, Idle
  <2> HIDE DEF r
  <2> QED
    BY <2>1, FetchFails
<1>4. ASSUME NEW c \in Caller, Return(c) PROVE Fetch!Next
  <2>1. PICK v \in seen[c] : call[c].answer = [item |-> call[c].item, version |-> v]
    BY <1>4 DEF Return, ExchangeInv, Results
  <2>2. Active(c) /\ call[c].item \in Item
    BY <1>4 DEF Return, Active, ExchangeInv, Asked
  <2>3. /\ asking[c] = call[c].item /\ asking[c] # Nothing
        /\ asking' = [asking EXCEPT ![c] = Nothing]
    BY <1>0, <1>4, <2>2 DEF Return, Idle, asking, Active
  <2>4. v \in Version
    BY <1>0
  <2>5. Fetch!Return(c, v)
    BY <1>4, <2>1, <2>3 DEF Fetch!Return, Return, asking, Active
  <2> QED
    BY <2>4, <2>5 DEF Fetch!Next
<1>5. ASSUME NEW c \in Caller, Again(c), call[c].st = "wait"
      PROVE  Fetch!Next \/ UNCHANGED Fetch!vars
  <2>1. CASE MayRetry(c)
    <3>1. call' = [call EXCEPT ![c] = [Idle EXCEPT !.st = "send", !.item = call[c].item,
                                                   !.attempt = call[c].attempt + 1]]
      BY <1>5, <2>1 DEF Again
    <3>2. call'[c].st = "send" /\ call'[c].item = call[c].item
      BY <1>0, <3>1 DEF Idle
    <3>3. UNCHANGED <<file, got>> /\ seen' = [seen EXCEPT ![c] = @]
      BY <1>5, <2>1 DEF Again
    <3> QED
      BY <1>0, <1>5, <3>1, <3>2, <3>3, FetchStutters DEF Active
  <2>2. CASE ~ MayRetry(c)
    <3> DEFINE r == [Idle EXCEPT !.st = "ended"]
    <3>1. r.st = "ended" /\ call' = [call EXCEPT ![c] = r] /\ seen' = [seen EXCEPT ![c] = {}]
          /\ UNCHANGED <<file, got>>
      BY <1>5, <2>2 DEF Again, Idle
    <3> HIDE DEF r
    <3> QED
      BY <3>1, FetchFails
  <2> QED
    BY <2>1, <2>2
<1>6. ASSUME NEW t \in tasks, Serve(t) PROVE UNCHANGED Fetch!vars
  <2>1. UNCHANGED <<file, seen, got, call>>
    BY <1>6 DEF Serve, ReadChunk, LookUpDigest, HashFile, Refuse, SendFrame, SendDigest, wires
  <2> QED
    BY <2>1, FetchStutters DEF Active
<1>7. ASSUME UNCHANGED <<file, seen, got>>,
             \/ call' = call
             \/ \E waiting, future, answer : Resolve(waiting, future, answer)
      PROVE  UNCHANGED Fetch!vars
  <2>1. \A c \in Caller : call'[c].st = call[c].st /\ call'[c].item = call[c].item
    BY <1>0, <1>7 DEF Resolve, CallT
  <2> QED
    BY <1>7, <2>1, FetchStutters DEF Active
<1>8. ASSUME OnData \/ OnCtrl PROVE UNCHANGED Fetch!vars
  <2>1. UNCHANGED <<file, seen, got>>
    BY <1>8 DEF OnData, OnCtrl
  <2>2. call' = call \/ \E waiting, future, answer : Resolve(waiting, future, answer)
    BY <1>8 DEF OnData, OnCtrl
  <2> QED
    BY <1>7, <2>1, <2>2
<1>9. ASSUME Cancel PROVE Fetch!Next
  <2>1. /\ asking' = [c \in Caller |-> IF c \in Caller THEN Nothing ELSE asking[c]]
        /\ seen' = [c \in Caller |-> IF c \in Caller THEN {} ELSE seen[c]]
        /\ UNCHANGED <<file, got>>
    BY <1>9 DEF Cancel, Idle, asking, Active
  <2>2. Fetch!Fail(Caller)
    BY <2>1 DEF Fetch!Fail, asking, Active
  <2> QED
    BY <2>2 DEF Fetch!Next
<1>10. ASSUME NEW v \in Version, Edit(v) PROVE Fetch!Next
  <2>1. \A c \in Caller : Active(c) <=> asking[c] # Nothing
    BY <1>0 DEF asking, ExchangeInv, Asked
  <2>2. asking' = asking
    BY <1>10 DEF Edit, asking, Active
  <2>3. seen' = [c \in Caller |-> IF asking[c] = Nothing THEN seen[c] ELSE seen[c] \cup {v}]
    BY <1>10, <2>1 DEF Edit, Active
  <2>4. Fetch!Edit(v)
    BY <1>10, <2>2, <2>3 DEF Edit, Fetch!Edit, asking, Active
  <2> QED
    BY <2>4 DEF Fetch!Next
<1>11. ASSUME Lose \/ UNCHANGED vars PROVE UNCHANGED Fetch!vars
  <2>1. UNCHANGED <<file, seen, got, call>>
    BY <1>11 DEF Lose, vars
  <2> QED
    BY <2>1, FetchStutters DEF Active
<1>12. ASSUME NEW c \in Caller, Client(c) PROVE Fetch!Next \/ UNCHANGED Fetch!vars
  BY <1>1, <1>2, <1>3, <1>4, <1>5, <1>12 DEF Client, Raise, TimeOut, Expires
<1> QED
  BY <1>6, <1>8, <1>9, <1>10, <1>11, <1>12 DEF Next

\* Whatever answers are late, lost or given twice, whenever the file is edited, and
\* however the server's tasks are ordered, _request_chunk_retry and
\* _request_verify_retry return what they were asked for, of a content the file had
\* in the meantime, or raise.
THEOREM ImplementsFetch == Spec => FetchSpec
<1>1. Init => Fetch!Init
  BY DEF Init, Fetch!Init, Idle
<1>2. ExchangeInv /\ [Next]_vars => [Fetch!Next]_(Fetch!vars)
  BY FetchStep
<1> QED
  BY <1>1, <1>2, ExchangeStart, ExchangeNext, PTL DEF Spec, FetchSpec, Fetch!Spec

-----------------------------------------------------------------------------
(* How many requests a download makes: one per chunk and attempt. *)

\* The requests that may still be made: all attempts at a chunk nobody has taken, and
\* those that remain to the call about it.
ToCome(c, p) ==
    /\ call[c].item = p[1]
    /\ \/ call[c].st = "send" /\ call[c].attempt <= p[2]
       \/ call[c].st = "wait" /\ call[c].attempt < p[2]

Remaining ==
    {p \in Chunk \X (0 .. MaxRetries) : p[1] \in queue \/ \E c \in Caller : ToCome(c, p)}

Budget ==
    /\ rid + Cardinality(Remaining) <= N * (MaxRetries + 1)
    /\ \A c \in Caller : call[c].attempt <= MaxRetries /\ call[c].id <= rid
    /\ \A c \in Caller : Active(c) => call[c].item \notin queue
    /\ \A c, d \in Caller : Active(c) /\ Active(d) /\ call[c].item = call[d].item => c = d
    /\ \A t \in tasks : t.item \notin Chunk => t.id <= MaxRetries
    /\ \A n \in 1 .. Len(ctrl) : ctrl[n].id # Nothing => ctrl[n].id <= rid
    /\ got \in [Caller -> {Nothing} \cup Answer]
    /\ open \in BOOLEAN
    /\ left \in 0 .. MaxEvents

BudgetInv == ExchangeInv /\ Budget

LEMMA RequestsPossible ==
    /\ IsFiniteSet(Chunk \X (0 .. MaxRetries))
    /\ Cardinality(Chunk \X (0 .. MaxRetries)) = N * (MaxRetries + 1)
    /\ N * (MaxRetries + 1) \in Nat
<1>1. N \in Nat /\ MaxRetries \in Nat
  BY ExchangeAssumption
<1>2. IsFiniteSet(Chunk) /\ Cardinality(Chunk) = N
  <2>1. 0 \in Int /\ N - 1 \in Int /\ (IF 0 > N - 1 THEN 0 ELSE N - 1 - 0 + 1) = N
    BY <1>1
  <2> QED
    BY <2>1, FS_Interval DEF Chunk
<1>3. IsFiniteSet(0 .. MaxRetries) /\ Cardinality(0 .. MaxRetries) = MaxRetries + 1
  <2>1. (IF 0 > MaxRetries THEN 0 ELSE MaxRetries - 0 + 1) = MaxRetries + 1
    BY <1>1
  <2> QED
    BY <1>1, <2>1, FS_Interval
<1>4. /\ IsFiniteSet(Chunk \X (0 .. MaxRetries))
      /\ Cardinality(Chunk \X (0 .. MaxRetries)) = N * (MaxRetries + 1)
  BY <1>2, <1>3, FS_Product
<1> QED
  BY <1>4, FS_CardinalityType

LEMMA RemainingFinite ==
    IsFiniteSet(Remaining) /\ Cardinality(Remaining) \in Nat
<1>1. Remaining \subseteq Chunk \X (0 .. MaxRetries)
  BY DEF Remaining
<1> QED
  BY <1>1, RequestsPossible, FS_Subset, FS_CardinalityType

LEMMA BudgetStart == Init => Budget
<1> SUFFICES ASSUME Init PROVE Budget
  OBVIOUS
<1>1. rid + Cardinality(Remaining) <= N * (MaxRetries + 1)
  <2>1. Remaining \subseteq Chunk \X (0 .. MaxRetries)
    BY DEF Remaining
  <2>2. Cardinality(Remaining) <= N * (MaxRetries + 1)
    BY <2>1, RequestsPossible, FS_Subset
  <2>3. rid + Cardinality(Remaining) = Cardinality(Remaining)
    BY RemainingFinite DEF Init
  <2> QED
    BY <2>2, <2>3
<1>2. \A c \in Caller : call[c].attempt <= MaxRetries /\ call[c].id <= rid
  BY ExchangeAssumption DEF Init, Idle
<1>3. \A c \in Caller : ~ Active(c)
  BY DEF Init, Idle, Active
<1>4. /\ \A t \in tasks : t.item \notin Chunk => t.id <= MaxRetries
      /\ \A n \in 1 .. Len(ctrl) : ctrl[n].id # Nothing => ctrl[n].id <= rid
  BY DEF Init
<1>5. got \in [Caller -> {Nothing} \cup Answer] /\ open \in BOOLEAN /\ left \in 0 .. MaxEvents
  BY ExchangeAssumption DEF Init
<1> QED
  BY <1>1, <1>2, <1>3, <1>4, <1>5 DEF Budget

\* As long as no id is given out, fewer requests remain, never more.
LEMMA NoRequest ==
    ASSUME Budget, rid \in Nat, rid' = rid, Remaining' \subseteq Remaining
    PROVE  rid' + Cardinality(Remaining') <= N * (MaxRetries + 1)
<1>1. /\ Cardinality(Remaining) \in Nat /\ Cardinality(Remaining') \in Nat
      /\ Cardinality(Remaining') <= Cardinality(Remaining)
  BY RemainingFinite, FS_Subset, FS_CardinalityType
<1>2. rid + Cardinality(Remaining) <= N * (MaxRetries + 1) /\ N * (MaxRetries + 1) \in Nat
  BY RequestsPossible DEF Budget
<1> QED
  BY <1>1, <1>2

LEMMA Spending ==
    ASSUME Budget, UNCHANGED left \/ Spend PROVE left' \in 0 .. MaxEvents
BY ExchangeAssumption DEF Budget, Spend

\* Steps that leave the calls at the attempt they are at.
LEMMA SameCalls ==
    ASSUME BudgetInv, UNCHANGED <<queue, rid>>, UNCHANGED left \/ Spend, open' \in BOOLEAN,
           \A c \in Caller : /\ call'[c].st = call[c].st /\ call'[c].item = call[c].item
                             /\ call'[c].attempt = call[c].attempt /\ call'[c].id = call[c].id,
           UNCHANGED got,
           \A t \in tasks' : t.item \notin Chunk => t.id <= MaxRetries,
           \A n \in 1 .. Len(ctrl') : ctrl'[n].id # Nothing => ctrl'[n].id <= rid
    PROVE  Budget'
<1>1. rid \in Nat
  BY DEF BudgetInv, ExchangeInv, Types
<1>2. Remaining' \subseteq Remaining
  BY DEF Remaining, ToCome
<1>3. rid' + Cardinality(Remaining') <= N * (MaxRetries + 1)
  BY <1>1, <1>2, NoRequest DEF BudgetInv
<1>4. left' \in 0 .. MaxEvents
  BY Spending DEF BudgetInv
<1>5. \A c \in Caller : Active(c)' <=> Active(c)
  BY DEF Active
<1>6. got' \in [Caller -> {Nothing} \cup Answer]
  BY DEF BudgetInv, Budget
<1>7. \A c \in Caller : call'[c].attempt <= MaxRetries /\ call'[c].id <= rid'
  BY DEF BudgetInv, Budget
<1>8. /\ \A c \in Caller : Active(c)' => call'[c].item \notin queue'
      /\ \A c, d \in Caller : Active(c)' /\ Active(d)' /\ call'[c].item = call'[d].item => c = d
  BY <1>5 DEF BudgetInv, Budget
<1> QED
  BY <1>3, <1>4, <1>6, <1>7, <1>8 DEF Budget

\* Steps of one call: it begins, has another attempt, or is over.
LEMMA OneCall ==
    ASSUME BudgetInv, NEW c \in Caller, NEW r \in CallT, call' = [call EXCEPT ![c] = r],
           UNCHANGED <<rid, left, server, wires>>, r.id = 0, r.attempt <= MaxRetries,
           got' \in [Caller -> {Nothing} \cup Answer],
           \/ r.st \notin {"send", "wait"} /\ queue' = queue
           \/ /\ r.st = "send" /\ call[c].st = "wait" /\ queue' = queue
              /\ r.item = call[c].item /\ r.attempt = call[c].attempt + 1
           \/ r.st = "send" /\ r.item \in queue /\ queue' = queue \ {r.item}
    PROVE  Budget'
<1>0. /\ rid \in Nat /\ call \in [Caller -> CallT]
      /\ call'[c] = r /\ \A d \in Caller \ {c} : call'[d] = call[d]
      /\ UNCHANGED <<open, tasks, ctrl>>
  BY DEF BudgetInv, ExchangeInv, Types, server, wires
<1>1. Remaining' \subseteq Remaining
  <2> SUFFICES ASSUME NEW p \in Chunk \X (0 .. MaxRetries),
                      p[1] \in queue' \/ \E d \in Caller : ToCome(d, p)'
               PROVE  p[1] \in queue \/ \E d \in Caller : ToCome(d, p)
    BY DEF Remaining
  <2>1. CASE p[1] \in queue'
    BY <2>1
  <2>2. ASSUME NEW d \in Caller, d # c, ToCome(d, p)' PROVE ToCome(d, p)
    BY <1>0, <2>2 DEF ToCome
  <2>3. ASSUME ToCome(c, p)' PROVE p[1] \in queue \/ ToCome(c, p)
    <3>1. r.item = p[1] /\ (r.st = "send" => r.attempt <= p[2])
          /\ r.st \in {"send", "wait"}
      BY <1>0, <2>3 DEF ToCome
    <3>2. CASE r.item \in queue
      BY <3>1, <3>2
    <3>3. CASE /\ r.st = "send" /\ call[c].st = "wait"
               /\ r.item = call[c].item /\ r.attempt = call[c].attempt + 1
      <4>1. call[c].attempt \in Nat /\ p[2] \in Nat
        BY <1>0, ExchangeAssumption DEF CallT
      <4>2. call[c].attempt + 1 <= p[2]
        BY <3>1, <3>3
      <4>3. call[c].attempt < p[2]
        BY <4>1, <4>2
      <4> QED
        BY <3>1, <3>3, <4>3 DEF ToCome
    <3> QED
      BY <3>1, <3>2, <3>3
  <2> QED
    BY <2>1, <2>2, <2>3
<1>2. rid' + Cardinality(Remaining') <= N * (MaxRetries + 1)
  BY <1>0, <1>1, NoRequest DEF BudgetInv
<1>3. \A d \in Caller : call'[d].attempt <= MaxRetries /\ call'[d].id <= rid'
  BY <1>0 DEF BudgetInv, Budget
<1>4. \A d \in Caller : Active(d)' => call'[d].item \notin queue'
  BY <1>0 DEF BudgetInv, Budget, Active
<1>5. ASSUME NEW d \in Caller, NEW e \in Caller, Active(d)', Active(e)',
             call'[d].item = call'[e].item
      PROVE  d = e
  BY <1>0, <1>5 DEF BudgetInv, Budget, Active
<1>6. left' \in 0 .. MaxEvents
  BY DEF BudgetInv, Budget
<1> QED
  BY <1>0, <1>2, <1>3, <1>4, <1>5, <1>6 DEF BudgetInv, Budget

LEMMA ClientBudget ==
    ASSUME BudgetInv, NEW c \in Caller,
           (\E i \in Item : Begin(c, i)) \/ RequestRaises(c) \/ Return(c)
             \/ (Again(c) /\ call[c].st = "wait")
    PROVE  Budget'
<1>0. /\ got \in [Caller -> {Nothing} \cup Answer] /\ call \in [Caller -> CallT]
      /\ call[c].attempt \in Nat /\ MaxRetries \in Nat
  BY ExchangeAssumption DEF BudgetInv, Budget, ExchangeInv, Types, CallT
<1>1. ASSUME NEW i \in Item, Begin(c, i) PROVE Budget'
  <2> DEFINE r == [Idle EXCEPT !.st = "send", !.item = i]
  <2>1. r \in CallT /\ r.st = "send" /\ r.item = i /\ r.id = 0 /\ r.attempt = 0
    BY DEF Idle, CallT
  <2>2. /\ call' = [call EXCEPT ![c] = r] /\ i \in queue /\ queue' = queue \ {i}
        /\ UNCHANGED <<rid, left, server, wires>>
        /\ got' = [got EXCEPT ![c] = Nothing]
    BY <1>1 DEF Begin, server, wires
  <2>3. got' \in [Caller -> {Nothing} \cup Answer]
    BY <1>0, <2>2
  <2>4. r.attempt <= MaxRetries
    BY <1>0, <2>1
  <2> HIDE DEF r
  <2> QED
    BY <2>1, <2>2, <2>3, <2>4, OneCall
<1>2. CASE RequestRaises(c)
  <2> DEFINE r == [Idle EXCEPT !.st = "ended"]
  <2>1. r \in CallT /\ r.st = "ended" /\ r.id = 0 /\ r.attempt <= MaxRetries
    BY <1>0 DEF Idle, CallT
  <2>2. /\ call' = [call EXCEPT ![c] = r] /\ queue' = queue /\ got' = got
        /\ UNCHANGED <<rid, left, server, wires>>
    BY <1>2 DEF RequestRaises, server, wires
  <2> HIDE DEF r
  <2> QED
    BY <1>0, <2>1, <2>2, OneCall
<1>3. CASE Return(c)
  <2>1. Idle \in CallT /\ Idle.st = "idle" /\ Idle.id = 0 /\ Idle.attempt <= MaxRetries
    BY <1>0 DEF Idle, CallT
  <2>2. /\ call' = [call EXCEPT ![c] = Idle] /\ queue' = queue
        /\ UNCHANGED <<rid, left, server, wires>>
        /\ got' = [got EXCEPT ![c] = call[c].answer]
    BY <1>3 DEF Return, server, wires
  <2>3. got' \in [Caller -> {Nothing} \cup Answer]
    BY <1>0, <2>2 DEF CallT
  <2> QED
    BY <2>1, <2>2, <2>3, OneCall
<1>4. CASE Again(c) /\ call[c].st = "wait"
  <2>0. UNCHANGED <<queue, rid, left, server, wires>> /\ got' = got
    BY <1>4 DEF Again, server, wires
  <2>1. CASE MayRetry(c)
    <3> DEFINE r == [Idle EXCEPT !.st = "send", !.item = call[c].item,
                                 !.attempt = call[c].attempt + 1]
    <3>1. r \in CallT /\ r.st = "send" /\ r.item = call[c].item /\ r.id = 0
          /\ r.attempt = call[c].attempt + 1
      <4>1. call[c].item \in Item \cup {Nothing} /\ call[c].attempt + 1 \in Nat
        BY <1>0 DEF CallT
      <4> QED
        BY <4>1 DEF Idle, CallT
    <3>2. r.attempt <= MaxRetries
      BY <1>0, <2>1, <3>1 DEF MayRetry
    <3>3. call' = [call EXCEPT ![c] = r]
      BY <1>4, <2>1 DEF Again
    <3> HIDE DEF r
    <3> QED
      BY <1>0, <1>4, <2>0, <3>1, <3>2, <3>3, OneCall
  <2>2. CASE ~ MayRetry(c)
    <3> DEFINE r == [Idle EXCEPT !.st = "ended"]
    <3>1. r \in CallT /\ r.st = "ended" /\ r.id = 0 /\ r.attempt <= MaxRetries
      BY <1>0 DEF Idle, CallT
    <3>2. call' = [call EXCEPT ![c] = r]
      BY <1>4, <2>2 DEF Again
    <3> HIDE DEF r
    <3> QED
      BY <1>0, <2>0, <3>1, <3>2, OneCall
  <2> QED
    BY <2>1, <2>2
<1> QED
  BY <1>1, <1>2, <1>3, <1>4

\* A request for a chunk uses up one of those that remain.
LEMMA RequestBudget ==
    ASSUME BudgetInv, NEW c \in Caller, Request(c) PROVE Budget'
<1> DEFINE item == call[c].item
           r == [call[c] EXCEPT !.st = "wait", !.id = rid]
           t == [id |-> IF item = Digest THEN call[c].attempt ELSE rid, item |-> item,
                 st |-> "asked", version |-> Nothing]
<1>0. /\ call' = [call EXCEPT ![c] = r] /\ call[c].st = "send"
      /\ rid' = IF item = Digest THEN rid ELSE rid + 1
      /\ tasks' = tasks \cup {t}
      /\ UNCHANGED <<queue, got, left, open, ctrl>>
  BY DEF Request, FreshId, wires
<1>1. /\ call \in [Caller -> CallT] /\ rid \in Nat /\ item \in Item
      /\ call[c].attempt \in Nat /\ MaxRetries \in Nat /\ call[c].attempt <= MaxRetries
  BY <1>0, ExchangeAssumption
     DEF BudgetInv, Budget, ExchangeInv, Types, Asked, Active, CallT
<1>2. /\ r.st = "wait" /\ r.item = item /\ r.id = rid /\ r.attempt = call[c].attempt
  BY <1>1 DEF CallT
<1>3. t.item = item /\ (item = Digest => t.id = call[c].attempt)
  OBVIOUS
<1> HIDE DEF r, t
<1>4. call'[c] = r /\ \A d \in Caller \ {c} : call'[d] = call[d]
  BY <1>0, <1>1
<1>5. \A d \in Caller : (Active(d)' <=> Active(d)) /\ call'[d].item = call[d].item
                        /\ call'[d].attempt = call[d].attempt
  BY <1>0, <1>2, <1>4 DEF Active
<1>6. Remaining' \subseteq Remaining
  <2> SUFFICES ASSUME NEW p \in Chunk \X (0 .. MaxRetries), NEW d \in Caller, ToCome(d, p)'
               PROVE  ToCome(d, p)
    BY <1>0 DEF Remaining
  <2>1. CASE d # c
    BY <1>4, <2>1 DEF ToCome
  <2>2. CASE d = c
    <3>1. call[c].attempt < p[2] /\ p[2] \in Nat /\ item = p[1]
      BY <1>1, <1>2, <1>4, <2>2 DEF ToCome
    <3>2. call[c].attempt <= p[2]
      BY <1>1, <3>1
    <3> QED
      BY <1>0, <2>2, <3>1, <3>2 DEF ToCome
  <2> QED
    BY <2>1, <2>2
<1>7. rid' + Cardinality(Remaining') <= N * (MaxRetries + 1)
  <2>1. CASE item = Digest
    BY <1>0, <1>1, <1>6, <2>1, NoRequest DEF BudgetInv
  <2>2. CASE item # Digest
    <3>1. PICK p \in Chunk \X (0 .. MaxRetries) : p[1] = item /\ p[2] = call[c].attempt
      <4>1. <<item, call[c].attempt>> \in Chunk \X (0 .. MaxRetries)
        BY <1>1, <2>2 DEF Item
      <4> QED
        BY <4>1
    <3>2. p \in Remaining
      <4>1. ToCome(c, p)
        <5>1. call[c].attempt <= call[c].attempt
          BY <1>1
        <5> QED
          BY <1>0, <3>1, <5>1 DEF ToCome
      <4> QED
        BY <3>1, <4>1 DEF Remaining
    <3>3. p \notin Remaining'
      <4>1. item \notin queue'
        BY <1>0 DEF BudgetInv, Budget, Active
      <4>2. ASSUME NEW d \in Caller, ToCome(d, p)' PROVE FALSE
        <5>1. d = c
          <6>1. call[d].item = item /\ Active(d) /\ Active(c)
            BY <1>0, <1>5, <3>1, <4>2 DEF ToCome, Active
          <6> QED
            BY <6>1 DEF BudgetInv, Budget
        <5>2. call[c].attempt < call[c].attempt
          BY <1>2, <1>4, <3>1, <4>2, <5>1 DEF ToCome
        <5> QED
          BY <1>1, <5>2
      <4> QED
        BY <3>1, <4>1, <4>2 DEF Remaining
    <3>4. /\ IsFiniteSet(Remaining \ {p})
          /\ Cardinality(Remaining \ {p}) = Cardinality(Remaining) - 1
      BY <3>2, RemainingFinite, FS_RemoveElement
    <3>5. Cardinality(Remaining') <= Cardinality(Remaining) - 1
          /\ Cardinality(Remaining') \in Nat
      <4>1. Remaining' \subseteq Remaining \ {p}
        BY <1>6, <3>3
      <4>2. Cardinality(Remaining') <= Cardinality(Remaining \ {p})
            /\ IsFiniteSet(Remaining')
        BY <3>4, <4>1, FS_Subset
      <4> QED
        BY <3>4, <4>2, FS_CardinalityType
    <3>6. rid + Cardinality(Remaining) <= N * (MaxRetries + 1) /\ N * (MaxRetries + 1) \in Nat
      BY RequestsPossible DEF BudgetInv, Budget
    <3>7. rid + 1 + Cardinality(Remaining') <= N * (MaxRetries + 1)
      BY <1>1, <3>5, <3>6, RemainingFinite
    <3> QED
      BY <1>0, <2>2, <3>7
  <2> QED
    BY <2>1, <2>2
<1>8. rid <= rid' /\ rid' \in Nat
  BY <1>0, <1>1
<1>9. ASSUME NEW d \in Caller PROVE call'[d].attempt <= MaxRetries /\ call'[d].id <= rid'
  <2>1. call[d].attempt <= MaxRetries /\ call[d].id <= rid /\ call[d].id \in Nat
    BY <1>1 DEF BudgetInv, Budget, CallT
  <2>2. call[d].id <= rid'
    BY <1>1, <1>8, <2>1
  <2> QED
    BY <1>1, <1>2, <1>4, <1>8, <2>1, <2>2
<1>10. /\ \A d \in Caller : Active(d)' => call'[d].item \notin queue'
       /\ \A d, e \in Caller : Active(d)' /\ Active(e)' /\ call'[d].item = call'[e].item => d = e
  BY <1>0, <1>5 DEF BudgetInv, Budget
<1>11. \A u \in tasks' : u.item \notin Chunk => u.id <= MaxRetries
  <2>1. item \notin Chunk => item = Digest
    BY <1>1 DEF Item
  <2> QED
    BY <1>0, <1>1, <1>3, <2>1 DEF BudgetInv, Budget
<1>12. ASSUME NEW n \in 1 .. Len(ctrl), ctrl[n].id # Nothing PROVE ctrl[n].id <= rid'
  <2>1. ctrl[n].id <= rid /\ ctrl[n].id \in Nat
    <3>1. ctrl[n] \in ReplyT
      BY DEF BudgetInv, ExchangeInv, Types
    <3> QED
      BY <1>12, <3>1 DEF BudgetInv, Budget, ReplyT
  <2> QED
    BY <1>1, <1>8, <2>1
<1> QED
  BY <1>0, <1>7, <1>9, <1>10, <1>11, <1>12 DEF BudgetInv, Budget

\* The server adds no ids, it passes on the one it was given.
LEMMA ServeBudget ==
    ASSUME BudgetInv, NEW t \in tasks, Serve(t) PROVE Budget'
<1>0. /\ UNCHANGED <<queue, call, got, rid, open>> /\ (UNCHANGED left \/ Spend)
      /\ open' \in BOOLEAN
      /\ rid \in Nat /\ ctrl \in Seq(ReplyT) /\ t \in TaskT
  BY DEF Serve, ReadChunk, LookUpDigest, HashFile, Refuse, SendFrame, SendDigest, wires,
         BudgetInv, Budget, ExchangeInv, Types
<1>1. \A u \in tasks' : u.item \notin Chunk => u.id <= MaxRetries
  <2>1. ASSUME NEW st, NEW v, Becomes(t, st, v)
        PROVE  \A u \in tasks' : u \in tasks \/ (u.item = t.item /\ u.id = t.id)
    <3> DEFINE w == [t EXCEPT !.st = st, !.version = v]
    <3>1. w.item = t.item /\ w.id = t.id
      BY <1>0 DEF TaskT
    <3>2. tasks' = (tasks \ {t}) \cup {w}
      BY <2>1 DEF Becomes
    <3> HIDE DEF w
    <3> QED
      BY <3>1, <3>2
  <2>2. \/ tasks' \subseteq tasks
        \/ Becomes(t, "send", file) \/ Becomes(t, "send", cache) \/ Becomes(t, "hash", Nothing)
    BY DEF Serve, ReadChunk, LookUpDigest, HashFile, Refuse, SendFrame, SendDigest
  <2>3. \A u \in tasks' : u \in tasks \/ (u.item = t.item /\ u.id = t.id)
    BY <2>1, <2>2
  <2> QED
    BY <2>3 DEF BudgetInv, Budget
<1>2. \A n \in 1 .. Len(ctrl') : ctrl'[n].id # Nothing => ctrl'[n].id <= rid
  <2>1. CASE ctrl' = ctrl
    BY <2>1 DEF BudgetInv, Budget
  <2>2. ASSUME NEW e \in ReplyT, ctrl' = Append(ctrl, e), e.id # Nothing => e.id <= rid
        PROVE  \A n \in 1 .. Len(ctrl') : ctrl'[n].id # Nothing => ctrl'[n].id <= rid
    BY <1>0, <2>2, AppendEntries DEF BudgetInv, Budget
  <2>3. CASE Refuse(t)
    <3> DEFINE e == [what |-> "error", version |-> Nothing,
                     id |-> IF t.item = Digest THEN Nothing ELSE t.id]
    <3>1. e \in ReplyT /\ e.id = IF t.item = Digest THEN Nothing ELSE t.id
      BY <1>0 DEF ReplyT, TaskT
    <3>2. t.item # Digest => t.id <= rid
      <4>1. t.item # Digest => t.id < rid
        BY <1>0 DEF BudgetInv, ExchangeInv, Ids, TaskT, Item
      <4> QED
        BY <1>0, <4>1 DEF TaskT
    <3>3. ctrl' = Append(ctrl, e)
      BY <2>3 DEF Refuse
    <3> HIDE DEF e
    <3> QED
      BY <2>2, <3>1, <3>2, <3>3
  <2>4. CASE SendDigest(t)
    <3> DEFINE e == [what |-> "done", id |-> Nothing, version |-> t.version]
    <3>1. e \in ReplyT /\ e.id = Nothing
      BY <1>0 DEF ReplyT, TaskT
    <3>2. ctrl' = Append(ctrl, e)
      BY <2>4 DEF SendDigest
    <3> HIDE DEF e
    <3> QED
      BY <2>2, <3>1, <3>2
  <2>5. Refuse(t) \/ SendDigest(t) \/ ctrl' = ctrl
    BY DEF Serve, ReadChunk, LookUpDigest, HashFile, SendFrame, wires
  <2> QED
    BY <2>1, <2>3, <2>4, <2>5
<1> QED
  BY <1>0, <1>1, <1>2, SameCalls

LEMMA BudgetNext ==
    BudgetInv /\ [Next]_vars => BudgetInv'
<1> SUFFICES ASSUME BudgetInv, [Next]_vars PROVE Budget'
  BY ExchangeNext DEF BudgetInv
<1>0. /\ \A t \in tasks : t.item \notin Chunk => t.id <= MaxRetries
      /\ \A n \in 1 .. Len(ctrl) : ctrl[n].id # Nothing => ctrl[n].id <= rid
      /\ open \in BOOLEAN /\ call \in [Caller -> CallT]
      /\ ctrl \in Seq(ReplyT)
  BY DEF BudgetInv, Budget, ExchangeInv, Types
<1>1. ASSUME NEW c \in Caller, Client(c) PROVE Budget'
  BY <1>1, ClientBudget, RequestBudget DEF Client, Raise, TimeOut, Expires
<1>2. ASSUME UNCHANGED <<queue, rid, got, tasks, open>>, UNCHANGED left \/ Spend,
             call' = call \/ \E waiting, future, answer : Resolve(waiting, future, answer),
             \A n \in 1 .. Len(ctrl') : \E k \in 1 .. Len(ctrl) : ctrl'[n] = ctrl[k]
      PROVE  Budget'
  <2>1. \A c \in Caller : /\ call'[c].st = call[c].st /\ call'[c].item = call[c].item
                          /\ call'[c].attempt = call[c].attempt /\ call'[c].id = call[c].id
    BY <1>0, <1>2 DEF Resolve, CallT
  <2> QED
    BY <1>0, <1>2, <2>1, SameCalls
<1>3. CASE OnData
  BY <1>2, <1>3 DEF OnData, server
<1>4. CASE OnCtrl
  <2>1. \A n \in 1 .. Len(ctrl') : \E k \in 1 .. Len(ctrl) : ctrl'[n] = ctrl[k]
    BY <1>0, <1>4, TailEntries DEF OnCtrl
  <2> QED
    BY <1>2, <1>4, <2>1 DEF OnCtrl, server
<1>5. CASE \E v \in Version : Edit(v)
  BY <1>2, <1>5 DEF Edit, server, wires
<1>6. CASE UNCHANGED vars
  BY <1>2, <1>6 DEF vars, server, wires
<1>7. CASE Lose
  <2>1. /\ tasks' = {} /\ Len(ctrl') = 0 /\ open' \in BOOLEAN
        /\ UNCHANGED <<queue, rid, got, call>> /\ Spend
    BY <1>7 DEF Lose
  <2> QED
    BY <2>1, SameCalls
<1>8. CASE Cancel
  <2>1. /\ call' = [c \in Caller |-> [Idle EXCEPT !.st = "ended"]]
        /\ UNCHANGED <<queue, rid, got, tasks, ctrl, open>> /\ Spend
    BY <1>8 DEF Cancel, server, wires
  <2>2. \A c \in Caller : call'[c].st = "ended" /\ call'[c].attempt = 0 /\ call'[c].id = 0
    BY <2>1 DEF Idle
  <2>3. Remaining' \subseteq Remaining
    BY <2>1, <2>2 DEF Remaining, ToCome
  <2>4. rid \in Nat /\ MaxRetries \in Nat
    BY ExchangeAssumption DEF BudgetInv, ExchangeInv, Types
  <2>5. rid' + Cardinality(Remaining') <= N * (MaxRetries + 1)
    BY <2>1, <2>3, <2>4, NoRequest DEF BudgetInv
  <2>6. left' \in 0 .. MaxEvents
    BY <2>1, Spending DEF BudgetInv
  <2>7. \A c \in Caller : call'[c].attempt <= MaxRetries /\ call'[c].id <= rid'
    BY <2>1, <2>2, <2>4
  <2> QED
    BY <2>1, <2>2, <2>5, <2>6, <2>7 DEF BudgetInv, Budget, Active
<1> QED
  BY <1>1, <1>3, <1>4, <1>5, <1>6, <1>7, <1>8, ServeBudget DEF Next

\* Types; the ids given out are at most one per chunk and attempt, and every call stays
\* within max_retries, whatever is late, refused or lost.
THEOREM ExchangeTypeCorrect == Spec => []TypeOK
<1>1. BudgetInv => TypeOK
  <2> SUFFICES ASSUME BudgetInv PROVE TypeOK
    OBVIOUS
  <2>1. rid \in Nat /\ rid <= N * (MaxRetries + 1) /\ N * (MaxRetries + 1) \in Nat
    <3>1. rid \in Nat /\ rid + Cardinality(Remaining) <= N * (MaxRetries + 1)
      BY DEF BudgetInv, Budget, ExchangeInv, Types
    <3> QED
      BY <3>1, RemainingFinite, RequestsPossible
  <2>2. \A n \in Nat : n <= rid => n \in RId
    BY <2>1 DEF RId
  <2>3. call \in [Caller -> Call]
    <3>1. call \in [Caller -> CallT]
      BY DEF BudgetInv, ExchangeInv, Types
    <3>2. ASSUME NEW c \in Caller PROVE call[c] \in Call
      <4>1. call[c] \in CallT /\ call[c].attempt <= MaxRetries /\ call[c].id <= rid
        BY <3>1 DEF BudgetInv, Budget
      <4>2. call[c].attempt \in 0 .. MaxRetries /\ call[c].id \in RId
        BY <2>2, <4>1, ExchangeAssumption DEF CallT
      <4> QED
        BY <4>1, <4>2 DEF CallT, Call
    <3> QED
      BY <3>1, <3>2
  <2>4. ASSUME NEW t \in tasks PROVE t \in Task
    <3>1. t \in TaskT /\ t.id \in Nat /\ t.item \in Item
      BY DEF BudgetInv, ExchangeInv, Types, TaskT
    <3>2. CASE t.item \in Chunk
      <4>1. t.id < rid
        BY <3>2 DEF BudgetInv, ExchangeInv, Ids
      <4>2. t.id <= rid
        BY <2>1, <3>1, <4>1
      <4> QED
        BY <2>2, <3>1, <4>2 DEF TaskT, Task
    <3>3. CASE t.item \notin Chunk
      <4>1. t.id <= MaxRetries
        BY <3>3 DEF BudgetInv, Budget
      <4>2. t.id \in 0 .. MaxRetries
        BY <3>1, <4>1, ExchangeAssumption
      <4> QED
        BY <3>1, <4>2 DEF TaskT, Task
    <3> QED
      BY <3>2, <3>3
  <2>5. ctrl \in Seq(Reply)
    <3>1. ctrl \in Seq(ReplyT)
      BY DEF BudgetInv, ExchangeInv, Types
    <3>2. ASSUME NEW n \in 1 .. Len(ctrl) PROVE ctrl[n] \in Reply
      <4>1. ctrl[n] \in ReplyT /\ (ctrl[n].id # Nothing => ctrl[n].id <= rid)
        BY <3>1 DEF BudgetInv, Budget
      <4>2. ctrl[n].id \in RId \cup {Nothing}
        BY <2>2, <4>1 DEF ReplyT
      <4> QED
        BY <4>1, <4>2 DEF ReplyT, Reply
    <3> QED
      BY <3>1, <3>2
  <2>6. data \in Seq(Frame)
    <3>1. data \in Seq(FrameT)
      BY DEF BudgetInv, ExchangeInv, Types
    <3>2. ASSUME NEW n \in 1 .. Len(data) PROVE data[n] \in Frame
      <4>1. data[n] \in FrameT /\ data[n].id \in Nat
        <5>1. data[n] \in FrameT
          BY <3>1
        <5> QED
          BY <5>1 DEF FrameT
      <4>2. data[n].id <= rid
        <5>1. data[n].id < rid
          BY DEF BudgetInv, ExchangeInv, Ids
        <5> QED
          BY <2>1, <4>1, <5>1
      <4> QED
        BY <2>2, <4>1, <4>2 DEF FrameT, Frame
    <3> QED
      BY <3>1, <3>2
  <2>7. rid \in RId
    BY <2>1 DEF RId
  <2> QED
    BY <2>3, <2>4, <2>5, <2>6, <2>7 DEF TypeOK, BudgetInv, Budget, ExchangeInv, Types
<1>2. Init => BudgetInv
  BY ExchangeStart, BudgetStart DEF BudgetInv
<1> QED
  BY <1>1, <1>2, BudgetNext, PTL DEF Spec
=============================================================================
