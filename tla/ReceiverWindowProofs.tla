------------------------- MODULE ReceiverWindowProofs -------------------------
(***************************************************************************)
(* For any number of shares and calls: whose answers a call of the         *)
(* receiver's window can take, and that what is downloaded belongs to the  *)
(* share connected to.                                                     *)
(***************************************************************************)
EXTENDS ReceiverWindow, SequenceTheorems, TLAPS

Entries == [asked : Share, holds : Share, crossed : BOOLEAN]

CallT == [op : Op, st : {"submitted", "closing", "asked", "offered", "running", "ended"},
          share : {Nothing} \cup Share, reply : {"pending", "result", "error"},
          channels : {"pending", "result", "error"}, got : {Nothing} \cup Share,
          from : {Nothing} \cup Entries, crossed : BOOLEAN, cancelled : BOOLEAN]

RequestT == [kind : Kind \ {"channels"}, by : Made, share : {Nothing} \cup Share]

\* Entries that were not crossed are those of the share that was opened.
Honest(e) == e \in Entries /\ (~ e.crossed => e.holds = e.asked)

HasAsked(i) == call[i].st \notin {"submitted", "closing"}

Over(i) == call[i].st = "ended"

-----------------------------------------------------------------------------
(* The inductive invariant, first what is about the calls. *)

Progress ==
    \A i \in Made :
        /\ call[i].st \in {"offered", "running"} =>
             call[i].op = "download" /\ call[i].reply = "result"
        /\ call[i].st \in {"submitted", "closing"} => call[i].reply = "pending"
        /\ call[i].st = "closing" => call[i].op = "download"
        /\ Over(i) => ~ call[i].cancelled
        /\ call[i].op = "open" /\ ~ Over(i) => call[i].share \in Share
        /\ call[i].op = "download" /\ ~ Over(i) => Honest(call[i].from)

\* Calls start in order.
InOrder ==
    \A i, j \in Made : i < j /\ call[j].st # "submitted" => call[i].st # "submitted"

\* A future stands under its kind, and its call has asked for something.
Holders ==
    \A k \in Kind : holder[k] # Nothing =>
        /\ HasAsked(holder[k])
        /\ k # "channels" => k = KindOf(call[holder[k]].op)

\* What is in line was asked by a call made, and no later future than the
\* one registered waits for it.
Lines ==
    \A n \in 1 .. Len(line) :
        /\ line[n].kind = KindOf(call[line[n].by].op)
        /\ HasAsked(line[n].by)
        /\ holder[line[n].kind] # Nothing /\ line[n].by <= holder[line[n].kind]
        /\ line[n].kind = "manifest" => line[n].share \in Share

\* A call that waits has its request in line, or has been replaced; one that is not
\* crossed has no request of its kind before its own.
Accounted(i) ==
    LET k == KindOf(call[i].op) IN
    /\ holder[k] # Nothing /\ i <= holder[k]
    /\ call[i].reply = "pending" => i < holder[k] \/ \E n \in 1 .. Len(line) : line[n].by = i
    /\ call[i].reply = "pending" /\ ~ call[i].crossed =>
         \A n \in 1 .. Len(line) : line[n].kind = k =>
           i <= line[n].by /\ (line[n].by = i => line[n].share = call[i].share)

Askers == \A i \in Made : call[i].st = "asked" => Accounted(i)

\* An answer is about what was asked, or the call is crossed.
Answers ==
    \A i \in Made : call[i].st \in {"asked", "offered", "running"} /\ call[i].reply = "result" =>
        /\ ~ call[i].crossed => call[i].got = call[i].share
        /\ call[i].op = "open" => call[i].got \in Share

CallsInv == CallsTypeOK /\ Progress /\ InOrder /\ Holders /\ Lines /\ Askers /\ Answers

(* Then the window. *)

PostT ==
    [what : {"on_data", "on_error", "on_open_failed", "on_download_finished"}]
      \cup [what : {"on_shares"}, nonempty : BOOLEAN]
      \cup [what : {"on_manifest"}, from : Entries]

\* What is shown, or will be when the last entries posted are, is of the current share.
Shows ==
    /\ posts \in Seq(PostT)
    /\ \A n \in 1 .. Len(posts) : posts[n].what = "on_manifest" => Honest(posts[n].from)
    /\ \A n \in 1 .. Len(posts) : LastManifest(n) => posts[n].from.asked = current
    /\ shown # Nothing => Honest(shown)

AskedIsShown ==
    \/ \E n \in 1 .. Len(posts) : posts[n].what = "on_manifest"
    \/ current = Nothing /\ shown = Nothing
    \/ shown # Nothing /\ shown.asked = current

WindowInv == CallsInv /\ TypeOK /\ Shows /\ AskedIsShown

-----------------------------------------------------------------------------
LEMMA CallTypes ==
    CallsTypeOK <=> /\ call \in Seq(CallT)
                    /\ Made \subseteq Id
                    /\ holder \in [Kind -> {Nothing} \cup Made]
                    /\ line \in Seq(RequestT)
                    /\ connected \in BOOLEAN
BY DEF CallsTypeOK, CallT, RequestT, Entries

LEMMA CallTypesNext ==
    CallsTypeOK' <=> /\ call' \in Seq(CallT)
                     /\ Made' \subseteq Id
                     /\ holder' \in [Kind -> {Nothing} \cup Made']
                     /\ line' \in Seq(RequestT')
                     /\ connected' \in BOOLEAN
BY DEF CallsTypeOK, CallT, RequestT, Entries

LEMMA SeqOfElements ==
    ASSUME NEW S, NEW T, NEW s \in Seq(S), \A n \in 1 .. Len(s) : s[n] \in T
    PROVE  s \in Seq(T)
OBVIOUS

LEMMA SeqOfFunction ==
    ASSUME NEW S, NEW n \in Nat, NEW f \in [1 .. n -> S]
    PROVE  f \in Seq(S) /\ Len(f) = n
OBVIOUS

LEMMA TailEntries ==
    ASSUME NEW S, NEW q \in Seq(S), q # <<>>
    PROVE  /\ Head(q) = q[1] /\ 1 \in 1 .. Len(q)
           /\ Tail(q) \in Seq(S) /\ Len(Tail(q)) = Len(q) - 1
           /\ \A n \in 1 .. Len(Tail(q)) : Tail(q)[n] = q[n + 1] /\ n + 1 \in 1 .. Len(q)
OBVIOUS

LEMMA SameLength ==
    ASSUME NEW S, NEW q \in Seq(S)
    PROVE  \A i, e : Len([q EXCEPT ![i] = e]) = Len(q)
OBVIOUS

LEMMA KindsOfOps ==
    \A op \in Op : KindOf(op) \in Kind \ {"channels"}
BY DEF Op, Kind, KindOf

LEMMA WindowStart == Init => WindowInv
<1> SUFFICES ASSUME Init PROVE WindowInv
  OBVIOUS
<1>1. /\ call = <<>> /\ line = <<>> /\ posts = <<>> /\ Made = {}
      /\ \A k \in Kind : holder[k] = Nothing
      /\ holder = [k \in Kind |-> Nothing]
      /\ current = Nothing /\ shown = Nothing /\ connected = FALSE
  BY DEF Init, CallsInit, Made
<1>2. CallsTypeOK
  <2>1. call \in Seq(CallT) /\ line \in Seq(RequestT)
    BY <1>1
  <2>3. Made \subseteq Id /\ connected \in BOOLEAN
    BY <1>1
  <2>2. holder \in [Kind -> {Nothing} \cup Made]
    BY <1>1
  <2> QED
    BY <2>1, <2>2, <2>3, CallTypes
<1>3. CallsInv
  BY <1>1, <1>2 DEF CallsInv, Progress, InOrder, Holders, Lines, Askers, Answers
<1>4. Shows /\ AskedIsShown
  BY <1>1 DEF Shows, AskedIsShown
<1>5. TypeOK
  BY <1>2 DEF TypeOK, Init
<1> QED
  BY <1>3, <1>4, <1>5 DEF WindowInv

\* One call goes on or is over; nothing is asked or answered.
LEMMA CallGoesOn ==
    ASSUME CallsInv, NEW i \in Made, NEW e \in CallT, call' = [call EXCEPT ![i] = e],
           UNCHANGED <<holder, line>>, connected' \in BOOLEAN, e.op = call[i].op,
           e.st = "ended" => ~ e.cancelled,
           \/ call[i].st # "submitted" /\ e.st = "ended"
           \/ /\ call[i].st = "submitted" /\ e.st = "closing" /\ e.op = "download"
              /\ e.from = call[i].from /\ e.reply = call[i].reply
              /\ \A j \in 1 .. i - 1 : call[j].st # "submitted"
           \/ /\ e.share = call[i].share /\ e.from = call[i].from /\ e.reply = call[i].reply
              /\ e.got = call[i].got /\ e.crossed = call[i].crossed
              /\ \/ e.st = call[i].st
                 \/ /\ call[i].st \in {"asked", "offered"} /\ e.st \in {"offered", "running"}
                    /\ e.op = "download" /\ e.reply = "result"
    PROVE  CallsInv'
<1>1. call \in Seq(CallT) /\ Made = 1 .. Len(call)
  BY CallTypes DEF CallsInv, Made
<1>2. /\ call' \in Seq(CallT) /\ Len(call') = Len(call) /\ Made' = Made
      /\ \A j \in Made : call'[j] = IF j = i THEN e ELSE call[j]
  BY <1>1, ExceptSeq DEF Made
<1>3. CallsTypeOK'
  <2>1. /\ Made \subseteq Id /\ holder \in [Kind -> {Nothing} \cup Made]
        /\ line \in Seq(RequestT)
    BY CallTypes DEF CallsInv
  <2> QED
    BY <1>2, <2>1, CallTypesNext DEF RequestT
<1>4. Progress'
  BY <1>2 DEF CallsInv, Progress, Over
<1>0. \A j \in Made : /\ HasAsked(j) => HasAsked(j)'
                      /\ call'[j].st = "submitted" => call[j].st = "submitted"
  BY <1>2 DEF HasAsked
<1>9. InOrder'
  <2> SUFFICES ASSUME NEW j \in Made, NEW m \in Made, j < m, call'[m].st # "submitted",
                      call'[j].st = "submitted"
               PROVE  FALSE
    BY <1>2 DEF InOrder
  <2>1. call[j].st = "submitted" /\ call[m].st = "submitted"
    BY <1>0 DEF CallsInv, InOrder
  <2>2. m = i /\ \A x \in 1 .. i - 1 : call[x].st # "submitted"
    BY <1>2, <2>1
  <2>3. j \in 1 .. i - 1
    BY <1>1, <2>2
  <2> QED
    BY <2>1, <2>2, <2>3
<1>5. Holders'
  <2>1. \A k \in Kind : holder[k] \in {Nothing} \cup Made
    BY DEF CallsInv, CallsTypeOK
  <2> QED
    BY <1>0, <1>2, <2>1 DEF CallsInv, Holders
<1>6. Lines'
  <2>1. \A n \in 1 .. Len(line) : line[n].by \in Made
    <3>1. ASSUME NEW n \in 1 .. Len(line) PROVE line[n] \in RequestT
      BY CallTypes DEF CallsInv
    <3> QED
      BY <3>1 DEF RequestT
  <2> QED
    BY <1>0, <1>2, <2>1 DEF CallsInv, Lines
<1>7. Askers'
  <2> SUFFICES ASSUME NEW j \in Made, call'[j].st = "asked" PROVE Accounted(j)'
    BY <1>2 DEF Askers
  <2>1. /\ call[j].st = "asked" /\ call'[j].op = call[j].op /\ call'[j].reply = call[j].reply
        /\ call'[j].crossed = call[j].crossed /\ call'[j].share = call[j].share
    BY <1>2
  <2>2. Accounted(j)
    BY <2>1 DEF CallsInv, Askers
  <2> QED
    BY <2>1, <2>2 DEF Accounted
<1>8. Answers'
  BY <1>2 DEF CallsInv, Answers
<1> QED
  BY <1>3, <1>4, <1>5, <1>6, <1>7, <1>8, <1>9 DEF CallsInv

\* The lines and holders that an invariant speaks of are calls made.
LEMMA CallRanges ==
    ASSUME CallsInv
    PROVE  /\ call \in Seq(CallT) /\ line \in Seq(RequestT) /\ Made \subseteq Id
           /\ connected \in BOOLEAN
           /\ holder \in [Kind -> {Nothing} \cup Made]
           /\ \A i \in Made : i \in Nat /\ i # Nothing /\ call[i] \in CallT
           /\ \A n \in 1 .. Len(line) : /\ line[n] \in RequestT /\ line[n].by \in Made
                                        /\ line[n].kind \in Kind \ {"channels"}
<1>1. /\ call \in Seq(CallT) /\ line \in Seq(RequestT) /\ Made \subseteq Id
      /\ connected \in BOOLEAN
  BY CallTypes DEF CallsInv
<1>2. \A i \in Made : i \in Nat /\ i # Nothing /\ call[i] \in CallT
  BY <1>1, CallsAssumption DEF Made, Id
<1>3. \A n \in 1 .. Len(line) : line[n] \in RequestT
  BY <1>1
<1> QED
  BY <1>1, <1>2, <1>3, CallTypes DEF CallsInv, RequestT

LEMMA SubmitStep ==
    ASSUME CallsInv, NEW op \in Op, NEW share \in {Nothing} \cup Share,
           NEW from \in {Nothing} \cup Entries, Submit(op, share, from),
           op = "open" => share \in Share, op = "download" => Honest(from)
    PROVE  CallsInv' /\ Len(call') = Len(call) + 1 /\ Made' = Made \cup {Len(call')}
<1> DEFINE e == Submitted(op, share, from)  k == Len(call) + 1
<1>1. e \in CallT /\ e.st = "submitted" /\ e.op = op /\ e.share = share /\ e.from = from
      /\ e.reply = "pending"
  BY DEF Submitted, CallT
<1>2. call' = Append(call, e) /\ Len(call) < MaxCalls /\ UNCHANGED <<holder, line, connected>>
  BY DEF Submit
<1> HIDE DEF e
<1>3. /\ call' \in Seq(CallT) /\ Len(call') = k /\ Made' = Made \cup {k} /\ call'[k] = e
      /\ \A j \in Made : call'[j] = call[j] /\ j # k
  BY <1>1, <1>2, CallRanges DEF Made
<1>4. Made' \subseteq Id
  BY <1>2, <1>3, CallRanges, CallsAssumption DEF Id, Made
<1>5. CallsTypeOK'
  <2>1. holder' \in [Kind -> {Nothing} \cup Made']
    BY <1>2, <1>3, CallRanges
  <2>2. line' \in Seq(RequestT')
    <3>1. \A n \in 1 .. Len(line) : line[n] \in RequestT'
      BY <1>3, CallRanges DEF RequestT
    <3> QED
      BY <1>2, <3>1, CallRanges, SeqOfElements
  <2> QED
    BY <1>2, <1>3, <1>4, <2>1, <2>2, CallRanges, CallTypesNext
<1>6. Progress'
  BY <1>1, <1>3 DEF CallsInv, Progress, Over
<1>0. call'[k].st = "submitted" /\ \A j \in Made : HasAsked(j)' <=> HasAsked(j)
  BY <1>1, <1>3 DEF HasAsked
<1>11. InOrder'
  <2> SUFFICES ASSUME NEW i \in Made', NEW j \in Made', i < j, call'[j].st # "submitted"
               PROVE  call'[i].st # "submitted"
    BY DEF InOrder
  <2>1. i \in Made /\ j \in Made
    BY <1>1, <1>3, CallRanges DEF Made
  <2> QED
    BY <1>3, <2>1 DEF CallsInv, InOrder
<1>7. Holders'
  BY <1>0, <1>2, <1>3, CallRanges DEF CallsInv, Holders
<1>8. Lines'
  BY <1>0, <1>2, <1>3, CallRanges DEF CallsInv, Lines
<1>9. Askers'
  <2> SUFFICES ASSUME NEW i \in Made', call'[i].st = "asked" PROVE Accounted(i)'
    BY DEF Askers
  <2>1. i \in Made /\ call'[i] = call[i]
    BY <1>1, <1>3
  <2>2. Accounted(i)
    BY <2>1 DEF CallsInv, Askers
  <2> QED
    BY <1>2, <2>1, <2>2 DEF Accounted
<1>10. Answers'
  BY <1>1, <1>3 DEF CallsInv, Answers
<1> QED
  BY <1>3, <1>5, <1>6, <1>7, <1>8, <1>9, <1>10, <1>11 DEF CallsInv

\* Calls start in order, and a download that closed a Peer goes on before the next one
\* starts: the call that asks is later than all of its kind that have asked.
LEMMA AskStep ==
    ASSUME CallsInv, NEW i \in Made, NEW share \in {Nothing} \cup Share, Ask(i, share),
           call[i].op = "open" => share \in Share
    PROVE  CallsInv' /\ Len(call') = Len(call)
<1> DEFINE kind == KindOf(call[i].op)
           crossed == \E n \in 1 .. Len(line) : line[n].kind = kind
           e == [call[i] EXCEPT !.st = "asked", !.share = share, !.crossed = crossed]
           q == [kind |-> kind, by |-> i, share |-> share]
<1>1. /\ call[i] \in CallT /\ i \in Nat /\ call[i].op \in Op
      /\ call[i].st \in {"submitted", "closing"} /\ call[i].reply = "pending"
      /\ \A j \in Made : j < i => call[j].st # "submitted"
      /\ ~ HasAsked(i)
  <2>1. call[i] \in CallT /\ i \in Nat /\ call[i].op \in Op
    BY CallRanges DEF CallT
  <2>2. call[i].st \in {"submitted", "closing"} /\ ~ HasAsked(i)
    BY DEF Ask, MayStart, Closed, HasAsked
  <2>3. call[i].reply = "pending"
    BY <2>2 DEF CallsInv, Progress
  <2>4. ASSUME NEW j \in Made, j < i PROVE call[j].st # "submitted"
    <3>1. CASE MayStart(i)
      <4>1. j \in 1 .. i - 1
        BY <2>1, <2>4 DEF Made
      <4> QED
        BY <3>1, <4>1 DEF MayStart
    <3>2. CASE Closed(i)
      BY <2>4, <3>2 DEF Closed, CallsInv, InOrder
    <3> QED
      BY <3>1, <3>2 DEF Ask
  <2> QED
    BY <2>1, <2>2, <2>3, <2>4
<1>0. ASSUME NEW j \in Made, HasAsked(j), KindOf(call[j].op) = kind PROVE j < i
  <2> SUFFICES ASSUME ~ (j < i) PROVE FALSE
    OBVIOUS
  <2>1. j > i /\ j \in i + 1 .. Len(call) /\ call[j].op \in Op
    BY <1>0, <1>1, CallRanges DEF Made, CallT
  <2>2. CASE MayStart(i)
    BY <1>0, <2>1, <2>2 DEF MayStart, CallsInv, InOrder, HasAsked
  <2>3. CASE Closed(i)
    <3>1. kind = "ready"
      BY <2>3 DEF Closed, CallsInv, Progress, KindOf
    <3>2. call[j].op = "download"
      BY <1>0, <2>1, <3>1 DEF KindOf, Op
    <3> QED
      BY <1>0, <2>1, <2>3, <3>2 DEF Closed, HasAsked
  <2> QED
    BY <2>2, <2>3 DEF Ask
<1>2. kind \in Kind \ {"channels"} /\ crossed \in BOOLEAN
  BY <1>1, KindsOfOps
<1>3. /\ e \in CallT /\ e.op = call[i].op /\ e.from = call[i].from /\ e.st = "asked"
      /\ e.share = share /\ e.reply = call[i].reply /\ e.got = call[i].got
      /\ e.crossed = crossed
  BY <1>1, <1>2 DEF CallT
<1>4. /\ call' = [call EXCEPT ![i] = e]
      /\ holder' = [k \in Kind |-> IF k = kind \/ (k = "channels" /\ kind = "ready")
                                   THEN i ELSE holder[k]]
      /\ line' = Append(line, q) /\ connected' \in BOOLEAN
  BY <1>1 DEF Ask, Keeps, CallT
<1>5. q \in RequestT /\ q.kind = kind /\ q.by = i /\ q.share = share
  BY <1>2 DEF RequestT
<1> HIDE DEF e
<1>6. /\ call' \in Seq(CallT) /\ Len(call') = Len(call) /\ Made' = Made
      /\ \A j \in Made : call'[j] = IF j = i THEN e ELSE call[j]
  BY <1>3, <1>4, CallRanges, ExceptSeq DEF Made
<1>7. /\ line' \in Seq(RequestT) /\ Len(line') = Len(line) + 1
      /\ line'[Len(line) + 1] = q /\ \A n \in 1 .. Len(line) : line'[n] = line[n]
  BY <1>4, <1>5, CallRanges
<1> HIDE DEF q, kind
<1>8. \A k \in Kind : holder'[k] = IF k = kind \/ (k = "channels" /\ kind = "ready")
                                   THEN i ELSE holder[k]
  BY <1>4
<1>9. CallsTypeOK'
  BY <1>2, <1>4, <1>6, <1>7, CallRanges, CallTypesNext DEF RequestT
<1>10. /\ \A j \in Made : HasAsked(j)' <=> HasAsked(j) \/ j = i
       /\ \A j \in Made : HasAsked(j) \/ j = i => call'[j].st \notin {"submitted", "closing"}
       /\ \A j \in Made : HasAsked(j) /\ KindOf(call[j].op) = kind => j < i
  <2>1. \A j \in Made : HasAsked(j)' <=> HasAsked(j) \/ j = i
    BY <1>3, <1>6 DEF HasAsked
  <2> QED
    BY <1>0, <2>1 DEF HasAsked
<1>11. Progress'
  BY <1>1, <1>3, <1>6 DEF CallsInv, Progress, Over
<1>12. InOrder'
  <2> SUFFICES ASSUME NEW j \in Made, NEW m \in Made, j < m, call'[m].st # "submitted"
               PROVE  call'[j].st # "submitted"
    BY <1>6 DEF InOrder
  <2>1. CASE m = i
    BY <1>1, <1>6, <2>1, CallRanges
  <2>2. CASE m # i
    BY <1>3, <1>6, <2>2 DEF CallsInv, InOrder
  <2> QED
    BY <2>1, <2>2
<1>13. Holders'
  <2> SUFFICES ASSUME NEW k \in Kind, holder'[k] # Nothing
               PROVE  /\ call'[holder'[k]].st \notin {"submitted", "closing"}
                      /\ k # "channels" => k = KindOf(call'[holder'[k]].op)
    BY DEF Holders, HasAsked
  <2>1. CASE holder'[k] = i
    <3>1. k # "channels" => k = kind
      <4>1. CASE k = kind \/ (k = "channels" /\ kind = "ready")
        BY <4>1
      <4>2. CASE ~ (k = kind \/ (k = "channels" /\ kind = "ready"))
        <5>1. holder[k] = i
          BY <1>8, <2>1, <4>2
        <5> QED
          BY <1>1, <5>1, CallRanges DEF CallsInv, Holders
      <4> QED
        BY <4>1, <4>2
    <3> QED
      BY <1>3, <1>6, <1>10, <2>1, <3>1 DEF kind
  <2>2. CASE holder'[k] # i
    <3>1. holder'[k] = holder[k] /\ holder[k] \in Made
      BY <1>8, <2>2, CallRanges
    <3> QED
      BY <1>6, <1>10, <2>2, <3>1 DEF CallsInv, Holders
  <2> QED
    BY <2>1, <2>2
<1>14. ASSUME NEW n \in 1 .. Len(line') PROVE n \in 1 .. Len(line) \/ (n = Len(line) + 1 /\ line'[n] = q)
  BY <1>7, CallRanges
<1>15. \A k \in Kind : holder'[k] = i \/ holder'[k] = holder[k]
  BY <1>8
<1>16. Lines'
  <2> SUFFICES ASSUME NEW n \in 1 .. Len(line')
               PROVE  /\ line'[n].kind = KindOf(call'[line'[n].by].op)
                      /\ call'[line'[n].by].st \notin {"submitted", "closing"}
                      /\ holder'[line'[n].kind] # Nothing /\ line'[n].by <= holder'[line'[n].kind]
                      /\ line'[n].kind = "manifest" => line'[n].share \in Share
    BY DEF Lines, HasAsked
  <2>1. CASE n \in 1 .. Len(line)
    <3>1. /\ line'[n] = line[n] /\ line[n].by \in Made /\ line[n].kind \in Kind
          /\ line[n].kind = KindOf(call[line[n].by].op) /\ HasAsked(line[n].by)
          /\ holder[line[n].kind] # Nothing /\ line[n].by <= holder[line[n].kind]
          /\ line[n].kind = "manifest" => line[n].share \in Share
      BY <1>7, <2>1, CallRanges DEF CallsInv, Lines
    <3>2. /\ line[n].by # i /\ i # Nothing
          /\ line[n].kind = kind => line[n].by < i /\ holder'[line[n].kind] = i
          /\ line[n].kind # kind => holder'[line[n].kind] = holder[line[n].kind]
      <4>1. line[n].kind # "channels"
        BY <2>1, CallRanges
      <4>2. line[n].by # i /\ i # Nothing
        BY <1>1, <3>1, CallRanges
      <4>3. ASSUME line[n].kind = kind PROVE line[n].by < i /\ holder'[line[n].kind] = i
        BY <1>8, <1>10, <3>1, <4>3
      <4>4. ASSUME line[n].kind # kind PROVE holder'[line[n].kind] = holder[line[n].kind]
        BY <1>8, <3>1, <4>1, <4>4
      <4> QED
        BY <4>2, <4>3, <4>4
    <3>3. call'[line[n].by] = call[line[n].by] /\ call'[line[n].by].st \notin {"submitted", "closing"}
      BY <1>6, <1>10, <3>1, <3>2
    <3>4. holder'[line[n].kind] # Nothing /\ line[n].by <= holder'[line[n].kind]
      <4>1. line[n].by \in Nat /\ i \in Nat
        BY <1>1, <3>1, CallRanges
      <4>2. CASE line[n].kind = kind
        <5>1. line[n].by < i /\ holder'[line[n].kind] = i
          BY <3>2, <4>2
        <5> QED
          BY <3>2, <4>1, <5>1
      <4>3. CASE line[n].kind # kind
        BY <3>1, <3>2, <4>3
      <4> QED
        BY <4>2, <4>3
    <3> QED
      BY <3>1, <3>3, <3>4
  <2>2. CASE n = Len(line) + 1 /\ line'[n] = q
    <3>1. kind = "manifest" => call[i].op = "open"
      BY <1>1 DEF kind, KindOf, Op
    <3>2. holder'[kind] = i /\ call'[i].op = call[i].op
      BY <1>2, <1>3, <1>6, <1>8, <1>10
    <3> QED
      BY <1>1, <1>5, <1>10, <2>2, <3>1, <3>2, CallRanges DEF kind
  <2> QED
    BY <1>14, <2>1, <2>2
<1>17. Askers'
  <2> SUFFICES ASSUME NEW j \in Made, call'[j].st = "asked" PROVE Accounted(j)'
    BY <1>6 DEF Askers
  <2>1. CASE j = i
    <3>1. /\ call'[i] = e /\ KindOf(call'[i].op) = kind /\ holder'[kind] = i /\ i # Nothing
          /\ line'[Len(line) + 1].by = i /\ Len(line) + 1 \in 1 .. Len(line')
      BY <1>2, <1>3, <1>5, <1>6, <1>7, <1>8, CallRanges DEF kind
    <3>2. ASSUME ~ e.crossed, NEW n \in 1 .. Len(line'), line'[n].kind = kind
          PROVE  line'[n].by = i /\ line'[n].share = e.share
      BY <1>3, <1>5, <1>7, <1>14, <3>2
    <3> QED
      BY <1>1, <2>1, <3>1, <3>2 DEF Accounted
  <2>2. CASE j # i
    <3>1. /\ call'[j] = call[j] /\ call[j].st = "asked" /\ Accounted(j)
          /\ call[j].op \in Op /\ (KindOf(call[j].op) = kind => j < i)
      BY <1>6, <1>10, <2>2, CallRanges DEF CallsInv, Askers, HasAsked, CallT
    <3>2. KindOf(call[j].op) \in Kind
      BY <3>1, KindsOfOps
    <3> DEFINE k == KindOf(call[j].op)
    <3>3. holder'[k] # Nothing /\ j <= holder'[k] /\ (j < holder[k] => j < holder'[k])
      <4>1. holder'[k] = IF k = kind THEN i ELSE holder[k]
        BY <1>8, <3>1, <3>2, KindsOfOps
      <4> QED
        BY <1>1, <3>1, <3>2, <4>1, CallRanges DEF Accounted
    <3>4. call[j].reply = "pending" => j < holder'[k] \/ \E n \in 1 .. Len(line') : line'[n].by = j
      BY <1>7, <3>1, <3>3, CallRanges DEF Accounted
    <3>5. ASSUME call[j].reply = "pending", ~ call[j].crossed,
                 NEW n \in 1 .. Len(line'), line'[n].kind = k
          PROVE  j <= line'[n].by /\ (line'[n].by = j => line'[n].share = call[j].share)
      <4>1. CASE n \in 1 .. Len(line)
        BY <1>7, <3>1, <3>5, <4>1 DEF Accounted
      <4>2. CASE n = Len(line) + 1 /\ line'[n] = q
        <5>1. line'[n].by = i /\ j < i /\ j # i
          BY <1>5, <2>2, <3>1, <3>5, <4>2
        <5>2. j \in Nat /\ i \in Nat
          BY <1>1, CallRanges
        <5> QED
          BY <5>1, <5>2
      <4> QED
        BY <1>14, <4>1, <4>2
    <3> QED
      BY <3>1, <3>3, <3>4, <3>5 DEF Accounted
  <2> QED
    BY <2>1, <2>2
<1>18. Answers'
  <2>1. e.reply = "pending"
    BY <1>1, <1>3 DEF CallsInv, Progress
  <2> QED
    BY <1>6, <2>1 DEF CallsInv, Answers
<1> QED
  BY <1>6, <1>9, <1>11, <1>12, <1>13, <1>16, <1>17, <1>18 DEF CallsInv

-----------------------------------------------------------------------------
\* An answer arrives.  Whose it is depends on who holds the future of its kind: the
\* call that asked, if it is not crossed.
LEMMA AnsweredStep ==
    ASSUME CallsInv, Answered PROVE CallsInv' /\ Len(call') = Len(call)
<1> DEFINE m == Head(line)
           e(i) == IF Waits(i, m.kind) THEN [call[i] EXCEPT !.reply = "result", !.got = m.share]
                                       ELSE call[i]
<1>1. /\ line # <<>> /\ line' = Tail(line) /\ call' = [i \in Made |-> e(i)] /\ holder' = holder
      /\ connected' = connected
  BY DEF Answered
<1>2. /\ m = line[1] /\ 1 \in 1 .. Len(line) /\ m.kind \in Kind \ {"channels"} /\ m.by \in Made
      /\ m.share \in {Nothing} \cup Share
      /\ line' \in Seq(RequestT) /\ Len(line') = Len(line) - 1
      /\ \A n \in 1 .. Len(line') : line'[n] = line[n + 1] /\ n + 1 \in 1 .. Len(line)
  <2>1. line \in Seq(RequestT) /\ m = line[1] /\ 1 \in 1 .. Len(line)
    BY <1>1, CallRanges, TailEntries
  <2>2. line[1] \in RequestT
    BY <2>1
  <2>3. m.kind \in Kind \ {"channels"} /\ m.by \in Made /\ m.share \in {Nothing} \cup Share
    BY <2>1, <2>2 DEF RequestT
  <2>4. /\ line' \in Seq(RequestT) /\ Len(line') = Len(line) - 1
        /\ \A n \in 1 .. Len(line') : line'[n] = line[n + 1] /\ n + 1 \in 1 .. Len(line)
    BY <1>1, <2>1, TailEntries
  <2> QED
    BY <2>1, <2>3, <2>4
<1>3. m.kind = KindOf(call[m.by].op) /\ m.by <= holder[m.kind] /\ m.by \in Nat
      /\ (m.kind = "manifest" => m.share \in Share)
  BY <1>2, CallRanges DEF CallsInv, Lines
<1>4. ASSUME NEW i \in Made
      PROVE  /\ e(i) \in CallT /\ e(i).op = call[i].op /\ e(i).st = call[i].st
             /\ e(i).share = call[i].share /\ e(i).from = call[i].from
             /\ e(i).crossed = call[i].crossed /\ e(i).cancelled = call[i].cancelled
             /\ \/ ~ Waits(i, m.kind) /\ e(i) = call[i]
                \/ Waits(i, m.kind) /\ e(i).reply = "result" /\ e(i).got = m.share
  <2>1. call[i] \in CallT
    BY CallRanges
  <2>2. CASE Waits(i, m.kind)
    BY <1>2, <2>1, <2>2 DEF CallT
  <2>3. CASE ~ Waits(i, m.kind)
    BY <2>1, <2>3
  <2> QED
    BY <2>2, <2>3
<1>5. \A i \in Made : Waits(i, m.kind) =>
        /\ holder[m.kind] = i /\ call[i].st = "asked" /\ call[i].reply = "pending"
        /\ m.kind = KindOf(call[i].op)
  BY <1>2, CallRanges DEF Waits, CallsInv, Holders
<1> HIDE DEF e, m
<1>6. /\ call' \in Seq(CallT) /\ Len(call') = Len(call) /\ Made' = Made
      /\ \A i \in Made : call'[i] = e(i)
  BY <1>1, <1>4, CallRanges, SeqOfFunction DEF Made
<1>7. CallsTypeOK'
  BY <1>1, <1>2, <1>6, CallRanges, CallTypesNext DEF RequestT
<1>8. \A i \in Made : HasAsked(i)' <=> HasAsked(i)
  BY <1>4, <1>6 DEF HasAsked
<1>9. Progress'
  BY <1>4, <1>5, <1>6 DEF CallsInv, Progress, Over
<1>10. InOrder'
  BY <1>4, <1>6, <1>8 DEF CallsInv, InOrder
<1>11. Holders'
  BY <1>1, <1>4, <1>6, <1>8, CallRanges DEF CallsInv, Holders
<1>12. Lines'
  <2> SUFFICES ASSUME NEW n \in 1 .. Len(line')
               PROVE  /\ line'[n].kind = KindOf(call'[line'[n].by].op)
                      /\ call'[line'[n].by].st \notin {"submitted", "closing"}
                      /\ holder'[line'[n].kind] # Nothing /\ line'[n].by <= holder'[line'[n].kind]
                      /\ line'[n].kind = "manifest" => line'[n].share \in Share
    BY DEF Lines, HasAsked
  <2>1. line'[n] = line[n + 1] /\ n + 1 \in 1 .. Len(line) /\ line[n + 1].by \in Made
    BY <1>2, CallRanges
  <2>2. /\ line[n + 1].kind = KindOf(call[line[n + 1].by].op)
        /\ call[line[n + 1].by].st \notin {"submitted", "closing"}
        /\ holder[line[n + 1].kind] # Nothing /\ line[n + 1].by <= holder[line[n + 1].kind]
        /\ line[n + 1].kind = "manifest" => line[n + 1].share \in Share
    BY <2>1 DEF CallsInv, Lines, HasAsked
  <2> QED
    BY <1>1, <1>4, <1>6, <2>1, <2>2
<1>13. Askers'
  <2> SUFFICES ASSUME NEW i \in Made, call'[i].st = "asked" PROVE Accounted(i)'
    BY <1>6 DEF Askers
  <2> DEFINE k == KindOf(call[i].op)
  <2>1. /\ call'[i] = e(i) /\ call[i].st = "asked" /\ Accounted(i) /\ i \in Nat
        /\ KindOf(call'[i].op) = k
    BY <1>4, <1>6, CallRanges DEF CallsInv, Askers
  <2>2. call'[i].reply = "pending" => ~ Waits(i, m.kind) /\ call'[i] = call[i]
    BY <1>4, <2>1
  <2>3. ASSUME call'[i].reply = "pending", ~ i < holder[k]
        PROVE  \E n \in 1 .. Len(line') : line'[n].by = i
    <3>1. PICK n \in 1 .. Len(line) : line[n].by = i
      BY <2>1, <2>2, <2>3 DEF Accounted
    <3>2. k \in Kind /\ holder[k] = i /\ k # "channels"
      <4>1. call[i].op \in Op
        BY CallRanges DEF CallT
      <4>2. k \in Kind /\ k # "channels"
        BY <4>1, KindsOfOps
      <4>3. holder[k] # Nothing /\ i <= holder[k] /\ holder[k] \in Nat
        BY <2>1, <4>2, CallRanges DEF Accounted
      <4> QED
        BY <2>1, <2>3, <4>2, <4>3
    <3>3. n # 1
      <4>1. ASSUME n = 1 PROVE m.kind = k
        BY <1>2, <1>3, <3>1, <4>1
      <4> QED
        BY <2>1, <2>2, <2>3, <3>2, <4>1 DEF Waits
    <3>4. n - 1 \in 1 .. Len(line') /\ line'[n - 1] = line[n]
      BY <1>2, <3>1, <3>3, CallRanges
    <3> QED
      BY <3>1, <3>4
  <2>4. ASSUME call'[i].reply = "pending", ~ call'[i].crossed,
               NEW n \in 1 .. Len(line'), line'[n].kind = k
        PROVE  i <= line'[n].by /\ (line'[n].by = i => line'[n].share = call'[i].share)
    BY <1>2, <2>1, <2>2, <2>4 DEF Accounted
  <2>5. holder'[k] # Nothing /\ i <= holder'[k]
    BY <1>1, <2>1 DEF Accounted
  <2> QED
    BY <1>1, <2>1, <2>3, <2>4, <2>5 DEF Accounted
<1>14. Answers'
  <2> SUFFICES ASSUME NEW i \in Made, call'[i].st \in {"asked", "offered", "running"},
                      call'[i].reply = "result"
               PROVE  /\ ~ call'[i].crossed => call'[i].got = call'[i].share
                      /\ call'[i].op = "open" => call'[i].got \in Share
    BY <1>6 DEF Answers
  <2>1. CASE Waits(i, m.kind)
    <3>1. /\ holder[m.kind] = i /\ call[i].st = "asked" /\ call[i].reply = "pending"
          /\ m.kind = KindOf(call[i].op) /\ call'[i].got = m.share /\ i \in Nat
      BY <1>4, <1>5, <1>6, <2>1, CallRanges
    <3>2. ASSUME ~ call[i].crossed PROVE m.share = call[i].share
      <4>1. i <= m.by /\ (m.by = i => m.share = call[i].share)
        BY <1>2, <3>1, <3>2 DEF CallsInv, Askers, Accounted
      <4> QED
        BY <1>3, <3>1, <4>1
    <3>3. ASSUME call[i].op = "open" PROVE m.share \in Share
      BY <1>3, <3>1, <3>3 DEF KindOf, Op
    <3> QED
      BY <1>4, <1>6, <3>1, <3>2, <3>3
  <2>2. CASE ~ Waits(i, m.kind)
    BY <1>4, <1>6, <2>2 DEF CallsInv, Answers
  <2> QED
    BY <2>1, <2>2
<1> QED
  BY <1>6, <1>7, <1>9, <1>10, <1>11, <1>12, <1>13, <1>14 DEF CallsInv

\* A refusal fails whoever waits, and in particular the call whose request it was.
LEMMA RefusedStep ==
    ASSUME CallsInv, Refused PROVE CallsInv' /\ Len(call') = Len(call)
<1> DEFINE m == Head(line)
           fails(i) == \E k \in Kind \ {"channels"} : Waits(i, k)
           e(i) == [call[i] EXCEPT !.reply = IF fails(i) THEN "error" ELSE @,
                                   !.channels = IF Waits(i, "channels") THEN "error" ELSE @]
<1>1. /\ line # <<>> /\ line' = Tail(line) /\ call' = [i \in Made |-> e(i)] /\ holder' = holder
      /\ connected' = connected
  BY DEF Refused
<1>2. /\ m = line[1] /\ 1 \in 1 .. Len(line) /\ m.kind \in Kind \ {"channels"} /\ m.by \in Made
      /\ m.share \in {Nothing} \cup Share
      /\ line' \in Seq(RequestT) /\ Len(line') = Len(line) - 1
      /\ \A n \in 1 .. Len(line') : line'[n] = line[n + 1] /\ n + 1 \in 1 .. Len(line)
  <2>1. line \in Seq(RequestT) /\ m = line[1] /\ 1 \in 1 .. Len(line)
    BY <1>1, CallRanges, TailEntries
  <2>2. line[1] \in RequestT
    BY <2>1
  <2>3. m.kind \in Kind \ {"channels"} /\ m.by \in Made /\ m.share \in {Nothing} \cup Share
    BY <2>1, <2>2 DEF RequestT
  <2>4. /\ line' \in Seq(RequestT) /\ Len(line') = Len(line) - 1
        /\ \A n \in 1 .. Len(line') : line'[n] = line[n + 1] /\ n + 1 \in 1 .. Len(line)
    BY <1>1, <2>1, TailEntries
  <2> QED
    BY <2>1, <2>3, <2>4
<1>3. m.kind = KindOf(call[m.by].op) /\ m.by <= holder[m.kind] /\ m.by \in Nat
      /\ (m.kind = "manifest" => m.share \in Share)
  BY <1>2, CallRanges DEF CallsInv, Lines
<1>4. ASSUME NEW i \in Made
      PROVE  /\ e(i) \in CallT /\ e(i).op = call[i].op /\ e(i).st = call[i].st
             /\ e(i).share = call[i].share /\ e(i).from = call[i].from
             /\ e(i).crossed = call[i].crossed /\ e(i).got = call[i].got
             /\ e(i).cancelled = call[i].cancelled
             /\ e(i).reply = IF fails(i) THEN "error" ELSE call[i].reply
  <2>1. call[i] \in CallT
    BY CallRanges
  <2> HIDE DEF fails
  <2> QED
    BY <2>1 DEF CallT
<1>5. \A i \in Made : fails(i) => call[i].st = "asked" /\ call[i].reply = "pending"
  BY DEF Waits
<1> HIDE DEF fails
<1> HIDE DEF e, m
<1>6. /\ call' \in Seq(CallT) /\ Len(call') = Len(call) /\ Made' = Made
      /\ \A i \in Made : call'[i] = e(i)
  <2>1. Len(call) \in Nat /\ Made = 1 .. Len(call) /\ call' = [i \in Made |-> e(i)]
    BY <1>1, CallRanges DEF Made
  <2>2. \A i \in Made : e(i) \in CallT
    BY <1>4
  <2>3. call' \in [1 .. Len(call) -> CallT] /\ \A i \in Made : call'[i] = e(i)
    BY <2>1, <2>2
  <2> QED
    BY <2>1, <2>3, SeqOfFunction DEF Made
<1>7. CallsTypeOK'
  BY <1>1, <1>2, <1>6, CallRanges, CallTypesNext DEF RequestT
<1>8. \A i \in Made : HasAsked(i)' <=> HasAsked(i)
  BY <1>4, <1>6 DEF HasAsked
<1>9. Progress'
  BY <1>4, <1>5, <1>6 DEF CallsInv, Progress, Over
<1>10. InOrder'
  BY <1>4, <1>6, <1>8 DEF CallsInv, InOrder
<1>11. Holders'
  BY <1>1, <1>4, <1>6, <1>8, CallRanges DEF CallsInv, Holders
<1>12. Lines'
  <2> SUFFICES ASSUME NEW n \in 1 .. Len(line')
               PROVE  /\ line'[n].kind = KindOf(call'[line'[n].by].op)
                      /\ call'[line'[n].by].st \notin {"submitted", "closing"}
                      /\ holder'[line'[n].kind] # Nothing /\ line'[n].by <= holder'[line'[n].kind]
                      /\ line'[n].kind = "manifest" => line'[n].share \in Share
    BY DEF Lines, HasAsked
  <2>1. line'[n] = line[n + 1] /\ n + 1 \in 1 .. Len(line) /\ line[n + 1].by \in Made
    BY <1>2, CallRanges
  <2>2. /\ line[n + 1].kind = KindOf(call[line[n + 1].by].op)
        /\ call[line[n + 1].by].st \notin {"submitted", "closing"}
        /\ holder[line[n + 1].kind] # Nothing /\ line[n + 1].by <= holder[line[n + 1].kind]
        /\ line[n + 1].kind = "manifest" => line[n + 1].share \in Share
    BY <2>1 DEF CallsInv, Lines, HasAsked
  <2> QED
    BY <1>1, <1>4, <1>6, <2>1, <2>2
<1>13. Askers'
  <2> SUFFICES ASSUME NEW i \in Made, call'[i].st = "asked" PROVE Accounted(i)'
    BY <1>6 DEF Askers
  <2> DEFINE k == KindOf(call[i].op)
  <2>1. /\ call'[i] = e(i) /\ call[i].st = "asked" /\ Accounted(i) /\ i \in Nat
        /\ KindOf(call'[i].op) = k
    BY <1>4, <1>6, CallRanges DEF CallsInv, Askers
  <2>2. /\ call'[i].reply = "pending" => ~ Waits(i, m.kind) /\ call[i].reply = "pending"
        /\ call'[i].share = call[i].share /\ call'[i].crossed = call[i].crossed
    BY <1>2, <1>4, <2>1 DEF fails
  <2>3. ASSUME call'[i].reply = "pending", ~ i < holder[k]
        PROVE  \E n \in 1 .. Len(line') : line'[n].by = i
    <3>1. PICK n \in 1 .. Len(line) : line[n].by = i
      BY <2>1, <2>2, <2>3 DEF Accounted
    <3>2. k \in Kind /\ holder[k] = i /\ k # "channels"
      <4>1. call[i].op \in Op
        BY CallRanges DEF CallT
      <4>2. k \in Kind /\ k # "channels"
        BY <4>1, KindsOfOps
      <4>3. holder[k] # Nothing /\ i <= holder[k] /\ holder[k] \in Nat
        BY <2>1, <4>2, CallRanges DEF Accounted
      <4> QED
        BY <2>1, <2>3, <4>2, <4>3
    <3>3. n # 1
      <4>1. ASSUME n = 1 PROVE m.kind = k
        BY <1>2, <1>3, <3>1, <4>1
      <4> QED
        BY <2>1, <2>2, <2>3, <3>2, <4>1 DEF Waits
    <3>4. n - 1 \in 1 .. Len(line') /\ line'[n - 1] = line[n]
      BY <1>2, <3>1, <3>3, CallRanges
    <3> QED
      BY <3>1, <3>4
  <2>4. ASSUME call'[i].reply = "pending", ~ call'[i].crossed,
               NEW n \in 1 .. Len(line'), line'[n].kind = k
        PROVE  i <= line'[n].by /\ (line'[n].by = i => line'[n].share = call'[i].share)
    BY <1>2, <2>1, <2>2, <2>4 DEF Accounted
  <2>5. holder'[k] # Nothing /\ i <= holder'[k]
    BY <1>1, <2>1 DEF Accounted
  <2> QED
    BY <1>1, <2>1, <2>3, <2>4, <2>5 DEF Accounted
<1>14. Answers'
  BY <1>4, <1>6 DEF CallsInv, Answers
<1> QED
  BY <1>6, <1>7, <1>9, <1>10, <1>11, <1>12, <1>13, <1>14 DEF CallsInv

-----------------------------------------------------------------------------
\* The steps of one call that neither ask nor are answered.
LEMMA EndStep ==
    ASSUME CallsInv, NEW i \in Made, End(i), call[i].st # "submitted" PROVE CallsInv'
<1> DEFINE e == [Submitted(call[i].op, Nothing, Nothing) EXCEPT !.st = "ended"]
<1>1. call[i] \in CallT
  BY CallRanges
<1>2. /\ e \in CallT /\ e.op = call[i].op /\ e.st = "ended" /\ ~ e.cancelled
      /\ call' = [call EXCEPT ![i] = e] /\ UNCHANGED <<holder, line, connected>>
  BY <1>1 DEF End, Submitted, CallT
<1> HIDE DEF e
<1> QED
  BY <1>2, CallGoesOn, CallRanges

\* Nothing is asked while the Peer of an earlier download is being closed.
LEMMA CloseStep ==
    ASSUME CallsInv, NEW i \in Made, NEW share \in {Nothing} \cup Share, Close(i, share)
    PROVE  CallsInv' /\ Len(call') = Len(call)
<1> DEFINE e == [call[i] EXCEPT !.st = "closing", !.share = share]
<1>1. call[i] \in CallT
  BY CallRanges
<1>2. /\ e \in CallT /\ e.op = call[i].op /\ e.st = "closing" /\ e.from = call[i].from
      /\ e.reply = call[i].reply /\ e.op = "download" /\ call[i].st = "submitted"
      /\ \A j \in 1 .. i - 1 : call[j].st # "submitted"
      /\ call' = [call EXCEPT ![i] = e] /\ UNCHANGED <<holder, line, connected>>
  BY <1>1 DEF Close, MayStart, CallT
<1> HIDE DEF e
<1>3. Len(call') = Len(call)
  BY <1>2, CallRanges, SameLength
<1> QED
  BY <1>2, <1>3, CallGoesOn, CallRanges

LEMMA ConnectStep ==
    ASSUME CallsInv, NEW i \in Made, Offer(i) \/ OnOpen(i) \/ Run(i) PROVE CallsInv'
<1>1. call[i] \in CallT /\ (call[i].st = "offered" => call[i].op = "download" /\ call[i].reply = "result")
  BY CallRanges DEF CallsInv, Progress
<1>2. CASE Offer(i)
  <2> DEFINE e == [call[i] EXCEPT !.st = "offered"]
  <2>1. /\ e \in CallT /\ e.op = call[i].op /\ e.st = "offered" /\ e.share = call[i].share
        /\ e.from = call[i].from /\ e.reply = call[i].reply /\ e.got = call[i].got
        /\ e.crossed = call[i].crossed /\ call[i].st = "asked"
        /\ e.op = "download" /\ e.reply = "result"
        /\ call' = [call EXCEPT ![i] = e] /\ UNCHANGED <<holder, line>> /\ connected' = TRUE
    BY <1>1, <1>2 DEF Offer, CallT
  <2> HIDE DEF e
  <2> QED
    BY <2>1, CallGoesOn, CallRanges
<1>3. CASE OnOpen(i)
  <2> DEFINE e == [call[i] EXCEPT !.channels = "result"]
  <2>1. /\ e \in CallT /\ e.op = call[i].op /\ e.st = call[i].st /\ e.share = call[i].share
        /\ e.from = call[i].from /\ e.reply = call[i].reply /\ e.got = call[i].got
        /\ e.crossed = call[i].crossed /\ call[i].st = "offered"
        /\ call' = [call EXCEPT ![i] = e] /\ UNCHANGED <<holder, line, connected>>
    BY <1>1, <1>3 DEF OnOpen, CallT
  <2> HIDE DEF e
  <2> QED
    BY <2>1, CallGoesOn, CallRanges
<1>4. CASE Run(i)
  <2> DEFINE e == [call[i] EXCEPT !.st = "running"]
  <2>1. /\ e \in CallT /\ e.op = call[i].op /\ e.st = "running" /\ e.share = call[i].share
        /\ e.from = call[i].from /\ e.reply = call[i].reply /\ e.got = call[i].got
        /\ e.crossed = call[i].crossed /\ call[i].st = "offered"
        /\ e.op = "download" /\ e.reply = "result"
        /\ call' = [call EXCEPT ![i] = e] /\ UNCHANGED <<holder, line, connected>>
    BY <1>1, <1>4 DEF Run, CallT
  <2> HIDE DEF e
  <2> QED
    BY <2>1, CallGoesOn, CallRanges
<1> QED
  BY <1>2, <1>3, <1>4

LEMMA RequestCancelStep ==
    ASSUME CallsInv, NEW i \in Made, RequestCancel(i), ~ Over(i) PROVE CallsInv'
<1> DEFINE e == [call[i] EXCEPT !.cancelled = TRUE]
<1>1. call[i] \in CallT
  BY CallRanges
<1>2. /\ e \in CallT /\ e.op = call[i].op /\ e.st = call[i].st /\ e.share = call[i].share
      /\ e.from = call[i].from /\ e.reply = call[i].reply /\ e.got = call[i].got
      /\ e.crossed = call[i].crossed
      /\ call' = [call EXCEPT ![i] = e] /\ UNCHANGED <<holder, line, connected>>
  BY <1>1 DEF RequestCancel, CallT
<1>3. e.st # "ended"
  BY <1>2 DEF Over
<1> HIDE DEF e
<1> QED
  BY <1>2, <1>3, CallGoesOn, CallRanges

-----------------------------------------------------------------------------
(* The window. *)

\* Nothing is shown, or about to be, that was not.
LEMMA ShowsNoMore ==
    ASSUME Shows, AskedIsShown, UNCHANGED <<current, shown>>,
           \/ posts' = posts
           \/ \E m \in PostT : m.what # "on_manifest" /\ posts' = Append(posts, m)
           \/ posts # <<>> /\ Head(posts).what # "on_manifest" /\ posts' = Tail(posts)
    PROVE  Shows' /\ AskedIsShown'
<1>1. posts \in Seq(PostT)
  BY DEF Shows
<1>2. CASE posts' = posts
  BY <1>2 DEF Shows, AskedIsShown, LastManifest
<1>3. ASSUME NEW m \in PostT, m.what # "on_manifest", posts' = Append(posts, m)
      PROVE  Shows' /\ AskedIsShown'
  <2>1. /\ posts' \in Seq(PostT) /\ Len(posts') = Len(posts) + 1 /\ Len(posts) \in Nat
        /\ posts'[Len(posts) + 1] = m /\ \A n \in 1 .. Len(posts) : posts'[n] = posts[n]
    BY <1>1, <1>3
  <2>2. \A n \in 1 .. Len(posts') : posts'[n].what = "on_manifest" => n \in 1 .. Len(posts)
    BY <1>3, <2>1
  <2>3. \A n \in 1 .. Len(posts) : LastManifest(n)' => LastManifest(n)
    BY <2>1 DEF LastManifest
  <2>4. \A n \in 1 .. Len(posts') : LastManifest(n)' => n \in 1 .. Len(posts)
    BY <2>2 DEF LastManifest
  <2>5. Shows'
    BY <2>1, <2>2, <2>3, <2>4 DEF Shows
  <2>6. AskedIsShown'
    BY <2>1 DEF AskedIsShown
  <2> QED
    BY <2>5, <2>6
<1>4. ASSUME posts # <<>>, Head(posts).what # "on_manifest", posts' = Tail(posts)
      PROVE  Shows' /\ AskedIsShown'
  <2>1. /\ posts' \in Seq(PostT) /\ Len(posts') = Len(posts) - 1 /\ Len(posts) \in Nat
        /\ posts[1].what # "on_manifest"
        /\ \A n \in 1 .. Len(posts') : posts'[n] = posts[n + 1] /\ n + 1 \in 1 .. Len(posts)
    BY <1>1, <1>4, TailEntries
  <2>2. \A n \in 1 .. Len(posts') : LastManifest(n)' => LastManifest(n + 1)
    <3> SUFFICES ASSUME NEW n \in 1 .. Len(posts'), LastManifest(n)',
                        NEW k \in n + 1 + 1 .. Len(posts)
                 PROVE  posts[n + 1].what = "on_manifest" /\ posts[k].what # "on_manifest"
      BY <2>1 DEF LastManifest
    <3>1. k - 1 \in n + 1 .. Len(posts') /\ k - 1 \in 1 .. Len(posts') /\ (k - 1) + 1 = k
      BY <2>1
    <3> QED
      BY <2>1, <3>1 DEF LastManifest
  <2>3. Shows'
    BY <2>1, <2>2 DEF Shows
  <2>4. AskedIsShown'
    <3>1. ASSUME NEW n \in 1 .. Len(posts), posts[n].what = "on_manifest"
          PROVE  n - 1 \in 1 .. Len(posts') /\ posts'[n - 1] = posts[n]
      BY <2>1, <3>1
    <3> QED
      BY <3>1 DEF AskedIsShown
  <2> QED
    BY <2>3, <2>4
<1> QED
  BY <1>2, <1>3, <1>4

\* What the user does makes a call or cancels one, and posts nothing.
LEMMA UserStep ==
    ASSUME WindowInv, User PROVE WindowInv'
<1>1. CallsInv /\ TypeOK /\ Shows /\ AskedIsShown
  BY DEF WindowInv
<1>2. UNCHANGED <<current, posts, shown>>
  BY DEF User, Refresh, Poll, OpenSelected, StartDownload, CancelDownload, window
<1>3. Shows' /\ AskedIsShown'
  BY <1>1, <1>2, ShowsNoMore
<1>4. CASE Refresh
  <2>1. CallsInv' /\ Made' = Made \cup {Len(call')}
    BY <1>1, <1>4, SubmitStep DEF Refresh, Op
  <2> QED
    BY <1>1, <1>2, <1>3, <1>4, <2>1 DEF WindowInv, TypeOK, Refresh, window, CallsInv
<1>5. CASE Poll
  <2>1. CallsInv' /\ Made' = Made \cup {Len(call')}
    BY <1>1, <1>5, SubmitStep DEF Poll, Op
  <2> QED
    BY <1>1, <1>2, <1>3, <1>5, <2>1 DEF WindowInv, TypeOK, Poll, CallsInv
<1>6. ASSUME NEW s \in Share, OpenSelected(s) PROVE WindowInv'
  <2>1. CallsInv' /\ Made' = Made \cup {Len(call')}
    BY <1>1, <1>6, SubmitStep DEF OpenSelected, Op
  <2> QED
    BY <1>1, <1>2, <1>3, <1>6, <2>1 DEF WindowInv, TypeOK, OpenSelected, CallsInv
<1>7. CASE StartDownload
  <2>1. shown \in Entries /\ Honest(shown)
    BY <1>1, <1>7 DEF StartDownload, TypeOK, Entries, Shows
  <2>2. CallsInv' /\ Made' = Made \cup {Len(call')}
    BY <1>1, <1>7, <2>1, SubmitStep DEF StartDownload, Op
  <2> QED
    BY <1>1, <1>2, <1>3, <1>7, <2>2 DEF WindowInv, TypeOK, StartDownload, CallsInv
<1>8. CASE CancelDownload
  <2>1. download \in Made /\ ~ Over(download)
    BY <1>1, <1>8 DEF CancelDownload, InProgress, TypeOK, Over
  <2>2. PICK i \in Made : i = download /\ RequestCancel(i) /\ ~ Over(i)
    BY <1>8, <2>1 DEF CancelDownload
  <2>3. CallsInv' /\ Len(call') = Len(call)
    BY <1>1, <2>2, RequestCancelStep, CallRanges, SameLength DEF RequestCancel
  <2> QED
    BY <1>1, <1>2, <1>3, <1>8, <2>3 DEF WindowInv, TypeOK, CancelDownload, window, CallsInv, Made
<1> QED
  BY <1>4, <1>5, <1>6, <1>7, <1>8 DEF User

\* Steps of coroutines that change no widget, make nothing current, and post no entries.
LEMMA QuietStep ==
    ASSUME WindowInv, CallsInv', Len(call') = Len(call), UNCHANGED <<current, window>>,
           \/ posts' = posts
           \/ \E m \in PostT : m.what # "on_manifest" /\ posts' = Append(posts, m)
    PROVE  WindowInv'
<1>1. Shows' /\ AskedIsShown'
  BY ShowsNoMore DEF WindowInv, window
<1>2. Made' = Made
  BY DEF Made
<1> QED
  BY <1>1, <1>2 DEF WindowInv, TypeOK, window, CallsInv

LEMMA FailurePosts ==
    ASSUME NEW op \in Op, Shows
    PROVE  \/ posts \o Failure(op) = posts
           \/ \E m \in PostT : m.what # "on_manifest" /\ posts \o Failure(op) = Append(posts, m)
<1>1. posts \in Seq(PostT)
  BY DEF Shows
<1>2. CASE op = "refresh"
  BY <1>1, <1>2 DEF Failure
<1>3. ASSUME NEW m \in PostT, Failure(op) = <<m>>, m.what # "on_manifest"
      PROVE \E x \in PostT : x.what # "on_manifest" /\ posts \o Failure(op) = Append(posts, x)
  BY <1>1, <1>3
<1>4. CASE op # "refresh"
  <2>1. \E w \in {"on_error", "on_open_failed", "on_download_finished"} :
          Failure(op) = <<[what |-> w]>>
    BY <1>4 DEF Failure, Op
  <2>2. \A w \in {"on_error", "on_open_failed", "on_download_finished"} :
          [what |-> w] \in PostT /\ [what |-> w].what # "on_manifest"
    BY DEF PostT
  <2> QED
    BY <1>3, <2>1, <2>2
<1> QED
  BY <1>2, <1>4

LEMMA CoroutineStep ==
    ASSUME WindowInv, NEW i \in Made, Coroutine(i) PROVE WindowInv'
<1>1. CallsInv /\ TypeOK /\ Shows /\ AskedIsShown
  BY DEF WindowInv
<1>2. call[i] \in CallT /\ call[i].op \in Op /\ call \in Seq(CallT)
  BY <1>1, CallRanges DEF CallT
<1>3. CASE Start(i)
  <2>1. PICK share \in {Nothing} \cup Share :
          share = ShareOf(i) /\ (Close(i, share) \/ Ask(i, share))
    BY <1>1, <1>2, <1>3 DEF Start, ShareOf, TypeOK, CallT
  <2>2. ASSUME Ask(i, share), call[i].op = "open" PROVE share \in Share
    BY <1>1, <2>1, <2>2 DEF CallsInv, Progress, Over, Ask, MayStart, Closed, ShareOf
  <2>3. CallsInv' /\ Len(call') = Len(call)
    BY <1>1, <2>1, <2>2, AskStep, CloseStep
  <2> QED
    BY <1>3, <2>3, QuietStep DEF Start
<1>4. ASSUME End(i), call[i].st # "submitted" PROVE CallsInv' /\ Len(call') = Len(call)
  BY <1>1, <1>2, <1>4, EndStep, SameLength DEF End
<1>5. CASE Listed(i)
  <2>1. End(i) /\ call[i].st # "submitted" /\ ~ Over(i) /\ UNCHANGED <<current, window>>
    BY <1>5 DEF Listed, Done, Over
  <2>2. \E m \in PostT : m.what # "on_manifest" /\ posts' = Append(posts, m)
    <3>1. PICK nonempty \in BOOLEAN :
            Post(IF call[i].op = "poll" THEN [what |-> "on_data"]
                 ELSE [what |-> "on_shares", nonempty |-> nonempty])
      BY <1>5 DEF Listed
    <3>2. /\ [what |-> "on_data"] \in PostT
          /\ [what |-> "on_shares", nonempty |-> nonempty] \in PostT
      BY DEF PostT
    <3> QED
      BY <3>1, <3>2 DEF Post
  <2> QED
    BY <1>4, <2>1, <2>2, QuietStep
<1>6. CASE Opened(i)
  <2> DEFINE from == [asked |-> call[i].share, holds |-> call[i].got, crossed |-> call[i].crossed]
             m == [what |-> "on_manifest", from |-> from]
  <2>1. /\ End(i) /\ call[i].st # "submitted" /\ ~ Over(i) /\ UNCHANGED window /\ current' = call[i].share
        /\ posts' = Append(posts, m)
        /\ call[i].op = "open" /\ call[i].st = "asked" /\ call[i].reply = "result"
    BY <1>6 DEF Opened, Done, Over, Post
  <2>2. Honest(from) /\ from.asked = call[i].share
    <3>1. call[i].share \in Share
      BY <1>1, <2>1 DEF CallsInv, Progress
    <3>2. call[i].got \in Share /\ (~ call[i].crossed => call[i].got = call[i].share)
      BY <1>1, <2>1 DEF CallsInv, Answers
    <3> QED
      BY <1>2, <3>1, <3>2 DEF Honest, Entries, CallT
  <2>3. m \in PostT /\ m.what = "on_manifest" /\ m.from = from
    BY <2>2 DEF PostT, Honest
  <2> HIDE DEF m, from
  <2>4. CallsInv' /\ Made' = Made
    BY <1>4, <2>1 DEF Made
  <2>5. /\ posts' \in Seq(PostT) /\ Len(posts') = Len(posts) + 1 /\ Len(posts) \in Nat
        /\ posts'[Len(posts) + 1] = m /\ \A n \in 1 .. Len(posts) : posts'[n] = posts[n]
    BY <1>1, <2>1, <2>3 DEF Shows
  <2>6. \A n \in 1 .. Len(posts') : n \in 1 .. Len(posts) \/ n = Len(posts) + 1
    BY <2>5
  <2>7. ASSUME NEW n \in 1 .. Len(posts) PROVE ~ LastManifest(n)'
    <3>1. Len(posts) + 1 \in n + 1 .. Len(posts')
      BY <2>5
    <3> QED
      BY <2>3, <2>5, <3>1 DEF LastManifest
  <2>8. Shows'
    BY <1>1, <2>1, <2>2, <2>3, <2>5, <2>6, <2>7 DEF Shows, window
  <2>9. AskedIsShown'
    <3>1. Len(posts) + 1 \in 1 .. Len(posts')
      BY <2>5
    <3> QED
      BY <2>3, <2>5, <3>1 DEF AskedIsShown
  <2>10. current' \in {Nothing} \cup Share
    BY <1>2, <2>1 DEF CallT
  <2> QED
    BY <1>1, <2>1, <2>4, <2>8, <2>9, <2>10 DEF WindowInv, TypeOK, window, CallsInv
<1>7. CASE Failed(i)
  <2>1. End(i) /\ call[i].st # "submitted" /\ ~ Over(i) /\ UNCHANGED <<current, window>> /\ posts' = posts \o Failure(call[i].op)
    BY <1>7 DEF Failed, Raises, Over
  <2> QED
    BY <1>1, <1>2, <1>4, <2>1, FailurePosts, QuietStep
<1>8. CASE Finished(i)
  <2>1. End(i) /\ call[i].st # "submitted" /\ ~ Over(i) /\ UNCHANGED <<current, window>>
        /\ posts' = Append(posts, [what |-> "on_download_finished"])
    BY <1>8 DEF Finished, Over, Post
  <2>2. [what |-> "on_download_finished"] \in PostT
    BY DEF PostT
  <2> QED
    BY <1>4, <2>1, <2>2, QuietStep
<1>9. CASE Cancelled(i)
  <2>1. /\ End(i) /\ call[i].st # "submitted" /\ UNCHANGED <<current, window>>
        /\ posts' = posts \o Failure("download")
    BY <1>9 DEF Cancelled
  <2> QED
    BY <1>1, <1>4, <2>1, FailurePosts, QuietStep DEF Op
<1> QED
  BY <1>3, <1>5, <1>6, <1>7, <1>8, <1>9 DEF Coroutine

LEMMA OthersStep ==
    ASSUME WindowInv, Hub \/ \E i \in Made : Connect(i) PROVE WindowInv'
<1>1. CallsInv
  BY DEF WindowInv
<1>2. UNCHANGED <<current, posts, window>>
  BY DEF Hub, Connect
<1>3. CASE Hub
  BY <1>1, <1>2, <1>3, AnsweredStep, RefusedStep, QuietStep DEF Hub
<1>4. ASSUME NEW i \in Made, Connect(i) PROVE WindowInv'
  <2>1. CallsInv'
    BY <1>1, <1>4, ConnectStep DEF Connect
  <2>2. Len(call') = Len(call)
    BY <1>1, <1>4, CallRanges, SameLength DEF Connect, Offer, OnOpen, Run
  <2> QED
    BY <1>2, <2>1, <2>2, QuietStep
<1> QED
  BY <1>3, <1>4

\* The entries shown are the last ones posted, or more are on their way.
LEMMA QtStep ==
    ASSUME WindowInv, Qt PROVE WindowInv'
<1>1. /\ CallsInv /\ TypeOK /\ Shows /\ AskedIsShown /\ posts \in Seq(PostT)
  BY DEF WindowInv, Shows
<1>2. UNCHANGED <<calls, current>> /\ posts # <<>> /\ posts' = Tail(posts)
  BY DEF Qt, OnShares, OnPolled, OnManifest, OnOpenFailed, OnDownloadFinished, Handed
<1>3. CallsInv' /\ Made' = Made
  <2>1. /\ call' = call /\ holder' = holder /\ line' = line /\ Made' = Made
        /\ connected' = connected
    BY <1>2 DEF calls, Made
  <2>2. CallsTypeOK'
    BY <1>1, <2>1 DEF CallsInv, CallsTypeOK
  <2>3. Progress' /\ Answers'
    BY <1>1, <2>1 DEF CallsInv, Progress, Answers, Over
  <2>4. InOrder' /\ Holders'
    BY <1>1, <2>1 DEF CallsInv, InOrder, Holders, HasAsked
  <2>5. Lines'
    BY <1>1, <2>1 DEF CallsInv, Lines, HasAsked
  <2>6. Askers'
    BY <1>1, <2>1 DEF CallsInv, Askers, Accounted
  <2> QED
    BY <2>1, <2>2, <2>3, <2>4, <2>5, <2>6 DEF CallsInv
<1>4. CASE Head(posts).what # "on_manifest"
  <2>1. shown' = shown
    BY <1>4 DEF Qt, OnShares, OnPolled, OnManifest, OnOpenFailed, OnDownloadFinished, Handed
  <2>2. Shows' /\ AskedIsShown'
    BY <1>1, <1>2, <1>4, <2>1, ShowsNoMore
  <2>3. Head(posts).what = "on_shares" => Head(posts).nonempty \in BOOLEAN
    BY <1>1, <1>2 DEF PostT
  <2>4. TypeOK'
    BY <1>1, <1>2, <1>3, <1>4, <2>1, <2>3
       DEF TypeOK, CallsInv, Qt, OnShares, OnPolled, OnManifest, OnOpenFailed,
           OnDownloadFinished, Handed
  <2> QED
    BY <1>3, <2>2, <2>4 DEF WindowInv
<1>5. CASE Head(posts).what = "on_manifest"
  <2>1. /\ shown' = Head(posts).from /\ downloadBtn' = TRUE /\ openBtn' = TRUE
        /\ UNCHANGED <<listed, cancelBtn, download, busy>>
    BY <1>5 DEF Qt, OnShares, OnPolled, OnManifest, OnOpenFailed, OnDownloadFinished, Handed
  <2>2. /\ Head(posts) = posts[1] /\ 1 \in 1 .. Len(posts)
        /\ posts' \in Seq(PostT) /\ Len(posts') = Len(posts) - 1 /\ Len(posts) \in Nat
        /\ \A n \in 1 .. Len(posts') : posts'[n] = posts[n + 1] /\ n + 1 \in 1 .. Len(posts)
    BY <1>1, <1>2, TailEntries
  <2>3. Honest(shown')
    BY <1>1, <1>5, <2>1, <2>2 DEF Shows
  <2>4. \A n \in 1 .. Len(posts') : LastManifest(n)' => LastManifest(n + 1)
    <3>1. ASSUME NEW n \in 1 .. Len(posts'), LastManifest(n)',
                 NEW k \in n + 1 + 1 .. Len(posts)
          PROVE  posts[k].what # "on_manifest"
      <4>1. k - 1 \in n + 1 .. Len(posts') /\ k - 1 \in 1 .. Len(posts') /\ (k - 1) + 1 = k
        BY <2>2
      <4> QED
        BY <2>2, <3>1, <4>1 DEF LastManifest
    <3> QED
      BY <2>2, <3>1 DEF LastManifest
  <2>5. Shows'
    BY <1>1, <1>2, <2>2, <2>3, <2>4 DEF Shows, Honest
  <2>6. AskedIsShown'
    <3>1. CASE \E n \in 1 .. Len(posts') : posts'[n].what = "on_manifest"
      BY <3>1 DEF AskedIsShown
    <3>2. CASE ~ \E n \in 1 .. Len(posts') : posts'[n].what = "on_manifest"
      <4>1. ASSUME NEW m \in 2 .. Len(posts) PROVE posts[m].what # "on_manifest"
        <5>1. m - 1 \in 1 .. Len(posts') /\ posts'[m - 1] = posts[m]
          BY <2>2
        <5> QED
          BY <3>2, <5>1
      <4>2. LastManifest(1)
        BY <1>5, <2>2, <4>1 DEF LastManifest
      <4>3. shown'.asked = current
        BY <1>1, <2>1, <2>2, <4>2 DEF Shows
      <4>4. shown' # Nothing
        BY <2>3, CallsAssumption DEF Honest, Entries
      <4> QED
        BY <1>2, <4>3, <4>4 DEF AskedIsShown
    <3> QED
      BY <3>1, <3>2
  <2>7. TypeOK'
    BY <1>1, <1>2, <1>3, <2>1, <2>3 DEF TypeOK, CallsInv, Honest, Entries
  <2> QED
    BY <1>3, <2>5, <2>6, <2>7 DEF WindowInv
<1> QED
  BY <1>4, <1>5

LEMMA WindowNext ==
    WindowInv /\ [Next]_vars => WindowInv'
<1> SUFFICES ASSUME WindowInv, [Next]_vars PROVE WindowInv'
  OBVIOUS
<1>1. CASE UNCHANGED vars
  <2>1. UNCHANGED <<call, holder, line, connected, current, posts, window>>
    BY <1>1 DEF vars, calls
  <2>2. CallsInv'
    <3>1. CallsTypeOK' /\ Progress' /\ InOrder' /\ Answers'
      BY <2>1 DEF WindowInv, CallsInv, CallsTypeOK, Progress, InOrder, Answers, Over, Made
    <3>2. Holders' /\ Lines' /\ Askers'
      BY <2>1 DEF WindowInv, CallsInv, Holders, Lines, Askers, Accounted, HasAsked, Made
    <3> QED
      BY <3>1, <3>2 DEF CallsInv
  <2> QED
    BY <2>1, <2>2, QuietStep
<1> QED
  BY <1>1, UserStep, QtStep, OthersStep, CoroutineStep DEF Next

-----------------------------------------------------------------------------
\* The types of all variables.
THEOREM WindowTypeCorrect == Spec => []TypeOK
<1>1. WindowInv => TypeOK
  BY DEF WindowInv
<1> QED
  BY <1>1, WindowStart, WindowNext, PTL DEF Spec

\* A call of the receiver whose request was answered or refused waits for its timeout
\* only if a later call of its kind took the place of its future.
THEOREM VainWaitsReplaced == Spec => []WaitsInVainIfReplaced
<1>1. WindowInv => WaitsInVainIfReplaced
  <2> SUFFICES ASSUME WindowInv, NEW i \in Made, call[i].st = "asked", call[i].reply = "pending",
                      \A n \in 1 .. Len(line) : line[n].by # i
               PROVE  holder[KindOf(call[i].op)] > i
    BY DEF WaitsInVainIfReplaced
  <2>1. Accounted(i) /\ call[i].op \in Op /\ i \in Nat
    BY CallRanges DEF WindowInv, CallsInv, Askers, CallT
  <2>2. KindOf(call[i].op) \in Kind
    BY <2>1, KindsOfOps
  <2>3. holder[KindOf(call[i].op)] # Nothing /\ i < holder[KindOf(call[i].op)]
    BY <2>1 DEF Accounted
  <2>4. holder[KindOf(call[i].op)] \in Nat
    BY <2>2, <2>3, CallRanges DEF WindowInv
  <2> QED
    BY <2>1, <2>3, <2>4
<1> QED
  BY <1>1, WindowStart, WindowNext, PTL DEF Spec

\* What is downloaded is of the share connected to, unless an answer was taken for
\* that to a later call, or another share was opened between tick and start.
THEOREM FilesAreRight == Spec => []RightFiles
<1>1. WindowInv => RightFiles
  <2> SUFFICES ASSUME WindowInv, NEW i \in Made, call[i].st \in {"offered", "running"},
                      call[i].got # call[i].from.holds, ~ call[i].crossed,
                      ~ call[i].from.crossed
               PROVE  call[i].share # call[i].from.asked
    BY DEF RightFiles
  <2>1. call[i].op = "download" /\ call[i].reply = "result" /\ Honest(call[i].from)
    BY DEF WindowInv, CallsInv, Progress, Over
  <2>2. call[i].got = call[i].share
    BY <2>1 DEF WindowInv, CallsInv, Answers
  <2> QED
    BY <2>1, <2>2 DEF Honest
<1> QED
  BY <1>1, WindowStart, WindowNext, PTL DEF Spec

\* The entries shown are of the share the next download goes to, or those that will be
\* shown are, unless they were taken for the answer to another call (crossed).
THEOREM CurrentShown == Spec => []CurrentIsShown
<1>1. WindowInv => CurrentIsShown
  <2> SUFFICES ASSUME WindowInv PROVE CurrentIsShown
    OBVIOUS
  <2>1. ASSUME NEW entries, Honest(entries), entries.asked = current PROVE OfCurrent(entries)
    BY <2>1, CallsAssumption DEF Honest, Entries, OfCurrent
  <2>2. CASE \A n \in 1 .. Len(posts) : posts[n].what # "on_manifest"
    <3>1. CASE current = Nothing /\ shown = Nothing
      BY <2>2, <3>1 DEF CurrentIsShown, OfCurrent
    <3>2. CASE shown # Nothing /\ shown.asked = current
      BY <2>1, <2>2, <3>2 DEF CurrentIsShown, WindowInv, Shows
    <3> QED
      BY <2>2, <3>1, <3>2 DEF WindowInv, AskedIsShown
  <2>3. CASE ~ \A n \in 1 .. Len(posts) : posts[n].what # "on_manifest"
    <3>1. ASSUME NEW n \in 1 .. Len(posts), LastManifest(n) PROVE OfCurrent(posts[n].from)
      BY <2>1, <3>1 DEF LastManifest, WindowInv, Shows
    <3> QED
      BY <2>3, <3>1 DEF CurrentIsShown
  <2> QED
    BY <2>2, <2>3
<1> QED
  BY <1>1, WindowStart, WindowNext, PTL DEF Spec
=============================================================================
