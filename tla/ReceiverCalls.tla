----------------------------- MODULE ReceiverCalls -----------------------------
(***************************************************************************)
(* The calls of src/pfs/receiver/service.py to the signaling hub and the   *)
(* futures they wait on.                                                   *)
(*                                                                         *)
(* Messages of the hub name no request.  The service keeps one future per  *)
(* kind of answer, that of the last call; the hub answers one request      *)
(* after the other.  A call is a coroutine submitted to the event loop; it *)
(* can be cancelled, and gives up waiting after a while.                   *)
(***************************************************************************)
EXTENDS Integers, Sequences

CONSTANTS
    Share,     \* shares one may ask for
    MaxCalls,  \* calls made in all
    Nothing

Id   == 1 .. MaxCalls
Op   == {"refresh", "poll", "open", "download"}
Kind == {"shares", "manifest", "ready", "channels"}

ASSUME CallsAssumption ==
    /\ MaxCalls \in Nat
    /\ Nothing \notin Share \cup Id
    /\ Nothing \notin [asked : Share, holds : Share, crossed : BOOLEAN]

VARIABLES
    call,       \* the calls made: operation, progress, share, and futures
    holder,     \* Kind -> the call whose future is registered
    line,       \* requests sent whose answer has not arrived
    connected   \* the service has a Peer, of this download or an earlier one

calls == <<call, holder, line, connected>>

Made == 1 .. Len(call)

KindOf(op) ==
    CASE op \in {"refresh", "poll"} -> "shares"
      [] op = "open" -> "manifest"
      [] op = "download" -> "ready"

\* A coroutine handed to the event loop; from is the share and entries it is about.
Submitted(op, share, from) ==
    [op |-> op, st |-> "submitted", share |-> share, from |-> from, reply |-> "pending",
     channels |-> "pending", got |-> Nothing, crossed |-> FALSE, cancelled |-> FALSE]

CallsInit ==
    /\ call = <<>>
    /\ holder = [k \in Kind |-> Nothing]
    /\ line = <<>>
    /\ connected = FALSE

Submit(op, share, from) ==
    /\ Len(call) < MaxCalls
    /\ call' = Append(call, Submitted(op, share, from))
    /\ UNCHANGED <<holder, line, connected>>

\* Coroutines start in the order in which they were submitted.
MayStart(i) ==
    /\ call[i].st = "submitted"
    /\ \A j \in 1 .. i - 1 : call[j].st # "submitted"

\* open_share closes the Peer of an earlier download first.
Close(i, share) ==
    /\ MayStart(i)
    /\ call[i].op = "download" /\ connected
    /\ call' = [call EXCEPT ![i].st = "closing", ![i].share = share]
    /\ UNCHANGED <<holder, line, connected>>

\* Once the next download has started this one has been cancelled: the loop hears of a
\* cancel before it hears of what is submitted after it.
Closed(i) ==
    /\ call[i].st = "closing"
    /\ \A j \in i + 1 .. Len(call) : call[j].op = "download" => call[j].st = "submitted"

\* Mutant: a future that is not done keeps its place.
KeepsPending(k) == holder[k] # Nothing /\ call[holder[k]].st = "asked"

Keeps(k) == FALSE

\* Its futures replace those of earlier calls; it is crossed (history) if an answer
\* of the kind it waits for is still due to an earlier call.
Ask(i, share) ==
    LET kind == KindOf(call[i].op) IN
    /\ Closed(i) \/ (MayStart(i) /\ ~ (call[i].op = "download" /\ connected))
    /\ call' = [call EXCEPT ![i].st = "asked", ![i].share = share,
                            ![i].crossed = \E n \in 1 .. Len(line) : line[n].kind = kind]
    /\ holder' = [k \in Kind |->
                    IF (k = kind \/ (k = "channels" /\ kind = "ready")) /\ ~ Keeps(k)
                    THEN i ELSE holder[k]]
    /\ line' = Append(line, [kind |-> kind, by |-> i, share |-> share])
    /\ connected' = (connected /\ call[i].op # "download")

\* Mutant: one future for all kinds of answers.
WaitsAtAll(i, kind) ==
    \E k \in Kind : holder[k] = i /\ call[i].st = "asked" /\ call[i].reply = "pending"

\* The future of call i that is registered for a kind of answer is not done.
Waits(i, kind) ==
    /\ holder[kind] = i
    /\ IF kind = "channels" THEN call[i].st \in {"asked", "offered"} /\ call[i].channels = "pending"
                            ELSE call[i].st = "asked" /\ call[i].reply = "pending"

\* The answer to the first request in line; a manifest or peer_ready is of its share.
Answered ==
    /\ line # <<>>
    /\ line' = Tail(line)
    /\ call' = [i \in Made |->
                  IF Waits(i, Head(line).kind)
                  THEN [call[i] EXCEPT !.reply = "result", !.got = Head(line).share] ELSE call[i]]
    /\ UNCHANGED <<holder, connected>>

\* _fail_pending: the hub refused a request, and whatever is pending fails.
Refused ==
    /\ line # <<>>
    /\ line' = Tail(line)
    /\ call' = [i \in Made |->
                  [call[i] EXCEPT
                     !.reply = IF \E k \in Kind \ {"channels"} : Waits(i, k) THEN "error" ELSE @,
                     !.channels = IF Waits(i, "channels") THEN "error" ELSE @]]
    /\ UNCHANGED <<holder, connected>>

\* open_share makes its Peer and the offer, and waits for the channels.
Offer(i) ==
    /\ call[i].op = "download" /\ call[i].st = "asked" /\ call[i].reply = "result"
    /\ call' = [call EXCEPT ![i].st = "offered"]
    /\ connected' = TRUE
    /\ UNCHANGED <<holder, line>>

OnOpen(i) ==
    /\ call[i].st = "offered" /\ Waits(i, "channels")
    /\ call' = [call EXCEPT ![i].channels = "result"]
    /\ UNCHANGED <<holder, line, connected>>

Run(i) ==
    /\ call[i].st = "offered" /\ call[i].channels = "result"
    /\ call' = [call EXCEPT ![i].st = "running"]
    /\ UNCHANGED <<holder, line, connected>>

\* The coroutine goes on with an exception: its future has one, or the wait is over,
\* which may happen whatever has been set on the future meanwhile.
Raises(i) == call[i].st \in {"asked", "offered"}

Done(i) == call[i].op # "download" /\ call[i].st = "asked" /\ call[i].reply = "result"

End(i) ==
    /\ call' = [call EXCEPT ![i] =
                  [Submitted(call[i].op, Nothing, Nothing) EXCEPT !.st = "ended"]]
    /\ UNCHANGED <<holder, line, connected>>

\* Future.cancel in another thread; the loop is told later.
RequestCancel(i) ==
    /\ call' = [call EXCEPT ![i].cancelled = TRUE]
    /\ UNCHANGED <<holder, line, connected>>

-----------------------------------------------------------------------------
(* Properties. *)

CallsTypeOK ==
    /\ call \in Seq([op : Op, st : {"submitted", "closing", "asked", "offered", "running", "ended"},
                     share : {Nothing} \cup Share, reply : {"pending", "result", "error"},
                     channels : {"pending", "result", "error"}, got : {Nothing} \cup Share,
                     from : {Nothing} \cup [asked : Share, holds : Share, crossed : BOOLEAN],
                     crossed : BOOLEAN, cancelled : BOOLEAN])
    /\ Made \subseteq Id
    /\ holder \in [Kind -> {Nothing} \cup Made]
    /\ line \in Seq([kind : Kind \ {"channels"}, by : Made, share : {Nothing} \cup Share])
    /\ connected \in BOOLEAN

\* A call waits in vain, its request having been answered or refused, only if a
\* later call of its kind took the place of its future.
WaitsInVainIfReplaced ==
    \A i \in Made :
        /\ call[i].st = "asked" /\ call[i].reply = "pending"
        /\ \A n \in 1 .. Len(line) : line[n].by # i
        => holder[KindOf(call[i].op)] > i
=============================================================================
