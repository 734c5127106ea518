----------------------------- MODULE PeerSessions -----------------------------
(***************************************************************************)
(* The connections of one publisher, src/pfs/publisher/service.py, with    *)
(* its receive loop (net/signaling_client.py), its Peer objects            *)
(* (net/peer.py), the receivers that open its share                        *)
(* (receiver/service.py) and the list in gui/publish_tab.py.               *)
(*                                                                         *)
(* Connections are kept by the receiver's peer id, which is the same when  *)
(* it connects again.  The hub relays in order (SignalHub); a connection   *)
(* tells its end by events, each of which starts a task of its own.        *)
(***************************************************************************)
EXTENDS Integers, Sequences

CONSTANTS
    Receiver,
    MaxTries,   \* calls of open_share
    MaxStops,   \* calls of unpublish and close
    MaxFires,   \* on_close calls of one Peer: two channels and the state
    Nothing

Try == 1 .. MaxTries
PId == 1 .. MaxTries     \* Peer objects of the publisher, in the order made

ASSUME SessionsAssumption ==
    /\ MaxTries \in Nat /\ MaxStops \in Nat /\ MaxFires \in Nat \ {0}
    /\ Nothing \notin Nat \cup Receiver

VARIABLES
    stage,      \* Receiver -> where its open_share stands
    own,        \* Receiver -> the try whose Peer it holds or will make
    tries,      \* calls of open_share so far
    gone,       \* tries whose Peer the receiver has closed
    hub,        \* the hub lists the share
    inbox,      \* the hub's messages to the publisher
    listening,  \* _recv_loop runs
    busy,       \* the Peer whose handle_signal the loop awaits
    peer,       \* the Peer objects made
    table,      \* PublisherService.peers
    drops,      \* Receiver -> tasks of _drop_peer that have not started
    leaving,    \* Peers removed by _drop_peer, which awaits their close
    published,  \* PublisherService.share_id is set
    stop,       \* unpublish or close: which one runs, Peers to close, the one being closed
    stops,      \* calls of unpublish and close so far
    late,       \* history: Peers added while one of them ran
    news,       \* PublisherService._events
    shown,      \* Receiver -> how often the GUI lists it as connected
    clean       \* history: no event or close was under way when unpublish ended

receivers == <<stage, own, tries, gone>>
loop      == <<listening, busy>>
peers     == <<peer, table, late>>
ending    == <<drops, leaving>>
sharing   == <<hub, published, stop, stops>>
gui       == <<news, shown, clean>>
vars      == <<receivers, inbox, loop, peers, ending, sharing, gui>>

NotStopping == [op |-> "none", todo |-> {}, cur |-> Nothing]

Stopping == stop.op \in {"unpublish", "close"}

Init ==
    /\ stage = [r \in Receiver |-> "idle"]
    /\ own = [r \in Receiver |-> Nothing]
    /\ tries = 0 /\ gone = {}
    /\ hub = FALSE /\ inbox = <<>>
    /\ listening = TRUE /\ busy = Nothing
    /\ peer = <<>> /\ table = [r \in Receiver |-> Nothing] /\ late = {}
    /\ drops = [r \in Receiver |-> 0] /\ leaving = {}
    /\ published = FALSE /\ stop = NotStopping /\ stops = 0
    /\ news = <<>> /\ shown = [r \in Receiver |-> 0] /\ clean = TRUE

-----------------------------------------------------------------------------
(* Receivers: open_share and close. *)

Closes(r) == gone' = gone \cup ({own[r]} \ {Nothing})

\* An earlier try is over, whether its channels opened or it timed out waiting for
\* peer_ready or for them.  Its Peer is closed, then the hub is asked to connect: it
\* sends the publisher a peer_request, or answers that there is no such share.
OpenShare(r) ==
    /\ stage[r] # "left" /\ tries < MaxTries
    /\ Closes(r)
    /\ tries' = tries + 1
    /\ own' = [own EXCEPT ![r] = IF hub THEN tries' ELSE Nothing]
    /\ stage' = [stage EXCEPT ![r] = IF hub THEN "asked" ELSE "idle"]
    /\ inbox' = IF hub THEN Append(inbox, [what |-> "request", from |-> r, try |-> Nothing])
                       ELSE inbox
    /\ UNCHANGED <<loop, peers, ending, sharing, gui>>

\* peer_ready is there: a Peer, its channels and the offer.
Offer(r) ==
    /\ stage[r] = "asked"
    /\ stage' = [stage EXCEPT ![r] = "offered"]
    /\ inbox' = Append(inbox, [what |-> "offer", from |-> r, try |-> own[r]])
    /\ UNCHANGED <<own, tries, gone, loop, peers, ending, sharing, gui>>

\* A receiver that holds no Peer leaves without a trace.
Quit(r) ==
    /\ own[r] # Nothing
    /\ Closes(r)
    /\ own' = [own EXCEPT ![r] = Nothing]
    /\ stage' = [stage EXCEPT ![r] = "left"]
    /\ UNCHANGED <<tries, inbox, loop, peers, ending, sharing, gui>>

-----------------------------------------------------------------------------
(* The receive loop of the publisher, one message at a time. *)

Take == listening /\ busy = Nothing /\ inbox # <<>> /\ inbox' = Tail(inbox)

\* Mutant: the connection known is replaced.
ReplacesKnown(r) == FALSE

Known(r) == table[r] # Nothing

\* _add_peer: nothing to do for a receiver it has a connection of.
AddPeer ==
    /\ Take /\ Head(inbox).what = "request"
    /\ LET r == Head(inbox).from  p == Len(peer) + 1 IN
       IF Known(r) THEN UNCHANGED <<peers, news>>
       ELSE /\ peer' = Append(peer, [of |-> r, st |-> "new", try |-> Nothing, fires |-> 0])
            /\ table' = [table EXCEPT ![r] = p]
            /\ late' = IF Stopping THEN late \cup {p} ELSE late
            /\ news' = Append(news, [what |-> "joined", who |-> r])
    /\ UNCHANGED <<receivers, loop, ending, sharing, shown, clean>>

Ended(p) == peer[p].st \in {"closing", "closed"}

\* handle_signal of an offer: a closed connection raises, which ends the loop.
TakeOffer ==
    /\ Take /\ Head(inbox).what = "offer"
    /\ LET p == table[Head(inbox).from] IN
       IF p = Nothing THEN UNCHANGED <<loop, peer>>
       ELSE IF Ended(p) THEN listening' = FALSE /\ UNCHANGED <<busy, peer>>
       ELSE /\ busy' = p
            /\ peer' = IF peer[p].try # Nothing THEN peer
                       ELSE [peer EXCEPT ![p].try = Head(inbox).try]
            /\ UNCHANGED listening
    /\ UNCHANGED <<receivers, table, late, ending, sharing, gui>>

\* The answer is made and sent; a connection closed meanwhile may raise instead.
\* An offer that came to an older connection changes nothing of it.
Answer ==
    /\ busy # Nothing
    /\ busy' = Nothing
    /\ peer' = IF peer[busy].st = "new" THEN [peer EXCEPT ![busy].st = "answered"] ELSE peer
    /\ listening' \in {TRUE, ~ Ended(busy)}
    /\ UNCHANGED <<receivers, inbox, table, late, ending, sharing, gui>>

-----------------------------------------------------------------------------
(* Connections. *)

\* The channels open at both ends.
Open(p) ==
    /\ peer[p].st = "answered" /\ peer[p].try \notin gone
    /\ peer' = [peer EXCEPT ![p].st = "up"]
    /\ UNCHANGED <<receivers, inbox, loop, table, late, ending, sharing, gui>>

\* Mutants: an unsteady connection counts as ended; one that never opened does not.
LostWhenUnsteady(p) == peer[p].st = "up"

LostWhenOpened(p) == peer[p].st = "up" /\ peer[p].try \in gone

Lost(p) == peer[p].st \in {"answered", "up"} /\ peer[p].try \in gone

MayTell(p) == (Lost(p) \/ peer[p].st = "closing") /\ peer[p].fires < MaxFires

\* on_close: the other end is gone, or it is being closed here; a task is made.
OnClose(p) ==
    /\ MayTell(p)
    /\ peer' = [peer EXCEPT ![p].fires = @ + 1]
    /\ drops' = [drops EXCEPT ![peer[p].of] = @ + 1]
    /\ UNCHANGED <<receivers, inbox, loop, table, late, leaving, sharing, gui>>

\* Mutant: a connection that is being closed already is left to whoever closes it.
DropUnlessClosing(r) ==
    /\ drops[r] > 0
    /\ drops' = [drops EXCEPT ![r] = @ - 1]
    /\ IF table[r] = Nothing \/ peer[table[r]].st = "closing" THEN UNCHANGED <<peer, table, leaving>>
       ELSE /\ table' = [table EXCEPT ![r] = Nothing]
            /\ peer' = [peer EXCEPT ![table[r]].st = "closing"]
            /\ leaving' = leaving \cup {table[r]}
    /\ UNCHANGED <<receivers, inbox, loop, late, sharing, gui>>

\* Mutant: removed from the table, but not closed.
Forgetting(p) == UNCHANGED peer

Closing(p) == peer' = IF Ended(p) THEN peer ELSE [peer EXCEPT ![p].st = "closing"]

\* _drop_peer takes whatever connection of the receiver is known now.
DropPeer(r) ==
    /\ drops[r] > 0
    /\ drops' = [drops EXCEPT ![r] = @ - 1]
    /\ table' = [table EXCEPT ![r] = Nothing]
    /\ IF table[r] = Nothing THEN UNCHANGED <<peer, leaving>>
       ELSE Closing(table[r]) /\ leaving' = leaving \cup {table[r]}
    /\ UNCHANGED <<receivers, inbox, loop, late, sharing, gui>>

CloseReturns(p) ==
    /\ peer[p].st = "closing"
    /\ peer' = [peer EXCEPT ![p].st = "closed"]
    /\ UNCHANGED <<receivers, inbox, loop, table, late, ending, sharing, gui>>

Left(p) ==
    /\ p \in leaving /\ peer[p].st = "closed"
    /\ leaving' = leaving \ {p}
    /\ news' = Append(news, [what |-> "left", who |-> peer[p].of])
    /\ UNCHANGED <<receivers, inbox, loop, peers, drops, sharing, shown, clean>>

-----------------------------------------------------------------------------
(* publish, unpublish and close, which run one at a time, and the GUI's list. *)

\* The hub lists the share; its answer needs the loop, or publish times out.
Publish ==
    /\ ~ hub /\ ~ published /\ stop.op = "none"
    /\ hub' = TRUE
    /\ published' = listening
    /\ UNCHANGED <<receivers, inbox, loop, peers, ending, stop, stops, gui>>

Stop(op) ==
    /\ stop.op = "none" /\ stops < MaxStops
    /\ stop' = [op |-> op, cur |-> Nothing,
                todo |-> {table[r] : r \in {x \in Receiver : table[x] # Nothing}}]
    /\ stops' = stops + 1

Unpublish ==
    /\ published
    /\ Stop("unpublish")
    /\ hub' = FALSE
    /\ UNCHANGED <<receivers, inbox, loop, peers, ending, published, gui>>

Close ==
    /\ Stop("close")
    /\ UNCHANGED <<receivers, inbox, loop, peers, ending, hub, published, gui>>

CurrentClosed == Stopping /\ (stop.cur # Nothing => peer[stop.cur].st = "closed")

\* One close is awaited after the other, in the order the Peers were added.
CloseNext(p) ==
    /\ CurrentClosed
    /\ p \in stop.todo /\ \A q \in stop.todo : p <= q
    /\ Closing(p)
    /\ stop' = [stop EXCEPT !.cur = p, !.todo = @ \ {p}]
    /\ UNCHANGED <<receivers, inbox, loop, table, late, ending, hub, published, stops, gui>>

\* The tables are cleared, whatever was added to them, and the list is.
Stopped ==
    /\ stop.op = "unpublish" /\ CurrentClosed /\ stop.todo = {}
    /\ stop' = NotStopping
    /\ table' = [r \in Receiver |-> Nothing]
    /\ published' = FALSE
    /\ shown' = [r \in Receiver |-> 0]
    /\ clean' = (clean /\ news = <<>> /\ leaving = {})
    /\ UNCHANGED <<receivers, inbox, loop, peer, late, ending, hub, stops, news>>

\* The same, and the receive loop and the connection to the hub end for good.
Shut ==
    /\ stop.op = "close" /\ CurrentClosed /\ stop.todo = {}
    /\ stop' = [NotStopping EXCEPT !.op = "closed"]
    /\ table' = [r \in Receiver |-> Nothing]
    /\ hub' = FALSE /\ inbox' = <<>>
    /\ listening' = FALSE /\ busy' = Nothing
    /\ UNCHANGED <<receivers, peer, late, ending, published, stops, gui>>

\* Mutant: the list is not searched for the receiver.
OneLess(count) == count - 1

\* _remove takes the first item of that name, if there is one.
Removed(count) == IF count > 0 THEN count - 1 ELSE count

\* _watch hands an event to the list, until the window closes.
Watch ==
    /\ news # <<>> /\ stop.op \notin {"close", "closed"}
    /\ news' = Tail(news)
    /\ LET who == Head(news).who IN
       shown' = [shown EXCEPT ![who] =
                   IF Head(news).what = "joined" THEN @ + 1 ELSE Removed(@)]
    /\ UNCHANGED <<receivers, inbox, loop, peers, ending, sharing, clean>>

-----------------------------------------------------------------------------
Made == 1 .. Len(peer)

Next ==
    \/ \E r \in Receiver : OpenShare(r) \/ Offer(r) \/ Quit(r) \/ DropPeer(r)
    \/ AddPeer \/ TakeOffer \/ Answer
    \/ \E p \in Made : Open(p) \/ OnClose(p) \/ CloseReturns(p) \/ Left(p) \/ CloseNext(p)
    \/ Publish \/ Unpublish \/ Stopped \/ Close \/ Shut \/ Watch

Spec == Init /\ [][Next]_vars

Tasks ==
    \/ AddPeer \/ TakeOffer \/ Answer \/ Stopped \/ Shut
    \/ \E r \in Receiver : DropPeer(r)
    \/ \E p \in Made : CloseReturns(p) \/ Left(p) \/ CloseNext(p)

Tells == \E p \in Made : peer[p].fires = 0 /\ OnClose(p)

\* The event loop of the publisher runs as long as some task of it can go on: closing a
\* connection ends, and a connection tells its end once.  Nothing is assumed of the
\* receivers, the user or the window.
FairSpec == Spec /\ WF_vars(Tasks \/ Tells)

-----------------------------------------------------------------------------
(* Properties. *)

Message == [what : {"request", "offer"}, from : Receiver, try : {Nothing} \cup Try]
Peer == [of : Receiver, st : {"new", "answered", "up", "closing", "closed"},
         try : {Nothing} \cup Try, fires : 0 .. MaxFires]

TypeOK ==
    /\ stage \in [Receiver -> {"idle", "asked", "offered", "left"}]
    /\ own \in [Receiver -> {Nothing} \cup Try]
    /\ tries \in 0 .. MaxTries /\ gone \subseteq Try
    /\ inbox \in Seq(Message)
    /\ listening \in BOOLEAN /\ busy \in {Nothing} \cup Made
    /\ peer \in Seq(Peer) /\ Made \subseteq PId
    /\ table \in [Receiver -> {Nothing} \cup Made] /\ late \subseteq Made
    /\ drops \in [Receiver -> Nat] /\ leaving \subseteq Made
    /\ hub \in BOOLEAN /\ published \in BOOLEAN /\ stops \in 0 .. MaxStops
    /\ stop \in [op : {"none", "unpublish", "close", "closed"}, todo : SUBSET Made, cur : {Nothing} \cup Made]
    /\ news \in Seq([what : {"joined", "left"}, who : Receiver])
    /\ shown \in [Receiver -> Nat]
    /\ clean \in BOOLEAN

\* No connection serves a receiver behind the publisher's back: one that is not
\* closed is in the table, under any order of requests, reconnects and closes,
\* unless it was added while unpublish or close was closing the others.
LiveIsKnown ==
    \A p \in Made : ~ Ended(p) => table[peer[p].of] = p \/ p \in late

\* The publisher closes a connection because its other end is gone, because
\* unpublish or close does, or because a late event of an older connection of the same
\* receiver was taken for it - and for no other reason.
CutsExplained ==
    [][\A p \in Made : ~ Ended(p) /\ Ended(p)' =>
         \/ peer[p].try \in gone
         \/ stop'.cur = p
         \/ \E q \in 1 .. p - 1 : peer[q].of = peer[p].of /\ peer[q].fires > 0]_vars

\* However often a connection tells its end, and whoever reconnects meanwhile,
\* when nothing is under way the list shows each connected receiver once and
\* nobody else - as long as unpublish never ended with something under way.
ListExact ==
    clean /\ news = <<>> /\ leaving = {} /\ stop.op \notin {"close", "closed"} =>
        \A r \in Receiver : shown[r] = IF table[r] = Nothing THEN 0 ELSE 1

\* When the connection in the table has told its end, a task is there that will remove it:
\* no task before it, of this connection or an older one, has come and left it there.
ToldWillBeDropped ==
    \A r \in Receiver : table[r] # Nothing /\ peer[table[r]].fires > 0 => drops[r] > 0

\* A connection whose other end is gone does not stay in the table, however requests,
\* offers, events and closes fall together.  A Peer that no offer has reached has no
\* other end: when its receiver gives up before the offer, it stays.
GoneDoNotStay ==
    []<>(\A r \in Receiver : table[r] # Nothing => peer[table[r]].try \notin gone)

\* The receive loop ends when the connection to the hub does, which here stays up
\* until the service is closed.
KeepsListening == listening \/ stop.op = "closed"
=============================================================================
