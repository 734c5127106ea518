-------------------------- MODULE PeerSessionsProofs --------------------------
(***************************************************************************)
(* For any number of receivers and tries, however often and late ends of   *)
(* connections are told: every connection that is not closed is known to   *)
(* the publisher, none is cut without a reason, the GUI's list follows the *)
(* table, and a receiver that is gone does not stay in it unnoticed.       *)
(***************************************************************************)
EXTENDS PeerSessions, FiniteSetTheorems, SequenceTheorems, TLAPS

\* Types, without the bounds on what happens how often.
PeerT == [of : Receiver, st : {"new", "answered", "up", "closing", "closed"},
          try : {Nothing} \cup Nat, fires : Nat]
MessageT == [what : {"request", "offer"}, from : Receiver, try : {Nothing} \cup Nat]

Types ==
    /\ own \in [Receiver -> {Nothing} \cup Nat]
    /\ tries \in Nat
    /\ gone \subseteq Nat
    /\ inbox \in Seq(MessageT)
    /\ busy \in {Nothing} \cup Made
    /\ peer \in Seq(PeerT)
    /\ table \in [Receiver -> {Nothing} \cup Made]
    /\ drops \in [Receiver -> Nat]
    /\ stop \in [op : {"none", "unpublish", "close", "closed"}, todo : SUBSET Made,
                 cur : {Nothing} \cup Made]

\* Who is being closed by unpublish or close: all but those added meanwhile.
AllStopped ==
    Stopping => \A p \in Made : ~ Ended(p) => p \in late \/ p \in stop.todo

\* The connection in the table is the last one of its receiver.
LatestKnown ==
    \A r \in Receiver : table[r] # Nothing =>
        /\ peer[table[r]].of = r
        /\ \A q \in Made : peer[q].of = r => q <= table[r]

\* A task of _drop_peer comes from an event of some connection of the receiver.
DropsTold ==
    \A r \in Receiver : drops[r] > 0 => \E q \in Made : peer[q].of = r /\ peer[q].fires > 0

\* Only the end of a connection is told.
ToldWhenGone ==
    \A q \in Made : peer[q].fires > 0 /\ ~ Ended(q) => peer[q].try \in gone

SessionsInv == Types /\ LiveIsKnown /\ AllStopped /\ LatestKnown /\ DropsTold /\ ToldWhenGone

-----------------------------------------------------------------------------
LEMMA SessionsStart == Init => SessionsInv
<1> SUFFICES ASSUME Init PROVE SessionsInv
  OBVIOUS
<1>1. Made = {} /\ peer = <<>>
  BY DEF Init, Made
<1>2. Types
  BY <1>1 DEF Init, Types, NotStopping
<1> QED
  BY <1>1, <1>2, SessionsAssumption
     DEF Init, SessionsInv, LiveIsKnown, AllStopped, LatestKnown, DropsTold, ToldWhenGone,
         Stopping, NotStopping

\* Steps that make no Peer: connections only go on, and a receiver leaves the table
\* when all its connections are closed or were added while unpublish ran.
LEMMA PeersGoOn ==
    ASSUME SessionsInv, Types', late' = late, Len(peer') = Len(peer), gone \subseteq gone',
           \A p \in Made :
             /\ peer'[p].of = peer[p].of
             /\ Ended(p) => Ended(p)'
             /\ peer[p].fires > 0 => peer'[p].fires > 0
             /\ peer'[p].fires > 0 /\ ~ Ended(p)' => peer'[p].try \in gone',
           \A r \in Receiver :
             \/ table'[r] = table[r]
             \/ /\ table'[r] = Nothing
                /\ \A p \in Made : peer[p].of = r /\ ~ Ended(p)' => p \in late,
           Stopping' => \A p \in Made : ~ Ended(p)' => p \in late \/ p \in stop'.todo,
           \A r \in Receiver : drops'[r] > 0 =>
             drops[r] > 0 \/ \E q \in Made : peer[q].of = r /\ peer'[q].fires > 0
    PROVE  SessionsInv'
<1>1. Made' = Made /\ \A p \in Made : p \in Nat /\ p # Nothing /\ peer[p] \in PeerT
  BY SessionsAssumption DEF Made, SessionsInv, Types
<1>2. LiveIsKnown'
  <2> SUFFICES ASSUME NEW p \in Made, ~ Ended(p)', p \notin late
               PROVE  table'[peer[p].of] = p
    BY <1>1 DEF LiveIsKnown
  <2>1. peer[p].of \in Receiver
    BY <1>1 DEF PeerT
  <2>2. table[peer[p].of] = p
    BY DEF SessionsInv, LiveIsKnown
  <2> QED
    BY <2>1, <2>2
<1>3. AllStopped'
  BY <1>1 DEF AllStopped
<1>4. LatestKnown'
  <2> SUFFICES ASSUME NEW r \in Receiver, table'[r] # Nothing
               PROVE  /\ peer'[table'[r]].of = r
                      /\ \A q \in Made : peer'[q].of = r => q <= table'[r]
    BY <1>1 DEF LatestKnown
  <2>1. table'[r] = table[r] /\ table[r] \in Made
    BY DEF SessionsInv, Types
  <2> QED
    BY <2>1 DEF SessionsInv, LatestKnown
<1>5. DropsTold'
  BY <1>1 DEF SessionsInv, DropsTold
<1>6. ToldWhenGone'
  BY <1>1 DEF ToldWhenGone
<1> QED
  BY <1>2, <1>3, <1>4, <1>5, <1>6 DEF SessionsInv

\* Steps of receivers, and those of the publisher that touch no connection.
LEMMA PeersStay ==
    ASSUME SessionsInv, Types', UNCHANGED <<peers, drops, stop>>, gone \subseteq gone'
    PROVE  SessionsInv'
<1>1. \A p \in Made : Ended(p)' <=> Ended(p)
  BY DEF Ended, peers
<1>2. Stopping' <=> Stopping
  BY DEF Stopping
<1>3. \A p \in Made : peer[p].fires > 0 /\ ~ Ended(p) => peer[p].try \in gone
  BY DEF SessionsInv, ToldWhenGone
<1>4. Stopping => \A p \in Made : ~ Ended(p) => p \in late \/ p \in stop.todo
  BY DEF SessionsInv, AllStopped
<1> QED
  BY <1>1, <1>2, <1>3, <1>4, PeersGoOn DEF peers

\* One connection changes, and stays what it is to its receiver.
LEMMA PeerUpdate ==
    ASSUME SessionsInv, NEW p \in Made, NEW e \in PeerT, peer' = [peer EXCEPT ![p] = e]
    PROVE  /\ peer' \in Seq(PeerT) /\ Len(peer') = Len(peer) /\ Made' = Made
           /\ \A q \in Made : peer'[q] = IF q = p THEN e ELSE peer[q]
<1>1. peer \in Seq(PeerT) /\ p \in 1 .. Len(peer)
  BY DEF SessionsInv, Types, Made
<1> QED
  BY <1>1, ExceptSeq DEF Made

LEMMA OnePeer ==
    ASSUME SessionsInv, NEW p \in Made, NEW e \in PeerT, peer' = [peer EXCEPT ![p] = e],
           e.of = peer[p].of,
           Ended(p) => e.st \in {"closing", "closed"},
           peer[p].fires > 0 => e.fires > 0,
           e.fires > 0 /\ e.st \notin {"closing", "closed"} => e.try \in gone,
           inbox' \in Seq(MessageT), busy' \in {Nothing} \cup Made,
           drops' \in [Receiver -> Nat],
           \A r \in Receiver : drops'[r] > 0 => drops[r] > 0 \/ (e.of = r /\ e.fires > 0),
           UNCHANGED <<receivers, table, late, stop>>
    PROVE  SessionsInv'
<1>1. /\ peer' \in Seq(PeerT) /\ Len(peer') = Len(peer) /\ Made' = Made
      /\ \A q \in Made : peer'[q] = IF q = p THEN e ELSE peer[q]
  BY PeerUpdate
<1>2. Types'
  BY <1>1 DEF SessionsInv, Types, receivers
<1>3. \A q \in Made : /\ peer'[q].of = peer[q].of
                      /\ Ended(q) => Ended(q)'
                      /\ peer[q].fires > 0 => peer'[q].fires > 0
                      /\ peer'[q].fires > 0 /\ ~ Ended(q)' => peer'[q].try \in gone'
  BY <1>1 DEF Ended, receivers, SessionsInv, ToldWhenGone
<1>4. Stopping' => \A q \in Made : ~ Ended(q)' => q \in late \/ q \in stop'.todo
  BY <1>3 DEF Stopping, SessionsInv, AllStopped
<1>5. \A r \in Receiver : drops'[r] > 0 =>
        drops[r] > 0 \/ \E q \in Made : peer[q].of = r /\ peer'[q].fires > 0
  BY <1>1
<1> QED
  BY <1>1, <1>2, <1>3, <1>4, <1>5, PeersGoOn DEF receivers

-----------------------------------------------------------------------------
LEMMA ReceiverStep ==
    ASSUME SessionsInv, NEW r \in Receiver, OpenShare(r) \/ Offer(r) \/ Quit(r)
    PROVE  SessionsInv'
<1>1. /\ UNCHANGED <<peers, drops, stop, busy>>
      /\ Made' = Made
  BY DEF OpenShare, Offer, Quit, ending, sharing, loop, peers, Made
<1>2. /\ own' \in [Receiver -> {Nothing} \cup Nat] /\ tries' \in Nat
      /\ gone' \subseteq Nat /\ gone \subseteq gone'
  <2>1. /\ own \in [Receiver -> {Nothing} \cup Nat] /\ tries \in Nat /\ gone \subseteq Nat
        /\ {own[r]} \ {Nothing} \subseteq Nat
    BY DEF SessionsInv, Types
  <2>2. CASE OpenShare(r)
    <3>1. tries' = tries + 1 /\ own' = [own EXCEPT ![r] = IF hub THEN tries' ELSE Nothing]
      BY <2>2 DEF OpenShare
    <3>2. tries' \in Nat
      BY <2>1, <3>1
    <3>3. (IF hub THEN tries' ELSE Nothing) \in {Nothing} \cup Nat
      BY <3>2
    <3>4. gone' = gone \cup ({own[r]} \ {Nothing})
      BY <2>2 DEF OpenShare, Closes
    <3> QED
      BY <2>1, <3>1, <3>2, <3>3, <3>4
  <2>3. CASE Offer(r)
    BY <2>1, <2>3 DEF Offer
  <2>4. CASE Quit(r)
    BY <2>1, <2>4 DEF Quit, Closes
  <2> QED
    BY <2>2, <2>3, <2>4
<1>3. inbox' \in Seq(MessageT)
  <2>1. own[r] \in {Nothing} \cup Nat /\ inbox \in Seq(MessageT)
    BY DEF SessionsInv, Types
  <2>2. /\ [what |-> "request", from |-> r, try |-> Nothing] \in MessageT
        /\ [what |-> "offer", from |-> r, try |-> own[r]] \in MessageT
    BY <2>1 DEF MessageT
  <2>3. \/ inbox' = inbox
        \/ inbox' = Append(inbox, [what |-> "request", from |-> r, try |-> Nothing])
        \/ inbox' = Append(inbox, [what |-> "offer", from |-> r, try |-> own[r]])
    BY DEF OpenShare, Offer, Quit
  <2> QED
    BY <2>1, <2>2, <2>3
<1>4. Types'
  BY <1>1, <1>2, <1>3 DEF SessionsInv, Types, peers
<1> QED
  BY <1>1, <1>2, <1>4, PeersStay

LEMMA InboxTail ==
    ASSUME SessionsInv, Take
    PROVE  inbox' \in Seq(MessageT) /\ Head(inbox) \in MessageT
BY DEF SessionsInv, Types, Take

\* A new connection takes the free place of its receiver in the table.
LEMMA AddPeerStep ==
    ASSUME SessionsInv, AddPeer PROVE SessionsInv'
<1> DEFINE r == Head(inbox).from  p == Len(peer) + 1
           e == [of |-> r, st |-> "new", try |-> Nothing, fires |-> 0]
<1>1. inbox' \in Seq(MessageT) /\ r \in Receiver
  BY InboxTail DEF AddPeer, MessageT
<1>2. UNCHANGED <<receivers, loop, ending, sharing>>
  BY DEF AddPeer
<1>3. CASE Known(r)
  <2>1. UNCHANGED peers
    BY <1>3 DEF AddPeer
  <2>2. Types'
    BY <1>1, <1>2, <2>1 DEF SessionsInv, Types, receivers, loop, ending, sharing, peers, Made
  <2> QED
    BY <1>2, <2>1, <2>2, PeersStay DEF receivers, ending, sharing
<1>4. CASE ~ Known(r)
  <2>1. /\ peer' = Append(peer, e) /\ table' = [table EXCEPT ![r] = p]
        /\ late' = IF Stopping THEN late \cup {p} ELSE late
        /\ table[r] = Nothing
    BY <1>4 DEF AddPeer, Known
  <2>2. peer \in Seq(PeerT) /\ e \in PeerT
    BY <1>1 DEF SessionsInv, Types, PeerT
  <2>3. /\ peer' \in Seq(PeerT) /\ Made' = Made \cup {p} /\ p \notin Made
        /\ peer'[p] = e /\ \A q \in Made : peer'[q] = peer[q] /\ q \in Nat /\ q < p
    BY <2>1, <2>2 DEF Made
  <2>4. /\ \A q \in Made : Ended(q)' <=> Ended(q)
        /\ Stopping' <=> Stopping
        /\ p \in Nat /\ p # Nothing
    <3>1. \A q \in Made : Ended(q)' <=> Ended(q)
      BY <2>3 DEF Ended
    <3>2. Stopping' <=> Stopping
      BY <1>2 DEF Stopping, sharing
    <3>3. p \in Nat
      BY <2>2
    <3> QED
      BY <3>1, <3>2, <3>3, SessionsAssumption
  <2>5. Types'
    BY <1>1, <1>2, <2>1, <2>3 DEF SessionsInv, Types, receivers, loop, ending, sharing
  <2> HIDE DEF e, p, r
  <2>6. LiveIsKnown'
    <3> SUFFICES ASSUME NEW q \in Made', ~ Ended(q)', q \notin late'
                 PROVE  table'[peer'[q].of] = q
      BY DEF LiveIsKnown
    <3>1. CASE q = p
      <4>1. table \in [Receiver -> {Nothing} \cup Made] /\ peer'[p].of = r
        BY <2>3 DEF SessionsInv, Types, e
      <4> QED
        BY <1>1, <2>1, <3>1, <4>1
    <3>2. CASE q \in Made
      <4>1. table[peer[q].of] = q /\ peer'[q] = peer[q] /\ peer[q] \in PeerT
        BY <2>1, <2>2, <2>3, <2>4, <3>2 DEF SessionsInv, LiveIsKnown, Made
      <4>2. q # Nothing
        BY <2>3, <3>2, SessionsAssumption
      <4>3. peer[q].of # r
        BY <2>1, <4>1, <4>2
      <4> QED
        BY <2>1, <4>1, <4>3 DEF PeerT, SessionsInv, Types
    <3> QED
      BY <2>3, <3>1, <3>2
  <2>7. AllStopped'
    BY <1>2, <2>1, <2>3, <2>4 DEF SessionsInv, AllStopped, sharing
  <2>8. LatestKnown'
    <3> SUFFICES ASSUME NEW x \in Receiver, table'[x] # Nothing
                 PROVE  /\ peer'[table'[x]].of = x
                        /\ \A q \in Made' : peer'[q].of = x => q <= table'[x]
      BY DEF LatestKnown
    <3>1. CASE x = r
      <4>1. table'[x] = p
        BY <1>1, <2>1, <3>1 DEF SessionsInv, Types
      <4> QED
        BY <2>3, <2>4, <3>1, <4>1 DEF e
    <3>2. CASE x # r
      <4>1. table'[x] = table[x] /\ table[x] \in Made
        BY <2>1, <3>2 DEF SessionsInv, Types
      <4> QED
        BY <2>3, <3>2, <4>1 DEF SessionsInv, LatestKnown, e
    <3> QED
      BY <3>1, <3>2
  <2>9. DropsTold'
    BY <1>2, <2>3 DEF SessionsInv, DropsTold, ending
  <2>10. ToldWhenGone'
    BY <1>2, <2>3, <2>4 DEF SessionsInv, ToldWhenGone, receivers, e
  <2> QED
    BY <2>5, <2>6, <2>7, <2>8, <2>9, <2>10 DEF SessionsInv
<1> QED
  BY <1>3, <1>4

-----------------------------------------------------------------------------
LEMMA TakeOfferStep ==
    ASSUME SessionsInv, TakeOffer PROVE SessionsInv'
<1> DEFINE p == table[Head(inbox).from]
<1>1. /\ inbox' \in Seq(MessageT) /\ Head(inbox).from \in Receiver
      /\ Head(inbox).try \in {Nothing} \cup Nat
  BY InboxTail DEF TakeOffer, MessageT
<1>2. /\ p \in {Nothing} \cup Made /\ drops \in [Receiver -> Nat]
      /\ busy \in {Nothing} \cup Made /\ peer \in Seq(PeerT)
  BY <1>1 DEF SessionsInv, Types
<1>3. UNCHANGED <<receivers, table, late, drops, stop>>
  BY DEF TakeOffer, ending, sharing
<1>4. CASE peer' = peer /\ busy' \in {Nothing} \cup Made
  <2>1. Types'
    BY <1>1, <1>3, <1>4 DEF SessionsInv, Types, receivers, Made
  <2> QED
    BY <1>3, <1>4, <2>1, PeersStay DEF peers, receivers
<1>5. CASE /\ p \in Made /\ busy' = p /\ ~ Ended(p) /\ peer[p].try = Nothing
           /\ peer' = [peer EXCEPT ![p].try = Head(inbox).try]
  <2> DEFINE e == [peer[p] EXCEPT !.try = Head(inbox).try]
  <2>1. peer[p] \in PeerT
    BY <1>2, <1>5 DEF Made
  <2>2. /\ e \in PeerT /\ e.of = peer[p].of /\ e.fires = peer[p].fires /\ e.st = peer[p].st
        /\ peer' = [peer EXCEPT ![p] = e]
    BY <1>1, <1>5, <2>1 DEF PeerT
  <2>3. peer[p].fires = 0
    <3>1. Nothing \notin gone
      BY SessionsAssumption DEF SessionsInv, Types
    <3> QED
      BY <1>5, <2>1, <3>1 DEF PeerT, SessionsInv, ToldWhenGone
  <2>4. ~ Ended(p) /\ p \in Made /\ e.fires = 0 /\ busy' \in {Nothing} \cup Made
    BY <1>5, <2>2, <2>3
  <2>5. drops' \in [Receiver -> Nat] /\ \A r \in Receiver : drops'[r] > 0 => drops[r] > 0
    BY <1>2, <1>3
  <2> HIDE DEF e, p
  <2> QED
    <3>1. Ended(p) => e.st \in {"closing", "closed"}
      BY <2>4
    <3>2. /\ peer[p].fires > 0 => e.fires > 0
          /\ e.fires > 0 /\ e.st \notin {"closing", "closed"} => e.try \in gone
      BY <2>3, <2>4
    <3> QED
      BY <1>1, <1>3, <2>2, <2>4, <2>5, <3>1, <3>2, OnePeer
<1>6. \/ peer' = peer /\ (busy' = busy \/ busy' = p)
      \/ /\ p # Nothing /\ busy' = p /\ ~ Ended(p) /\ peer[p].try = Nothing
         /\ peer' = [peer EXCEPT ![p].try = Head(inbox).try]
  <2> HIDE DEF p
  <2>1. CASE p = Nothing
    BY <2>1 DEF TakeOffer, p, loop
  <2>2. CASE p # Nothing /\ Ended(p)
    BY <2>2 DEF TakeOffer, p
  <2>3. CASE p # Nothing /\ ~ Ended(p)
    BY <2>3 DEF TakeOffer, p
  <2> QED
    BY <2>1, <2>2, <2>3
<1> QED
  BY <1>2, <1>4, <1>5, <1>6

LEMMA AnswerStep ==
    ASSUME SessionsInv, Answer PROVE SessionsInv'
<1>1. /\ UNCHANGED <<receivers, inbox, table, late, drops, stop>> /\ busy' = Nothing
      /\ busy # Nothing
  BY DEF Answer, ending, sharing
<1>2. /\ busy \in Made /\ inbox \in Seq(MessageT) /\ peer \in Seq(PeerT)
      /\ drops \in [Receiver -> Nat]
  BY <1>1 DEF SessionsInv, Types
<1>3. CASE peer[busy].st = "new"
  <2> DEFINE e == [peer[busy] EXCEPT !.st = "answered"]
  <2>1. peer[busy] \in PeerT
    BY <1>2 DEF Made
  <2>2. /\ e \in PeerT /\ e.of = peer[busy].of /\ e.fires = peer[busy].fires
        /\ e.try = peer[busy].try /\ peer' = [peer EXCEPT ![busy] = e]
    BY <1>3, <2>1 DEF Answer, PeerT
  <2>3. e.fires > 0 => e.try \in gone
    BY <1>2, <1>3, <2>2 DEF SessionsInv, ToldWhenGone, Ended
  <2>4. ~ Ended(busy)
    BY <1>3 DEF Ended
  <2> HIDE DEF e
  <2> QED
    BY <1>1, <1>2, <2>2, <2>3, <2>4, OnePeer
<1>4. CASE peer[busy].st # "new"
  <2>1. peer' = peer
    BY <1>4 DEF Answer
  <2>2. Types'
    BY <1>1, <2>1 DEF SessionsInv, Types, receivers, Made
  <2> QED
    BY <1>1, <2>1, <2>2, PeersStay DEF peers, receivers
<1> QED
  BY <1>3, <1>4

LEMMA OpenStep ==
    ASSUME SessionsInv, NEW p \in Made, Open(p) PROVE SessionsInv'
<1> DEFINE e == [peer[p] EXCEPT !.st = "up"]
<1>1. /\ UNCHANGED <<receivers, inbox, busy, table, late, drops, stop>>
      /\ inbox \in Seq(MessageT) /\ drops \in [Receiver -> Nat] /\ busy \in {Nothing} \cup Made
      /\ peer[p] \in PeerT
  BY DEF Open, ending, sharing, loop, SessionsInv, Types, Made
<1>2. /\ e \in PeerT /\ e.of = peer[p].of /\ e.fires = peer[p].fires
      /\ e.try = peer[p].try /\ peer' = [peer EXCEPT ![p] = e]
  BY <1>1 DEF Open, PeerT
<1>3. ~ Ended(p)
  BY DEF Open, Ended
<1>4. e.fires > 0 => e.try \in gone
  BY <1>2, <1>3 DEF SessionsInv, ToldWhenGone
<1> HIDE DEF e
<1> QED
  BY <1>1, <1>2, <1>3, <1>4, OnePeer

LEMMA OnCloseStep ==
    ASSUME SessionsInv, NEW p \in Made, OnClose(p) PROVE SessionsInv'
<1> DEFINE e == [peer[p] EXCEPT !.fires = @ + 1]
<1>1. /\ UNCHANGED <<receivers, inbox, busy, table, late, stop>>
      /\ inbox \in Seq(MessageT) /\ drops \in [Receiver -> Nat] /\ busy \in {Nothing} \cup Made
      /\ peer[p] \in PeerT
  BY DEF OnClose, ending, sharing, loop, SessionsInv, Types, Made
<1>2. /\ e \in PeerT /\ e.of = peer[p].of /\ e.fires > 0 /\ e.st = peer[p].st
      /\ e.try = peer[p].try /\ peer' = [peer EXCEPT ![p] = e]
  BY <1>1 DEF OnClose, MayTell, PeerT
<1>3. e.st \notin {"closing", "closed"} => e.try \in gone
  BY <1>2 DEF OnClose, MayTell, Lost
<1>4. /\ drops' \in [Receiver -> Nat]
      /\ \A r \in Receiver : drops'[r] > 0 => drops[r] > 0 \/ e.of = r
  <2>1. peer[p].of \in Receiver
    BY <1>1 DEF PeerT
  <2>2. drops' = [drops EXCEPT ![peer[p].of] = @ + 1]
    BY DEF OnClose
  <2> QED
    BY <1>1, <1>2, <2>1, <2>2
<1> HIDE DEF e
<1> QED
  BY <1>1, <1>2, <1>3, <1>4, OnePeer DEF Ended

LEMMA CloseReturnsStep ==
    ASSUME SessionsInv, NEW p \in Made, CloseReturns(p) PROVE SessionsInv'
<1> DEFINE e == [peer[p] EXCEPT !.st = "closed"]
<1>1. /\ UNCHANGED <<receivers, inbox, busy, table, late, drops, stop>>
      /\ inbox \in Seq(MessageT) /\ drops \in [Receiver -> Nat] /\ busy \in {Nothing} \cup Made
      /\ peer[p] \in PeerT
  BY DEF CloseReturns, ending, sharing, loop, SessionsInv, Types, Made
<1>2. /\ e \in PeerT /\ e.of = peer[p].of /\ e.fires = peer[p].fires
      /\ e.st = "closed" /\ peer' = [peer EXCEPT ![p] = e]
  BY <1>1 DEF CloseReturns, PeerT
<1> HIDE DEF e
<1> QED
  BY <1>1, <1>2, OnePeer

-----------------------------------------------------------------------------
\* Closing a connection ends it, and changes nothing else of any.
LEMMA ClosingEnds ==
    ASSUME SessionsInv, NEW p \in Made, Closing(p)
    PROVE  /\ peer' \in Seq(PeerT) /\ Len(peer') = Len(peer) /\ Made' = Made
           /\ Ended(p)'
           /\ \A q \in Made : /\ peer'[q].of = peer[q].of /\ peer'[q].fires = peer[q].fires
                              /\ peer'[q].try = peer[q].try
                              /\ Ended(q) => Ended(q)'
                              /\ q # p => (Ended(q)' => Ended(q))
<1>1. peer \in Seq(PeerT) /\ peer[p] \in PeerT
  BY DEF SessionsInv, Types, Made
<1>2. CASE Ended(p)
  BY <1>1, <1>2 DEF Closing, Ended, Made
<1>3. CASE ~ Ended(p)
  <2> DEFINE e == [peer[p] EXCEPT !.st = "closing"]
  <2>1. /\ e \in PeerT /\ e.of = peer[p].of /\ e.fires = peer[p].fires /\ e.try = peer[p].try
        /\ e.st = "closing" /\ peer' = [peer EXCEPT ![p] = e]
    BY <1>1, <1>3 DEF Closing, PeerT
  <2> HIDE DEF e
  <2>2. /\ peer' \in Seq(PeerT) /\ Len(peer') = Len(peer) /\ Made' = Made
        /\ \A q \in Made : peer'[q] = IF q = p THEN e ELSE peer[q]
    BY <2>1, PeerUpdate
  <2> QED
    BY <2>1, <2>2 DEF Ended
<1> QED
  BY <1>2, <1>3

LEMMA DropPeerStep ==
    ASSUME SessionsInv, NEW r \in Receiver, DropPeer(r) PROVE SessionsInv'
<1>1. /\ UNCHANGED <<receivers, inbox, loop, late, stop>>
      /\ table' = [table EXCEPT ![r] = Nothing] /\ drops' = [drops EXCEPT ![r] = @ - 1]
      /\ drops[r] > 0
  BY DEF DropPeer, sharing
<1>2. /\ table \in [Receiver -> {Nothing} \cup Made] /\ drops \in [Receiver -> Nat]
      /\ peer \in Seq(PeerT) /\ inbox \in Seq(MessageT)
  BY DEF SessionsInv, Types
<1>3. /\ drops' \in [Receiver -> Nat]
      /\ \A x \in Receiver : drops'[x] > 0 => drops[x] > 0
  BY <1>1, <1>2
<1>4. \A q \in Made : q # Nothing /\ (peer[q].of = r /\ ~ Ended(q) => table[r] = q \/ q \in late)
  BY <1>2, SessionsAssumption DEF Made, SessionsInv, LiveIsKnown
<1>5. /\ peer' \in Seq(PeerT) /\ Len(peer') = Len(peer) /\ Made' = Made
      /\ \A q \in Made : /\ peer'[q].of = peer[q].of /\ peer'[q].fires = peer[q].fires
                         /\ peer'[q].try = peer[q].try
                         /\ Ended(q) => Ended(q)'
                         /\ peer[q].of = r /\ ~ Ended(q)' => q \in late
  <2>1. CASE table[r] = Nothing
    <3>1. peer' = peer
      BY <2>1 DEF DropPeer
    <3> QED
      BY <1>2, <1>4, <2>1, <3>1 DEF Made, Ended
  <2>2. CASE table[r] # Nothing
    <3>1. table[r] \in Made /\ Closing(table[r])
      BY <1>2, <2>2 DEF DropPeer
    <3>2. PICK p \in Made : p = table[r] /\ Closing(p)
      BY <3>1
    <3> QED
      BY <1>4, <3>2, ClosingEnds
  <2> QED
    BY <2>1, <2>2
<1>6. Types'
  BY <1>1, <1>2, <1>3, <1>5 DEF SessionsInv, Types, receivers, loop
<1>7. \A q \in Made : peer'[q].fires > 0 /\ ~ Ended(q)' => peer'[q].try \in gone'
  BY <1>1, <1>5 DEF SessionsInv, ToldWhenGone, receivers
<1>8. Stopping' => \A q \in Made : ~ Ended(q)' => q \in late \/ q \in stop'.todo
  BY <1>1, <1>5 DEF SessionsInv, AllStopped, Stopping
<1>9. \A x \in Receiver : \/ table'[x] = table[x]
                          \/ /\ table'[x] = Nothing
                             /\ \A q \in Made : peer[q].of = x /\ ~ Ended(q)' => q \in late
  BY <1>1, <1>2, <1>5
<1> QED
  BY <1>1, <1>3, <1>5, <1>6, <1>7, <1>8, <1>9, PeersGoOn DEF receivers

LEMMA LeftStep ==
    ASSUME SessionsInv, NEW p \in Made, Left(p) PROVE SessionsInv'
<1>1. UNCHANGED <<receivers, inbox, loop, peers, drops, sharing>>
  BY DEF Left
<1>2. Types'
  BY <1>1 DEF SessionsInv, Types, receivers, loop, peers, sharing, Made
<1> QED
  BY <1>1, <1>2, PeersStay DEF receivers, sharing

LEMMA ListSteps ==
    ASSUME SessionsInv, Publish \/ Watch PROVE SessionsInv'
<1>1. UNCHANGED <<receivers, inbox, loop, peers, ending, stop>>
  BY DEF Publish, Watch, sharing
<1>2. Types'
  BY <1>1 DEF SessionsInv, Types, receivers, loop, peers, ending, Made
<1> QED
  BY <1>1, <1>2, PeersStay DEF receivers, ending

-----------------------------------------------------------------------------
\* Who is live when unpublish or close begins is in the table, or was added
\* while an earlier one ran.
LEMMA StopStep ==
    ASSUME SessionsInv, Unpublish \/ Close PROVE SessionsInv'
<1>1. UNCHANGED <<receivers, inbox, loop, peers, ending>>
  BY DEF Unpublish, Close
<1>2. PICK op \in {"unpublish", "close"} : Stop(op)
  BY DEF Unpublish, Close
<1>3. /\ table \in [Receiver -> {Nothing} \cup Made] /\ peer \in Seq(PeerT)
  BY DEF SessionsInv, Types
<1>4. stop' = [op |-> op, cur |-> Nothing,
               todo |-> {table[r] : r \in {x \in Receiver : table[x] # Nothing}}]
  BY <1>2 DEF Stop
<1>5. {table[r] : r \in {x \in Receiver : table[x] # Nothing}} \subseteq Made
  BY <1>3
<1>6. Types'
  BY <1>1, <1>4, <1>5 DEF SessionsInv, Types, receivers, loop, peers, ending, Made
<1>7. ASSUME NEW p \in Made, ~ Ended(p), p \notin late PROVE p \in stop'.todo
  <2>1. peer[p].of \in Receiver /\ p # Nothing
    <3>1. p \in Nat /\ peer[p] \in PeerT
      BY <1>3 DEF Made
    <3> QED
      BY <3>1, SessionsAssumption DEF PeerT
  <2>2. table[peer[p].of] = p
    BY <1>7 DEF SessionsInv, LiveIsKnown
  <2> QED
    BY <1>4, <2>1, <2>2
<1>8. \A p \in Made : Ended(p)' <=> Ended(p)
  BY <1>1 DEF Ended, peers
<1> QED
  BY <1>1, <1>6, <1>7, <1>8, PeersGoOn DEF peers, receivers, ending, SessionsInv, ToldWhenGone

LEMMA CloseNextStep ==
    ASSUME SessionsInv, NEW p \in Made, CloseNext(p) PROVE SessionsInv'
<1>1. /\ UNCHANGED <<receivers, inbox, loop, table, late, ending>>
      /\ Closing(p) /\ stop' = [stop EXCEPT !.cur = p, !.todo = @ \ {p}] /\ Stopping
  BY DEF CloseNext, CurrentClosed
<1>2. /\ peer' \in Seq(PeerT) /\ Len(peer') = Len(peer) /\ Made' = Made
      /\ Ended(p)'
      /\ \A q \in Made : /\ peer'[q].of = peer[q].of /\ peer'[q].fires = peer[q].fires
                         /\ peer'[q].try = peer[q].try
                         /\ Ended(q) => Ended(q)'
                         /\ q # p => (Ended(q)' => Ended(q))
  BY <1>1, ClosingEnds
<1>3. /\ stop' \in [op : {"none", "unpublish", "close", "closed"}, todo : SUBSET Made,
                    cur : {Nothing} \cup Made]
      /\ stop'.todo = stop.todo \ {p}
  BY <1>1 DEF SessionsInv, Types
<1>4. Types'
  BY <1>1, <1>2, <1>3 DEF SessionsInv, Types, receivers, loop, ending
<1>5. \A q \in Made : ~ Ended(q)' => q \in late \/ q \in stop'.todo
  BY <1>1, <1>2, <1>3 DEF SessionsInv, AllStopped
<1>6. \A q \in Made : peer'[q].fires > 0 /\ ~ Ended(q)' => peer'[q].try \in gone'
  BY <1>1, <1>2 DEF SessionsInv, ToldWhenGone, receivers
<1> QED
  BY <1>1, <1>2, <1>4, <1>5, <1>6, PeersGoOn DEF receivers, ending

\* The table is cleared when all that were in it have ended.
LEMMA StoppedStep ==
    ASSUME SessionsInv, Stopped \/ Shut PROVE SessionsInv'
<1>1. /\ UNCHANGED <<receivers, peer, late, ending>> /\ Stopping /\ stop.todo = {}
      /\ table' = [r \in Receiver |-> Nothing]
  BY DEF Stopped, Shut, Stopping
<1>2. /\ stop' = NotStopping \/ stop' = [NotStopping EXCEPT !.op = "closed"]
      /\ inbox' = inbox \/ inbox' = <<>>
      /\ busy' = busy \/ busy' = Nothing
  BY DEF Stopped, Shut, loop
<1>3. Types'
  <2>1. /\ Types /\ Made' = Made
        /\ UNCHANGED <<own, tries, gone, peer, drops>>
    BY <1>1 DEF SessionsInv, receivers, ending, Made
  <2>2. table' \in [Receiver -> {Nothing} \cup Made] /\ busy' \in {Nothing} \cup Made
    BY <1>1, <1>2, <2>1 DEF Types
  <2>3. inbox' \in Seq(MessageT)
    <3>1. inbox \in Seq(MessageT) /\ <<>> \in Seq(MessageT)
      BY <2>1 DEF Types
    <3>2. inbox' = inbox \/ inbox' = <<>>
      BY <1>2
    <3> QED
      BY <3>1, <3>2
  <2>4. stop' \in [op : {"none", "unpublish", "close", "closed"}, todo : SUBSET Made,
                   cur : {Nothing} \cup Made]
    BY <1>2 DEF NotStopping
  <2> QED
    BY <2>1, <2>2, <2>3, <2>4 DEF Types
<1>4. \A q \in Made : (Ended(q)' <=> Ended(q)) /\ (~ Ended(q) => q \in late)
  BY <1>1 DEF SessionsInv, AllStopped, Ended
<1>5. ~ Stopping'
  BY <1>2 DEF Stopping, NotStopping
<1>6. \A q \in Made : peer'[q].fires > 0 /\ ~ Ended(q)' => peer'[q].try \in gone'
  BY <1>1, <1>4 DEF SessionsInv, ToldWhenGone, receivers
<1> QED
  BY <1>1, <1>3, <1>4, <1>5, <1>6, PeersGoOn DEF receivers, ending

LEMMA SessionsNext ==
    SessionsInv /\ [Next]_vars => SessionsInv'
<1> SUFFICES ASSUME SessionsInv, [Next]_vars PROVE SessionsInv'
  OBVIOUS
<1>1. CASE UNCHANGED vars
  <2>1. UNCHANGED <<receivers, inbox, loop, peers, ending, stop>>
    BY <1>1 DEF vars, sharing
  <2>2. Types'
    BY <2>1 DEF SessionsInv, Types, receivers, loop, peers, ending, Made
  <2> QED
    BY <2>1, <2>2, PeersStay DEF receivers, ending
<1>2. CASE Next
  BY <1>2, ReceiverStep, DropPeerStep, AddPeerStep, TakeOfferStep, AnswerStep, OpenStep,
     OnCloseStep, CloseReturnsStep, LeftStep, CloseNextStep, ListSteps, StopStep, StoppedStep
     DEF Next
<1> QED
  BY <1>1, <1>2

-----------------------------------------------------------------------------
\* Whatever is requested, told and closed in whatever order: a connection of the
\* publisher that is not closed is the one its table knows for that receiver, unless
\* it was added while unpublish or close was closing the others.
THEOREM LiveConnectionsKnown == Spec => []LiveIsKnown
<1>1. SessionsInv => LiveIsKnown
  BY DEF SessionsInv
<1> QED
  BY <1>1, SessionsStart, SessionsNext, PTL DEF Spec

\* A step that adds no connection and ends none but one with a reason.
LEMMA CutsOne ==
    ASSUME SessionsInv, [Next]_vars, NEW p \in Made, ~ Ended(p), Ended(p)'
    PROVE  \/ peer[p].try \in gone
           \/ stop'.cur = p
           \/ \E q \in 1 .. p - 1 : peer[q].of = peer[p].of /\ peer[q].fires > 0
<1>0. peer \in Seq(PeerT) /\ p \in Nat /\ peer[p] \in PeerT
  BY DEF SessionsInv, Types, Made
<1>1. ASSUME NEW r \in Receiver, DropPeer(r)
      PROVE  \/ peer[p].try \in gone
             \/ \E q \in 1 .. p - 1 : peer[q].of = peer[p].of /\ peer[q].fires > 0
  <2>1. table[r] # Nothing
    BY <1>1 DEF DropPeer, Ended
  <2>2. table[r] \in Made /\ Closing(table[r])
    BY <1>1, <2>1 DEF DropPeer, SessionsInv, Types
  <2>3. PICK k \in Made : k = table[r] /\ Closing(k)
    BY <2>2
  <2>4. p = k
    BY <2>3, ClosingEnds
  <2>5. peer[p].of = r /\ \A q \in Made : peer[q].of = r => q <= p
    BY <2>1, <2>3, <2>4 DEF SessionsInv, LatestKnown
  <2>6. PICK q \in Made : peer[q].of = r /\ peer[q].fires > 0
    BY <1>1 DEF DropPeer, SessionsInv, DropsTold
  <2>7. CASE q = p
    BY <2>6, <2>7 DEF SessionsInv, ToldWhenGone
  <2>8. CASE q # p
    <3>1. q \in 1 .. p - 1
      BY <1>0, <2>5, <2>6, <2>8 DEF Made
    <3> QED
      BY <2>5, <2>6, <3>1
  <2> QED
    BY <2>7, <2>8
<1>2. ASSUME NEW k \in Made, CloseNext(k) PROVE stop'.cur = p
  <2>1. Closing(k) /\ stop' = [stop EXCEPT !.cur = k, !.todo = @ \ {k}]
    BY <1>2 DEF CloseNext
  <2>2. p = k
    BY <2>1, ClosingEnds
  <2> QED
    BY <2>1, <2>2 DEF SessionsInv, Types
<1>3. ASSUME NEW k \in Made, NEW e \in PeerT, peer' = [peer EXCEPT ![k] = e],
             Ended(k) \/ e.st \notin {"closing", "closed"}
      PROVE  FALSE
  <2>1. \A q \in Made : peer'[q] = IF q = k THEN e ELSE peer[q]
    BY <1>3, PeerUpdate
  <2> QED
    BY <1>3, <2>1 DEF Ended
<1>4. ASSUME AddPeer PROVE FALSE
  <2>1. peer' = peer \/ \E e : peer' = Append(peer, e)
    BY <1>4 DEF AddPeer, peers
  <2>2. peer'[p] = peer[p]
    BY <1>0, <2>1 DEF Made
  <2> QED
    BY <2>2 DEF Ended
<1>5. ASSUME TakeOffer PROVE FALSE
  <2>1. Head(inbox).try \in {Nothing} \cup Nat /\ Head(inbox).from \in Receiver
    BY <1>5, InboxTail DEF TakeOffer, MessageT
  <2>2. peer' # peer
    BY DEF Ended
  <2>3. PICK k \in Made : /\ ~ Ended(k)
                          /\ peer' = [peer EXCEPT ![k].try = Head(inbox).try]
    BY <1>5, <2>1, <2>2 DEF TakeOffer, SessionsInv, Types
  <2>4. peer[k] \in PeerT
    BY <1>0 DEF Made
  <2> DEFINE e == [peer[k] EXCEPT !.try = Head(inbox).try]
  <2>5. e \in PeerT /\ e.st = peer[k].st /\ peer' = [peer EXCEPT ![k] = e]
    BY <2>1, <2>3, <2>4 DEF PeerT
  <2> HIDE DEF e
  <2> QED
    BY <1>3, <2>3, <2>5 DEF Ended
<1>6. ASSUME Answer PROVE FALSE
  <2>1. busy \in Made
    BY <1>6 DEF Answer, SessionsInv, Types
  <2>2. peer' # peer
    BY DEF Ended
  <2>3. PICK k \in Made : peer' = [peer EXCEPT ![k].st = "answered"]
    BY <1>6, <2>1, <2>2 DEF Answer
  <2>4. peer[k] \in PeerT
    BY <1>0 DEF Made
  <2> DEFINE e == [peer[k] EXCEPT !.st = "answered"]
  <2>5. e \in PeerT /\ e.st = "answered" /\ peer' = [peer EXCEPT ![k] = e]
    BY <2>3, <2>4 DEF PeerT
  <2> HIDE DEF e
  <2> QED
    BY <1>3, <2>5
<1>7. ASSUME NEW k \in Made, Open(k) PROVE FALSE
  <2> DEFINE e == [peer[k] EXCEPT !.st = "up"]
  <2>1. peer[k] \in PeerT
    BY <1>0 DEF Made
  <2>2. e \in PeerT /\ e.st = "up" /\ peer' = [peer EXCEPT ![k] = e]
    BY <1>7, <2>1 DEF Open, PeerT
  <2> HIDE DEF e
  <2> QED
    BY <1>3, <2>2
<1>8. ASSUME NEW k \in Made, OnClose(k) PROVE FALSE
  <2> DEFINE e == [peer[k] EXCEPT !.fires = @ + 1]
  <2>1. peer[k] \in PeerT
    BY <1>0 DEF Made
  <2>2. e \in PeerT /\ e.st = peer[k].st /\ peer' = [peer EXCEPT ![k] = e]
    BY <1>8, <2>1 DEF OnClose, PeerT
  <2> HIDE DEF e
  <2> QED
    BY <1>3, <2>2 DEF Ended
<1>9. ASSUME NEW k \in Made, CloseReturns(k) PROVE FALSE
  <2> DEFINE e == [peer[k] EXCEPT !.st = "closed"]
  <2>1. peer[k] \in PeerT /\ Ended(k)
    BY <1>0, <1>9 DEF Made, CloseReturns, Ended
  <2>2. e \in PeerT /\ peer' = [peer EXCEPT ![k] = e]
    BY <1>9, <2>1 DEF CloseReturns, PeerT
  <2> HIDE DEF e
  <2> QED
    BY <1>3, <2>1, <2>2
<1>10. peer' # peer
  BY DEF Ended
<1>11. CASE UNCHANGED vars
  BY <1>10, <1>11 DEF vars, peers
<1>12. CASE Next
  <2>1. ASSUME NEW r \in Receiver, OpenShare(r) \/ Offer(r) \/ Quit(r) PROVE FALSE
    BY <1>10, <2>1 DEF OpenShare, Offer, Quit, peers
  <2>2. ASSUME NEW k \in Made, Left(k) PROVE FALSE
    BY <1>10, <2>2 DEF Left, peers
  <2>3. ASSUME Publish \/ Unpublish \/ Stopped \/ Close \/ Shut \/ Watch PROVE FALSE
    BY <1>10, <2>3 DEF Publish, Unpublish, Stopped, Close, Shut, Watch, peers
  <2> QED
    BY <1>1, <1>2, <1>4, <1>5, <1>6, <1>7, <1>8, <1>9, <1>12, <2>1, <2>2, <2>3 DEF Next
<1> QED
  BY <1>11, <1>12

\* The publisher never closes a connection but because its other end is gone, because
\* unpublish or close does, or by the late event of an older connection of the same
\* receiver: however events, requests and closes are ordered, no other receiver's
\* doings cut it.
THEOREM CutsAreExplained == Spec => CutsExplained
<1>1. SessionsInv /\ [Next]_vars =>
        [\A p \in Made : ~ Ended(p) /\ Ended(p)' =>
           \/ peer[p].try \in gone
           \/ stop'.cur = p
           \/ \E q \in 1 .. p - 1 : peer[q].of = peer[p].of /\ peer[q].fires > 0]_vars
  BY CutsOne
<1> QED
  BY <1>1, SessionsStart, SessionsNext, PTL DEF Spec, CutsExplained

-----------------------------------------------------------------------------
(* Counting the entries of a queue that are of some kind, up to a place in it. *)

Count(s, kind, m) == Cardinality({n \in 1 .. m : s[n] \in kind})

LEMMA CountType ==
    ASSUME NEW s, NEW kind, NEW m \in Nat
    PROVE  /\ IsFiniteSet({n \in 1 .. m : s[n] \in kind})
           /\ Count(s, kind, m) \in Nat
<1>1. IsFiniteSet(1 .. m) /\ {n \in 1 .. m : s[n] \in kind} \subseteq 1 .. m
  BY FS_Interval
<1> QED
  BY <1>1, FS_Subset, FS_CardinalityType DEF Count

LEMMA CountNone ==
    ASSUME NEW s, NEW kind PROVE Count(s, kind, 0) = 0
<1>1. {n \in 1 .. 0 : s[n] \in kind} = {}
  OBVIOUS
<1> QED
  BY <1>1, FS_EmptySet DEF Count

\* Only the entries up to that place matter.
LEMMA CountSame ==
    ASSUME NEW s, NEW t, NEW kind, NEW m \in Nat, \A n \in 1 .. m : s[n] = t[n]
    PROVE  Count(s, kind, m) = Count(t, kind, m)
<1>1. {n \in 1 .. m : s[n] \in kind} = {n \in 1 .. m : t[n] \in kind}
  OBVIOUS
<1> QED
  BY <1>1 DEF Count

\* One place further on.
LEMMA CountNext ==
    ASSUME NEW s, NEW kind, NEW m \in Nat
    PROVE  Count(s, kind, m + 1) = Count(s, kind, m) + IF s[m + 1] \in kind THEN 1 ELSE 0
<1> DEFINE A == {n \in 1 .. m : s[n] \in kind}  B == {n \in 1 .. m + 1 : s[n] \in kind}
<1>1. IsFiniteSet(A) /\ Cardinality(A) \in Nat /\ m + 1 \notin A
  <2>1. IsFiniteSet(A) /\ Cardinality(A) \in Nat
    BY CountType DEF Count
  <2>2. m + 1 \notin 1 .. m
    OBVIOUS
  <2> QED
    BY <2>1, <2>2
<1>2. B = IF s[m + 1] \in kind THEN A \cup {m + 1} ELSE A
  OBVIOUS
<1>3. Cardinality(A \cup {m + 1}) = Cardinality(A) + 1
  <2> HIDE DEF A
  <2> QED
    BY <1>1, FS_AddElement
<1>4. Cardinality(B) = Cardinality(A) + IF s[m + 1] \in kind THEN 1 ELSE 0
  <2> HIDE DEF A, B
  <2> QED
    BY <1>1, <1>2, <1>3
<1> QED
  BY <1>4 DEF Count

\* An entry more at the end.
LEMMA CountAppend ==
    ASSUME NEW S, NEW s \in Seq(S), NEW e \in S, NEW kind
    PROVE  /\ Len(Append(s, e)) = Len(s) + 1
           /\ \A m \in 0 .. Len(s) : Count(Append(s, e), kind, m) = Count(s, kind, m)
           /\ Count(Append(s, e), kind, Len(s) + 1)
                = Count(s, kind, Len(s)) + IF e \in kind THEN 1 ELSE 0
<1>1. /\ Len(s) \in Nat /\ Len(Append(s, e)) = Len(s) + 1
      /\ \A n \in 1 .. Len(s) : Append(s, e)[n] = s[n]
      /\ Append(s, e)[Len(s) + 1] = e
  BY AppendProperties
<1>2. ASSUME NEW m \in 0 .. Len(s)
      PROVE  Count(Append(s, e), kind, m) = Count(s, kind, m)
  <2>1. m \in Nat /\ \A n \in 1 .. m : n \in 1 .. Len(s)
    BY <1>1
  <2> QED
    BY <1>1, <2>1, CountSame
<1>3. Count(Append(s, e), kind, Len(s) + 1)
        = Count(Append(s, e), kind, Len(s)) + IF e \in kind THEN 1 ELSE 0
  <2>1. Count(Append(s, e), kind, Len(s) + 1)
          = Count(Append(s, e), kind, Len(s)) + IF Append(s, e)[Len(s) + 1] \in kind THEN 1 ELSE 0
    <3>1. Len(s) \in Nat
      OBVIOUS
    <3> QED
      BY <3>1, CountNext
  <2>2. Append(s, e)[Len(s) + 1] = e
    BY <1>1
  <2> QED
    BY <2>1, <2>2
<1>4. Len(s) \in 0 .. Len(s)
  BY <1>1
<1> QED
  BY <1>1, <1>2, <1>3, <1>4

\* The first entry is gone, and the others have moved up by one.
LEMMA CountTail ==
    ASSUME NEW S, NEW s \in Seq(S), s # <<>>, NEW kind, NEW m \in 0 .. Len(s) - 1
    PROVE  Count(s, kind, m + 1) = Count(Tail(s), kind, m) + IF Head(s) \in kind THEN 1 ELSE 0
<1> DEFINE T == {n \in 1 .. m : Tail(s)[n] \in kind}
           U == {n \in 2 .. m + 1 : s[n] \in kind}
           B == {n \in 1 .. m + 1 : s[n] \in kind}
           f == [n \in T |-> n + 1]
<1>1. /\ Len(s) \in Nat /\ Len(s) > 0 /\ Len(Tail(s)) = Len(s) - 1
      /\ \A i \in 1 .. Len(Tail(s)) : Tail(s)[i] = s[i + 1]
      /\ Head(s) = s[1]
  <2>1. Len(s) > 0 /\ Head(s) = s[1]
    BY EmptySeq
  <2> QED
    BY <2>1, HeadTailProperties
<1>2. m \in Nat /\ \A n \in 1 .. m : n + 1 \in 2 .. m + 1 /\ Tail(s)[n] = s[n + 1]
  BY <1>1
<1>3. f \in Bijection(T, U)
  <2>1. f \in [T -> U]
    BY <1>2
  <2>2. \A a, b \in T : f[a] = f[b] => a = b
    OBVIOUS
  <2>3. \A u \in U : \E n \in T : f[n] = u
    <3> SUFFICES ASSUME NEW u \in U PROVE u - 1 \in T /\ f[u - 1] = u
      OBVIOUS
    <3>1. u \in 2 .. m + 1 /\ s[u] \in kind /\ u - 1 \in 1 .. m /\ (u - 1) + 1 = u
      OBVIOUS
    <3>2. Tail(s)[u - 1] = s[u]
      BY <1>2, <3>1
    <3> QED
      BY <3>1, <3>2
  <2> QED
    BY <2>1, <2>2, <2>3 DEF Bijection, Injection, Surjection, IsInjective
<1>4. IsFiniteSet(T) /\ Cardinality(T) \in Nat
  BY <1>2, CountType, FS_CardinalityType
<1>5. IsFiniteSet(U) /\ Cardinality(U) = Cardinality(T)
  <2> HIDE DEF T, U, f
  <2>1. ExistsBijection(T, U)
    BY <1>3 DEF ExistsBijection
  <2> QED
    BY <1>4, <2>1, FS_Bijection
<1>6. 1 \notin U /\ B = IF s[1] \in kind THEN U \cup {1} ELSE U
  BY <1>2
<1>7. Cardinality(B) = Cardinality(T) + IF s[1] \in kind THEN 1 ELSE 0
  <2> HIDE DEF T, U, B
  <2>1. Cardinality(U \cup {1}) = Cardinality(U) + 1
    BY <1>5, <1>6, FS_AddElement
  <2> QED
    BY <1>4, <1>5, <1>6, <2>1
<1> QED
  BY <1>1, <1>7 DEF Count

-----------------------------------------------------------------------------
(* Bounds, the GUI's list and what removes a receiver that is gone. *)

Request == {e \in MessageT : e.what = "request"}

\* One Peer per request at most, one request per try; tries, and so the Peers of
\* receivers, are numbered as they begin.
TriesBounded ==
    /\ stage \in [Receiver -> {"idle", "asked", "offered", "left"}]
    /\ tries <= MaxTries
    /\ Count(inbox, Request, Len(inbox)) + Len(peer) <= tries
    /\ \A r \in Receiver : own[r] \in {Nothing} \cup 1 .. tries
    /\ gone \subseteq 1 .. tries
    /\ \A n \in 1 .. Len(inbox) : inbox[n].try \in {Nothing} \cup 1 .. tries
    /\ \A p \in Made : peer[p].try \in {Nothing} \cup 1 .. tries /\ peer[p].fires <= MaxFires

Flags ==
    /\ listening \in BOOLEAN /\ hub \in BOOLEAN /\ published \in BOOLEAN /\ clean \in BOOLEAN
    /\ stops \in 0 .. MaxStops
    /\ late \subseteq Made

Joined(r) == {[what |-> "joined", who |-> r]}
LeftBy(r) == {[what |-> "left", who |-> r]}

\* The items of r in the list once the first m events of the queue are handled.
Listed(r, m) == shown[r] + Count(news, Joined(r), m) - Count(news, LeftBy(r), m)

\* The connections of r whose end is still to be told to the list.
LeavingOf(r) == {p \in leaving : peer[p].of = r}

\* The list lags behind the table by the events in the queue and those of the
\* connections that are leaving; and no event finds nothing to remove.
ListLags ==
    /\ news \in Seq([what : {"joined", "left"}, who : Receiver])
    /\ shown \in [Receiver -> Nat]
    /\ IsFiniteSet(leaving) /\ leaving \subseteq Made
    /\ \A r \in Receiver : table[r] \notin leaving
    /\ clean /\ stop.op # "closed" => \A r \in Receiver :
         /\ \A m \in 0 .. Len(news) : Listed(r, m) >= 0
         /\ Listed(r, Len(news)) =
              (IF table[r] = Nothing THEN 0 ELSE 1) + Cardinality(LeavingOf(r))

\* A connection that has told its end does so to the table while it is in it.
EndsTold ==
    \A r \in Receiver : table[r] # Nothing /\ peer[table[r]].fires > 0 => drops[r] > 0

\* What a step does to the connections there are.
LEMMA OldPeers ==
    ASSUME SessionsInv, [Next]_vars
    PROVE  /\ Len(peer) \in Nat /\ Len(peer') \in Nat
           /\ \/ Len(peer') = Len(peer)
              \/ AddPeer /\ Len(peer') = Len(peer) + 1
           /\ \A p \in Made :
                /\ peer'[p].of = peer[p].of
                /\ \/ peer'[p].try = peer[p].try
                   \/ TakeOffer /\ peer'[p].try = Head(inbox).try
                /\ \/ peer'[p].fires = peer[p].fires
                   \/ /\ peer[p].fires < MaxFires /\ peer'[p].fires = peer[p].fires + 1
                      /\ drops'[peer[p].of] = drops[peer[p].of] + 1
<1> DEFINE Goal == /\ Len(peer') = Len(peer)
                   /\ \A p \in Made :
                        /\ peer'[p].of = peer[p].of
                        /\ \/ peer'[p].try = peer[p].try
                           \/ TakeOffer /\ peer'[p].try = Head(inbox).try
                        /\ \/ peer'[p].fires = peer[p].fires
                           \/ /\ peer[p].fires < MaxFires /\ peer'[p].fires = peer[p].fires + 1
                              /\ drops'[peer[p].of] = drops[peer[p].of] + 1
<1>0. /\ peer \in Seq(PeerT) /\ Len(peer) \in Nat /\ \A p \in Made : peer[p] \in PeerT
      /\ table \in [Receiver -> {Nothing} \cup Made] /\ drops \in [Receiver -> Nat]
  BY DEF SessionsInv, Types, Made
<1>1. ASSUME peer' = peer PROVE Goal
  BY <1>1
<1>2. ASSUME NEW k \in Made, NEW e \in PeerT, peer' = [peer EXCEPT ![k] = e],
             e.of = peer[k].of, e.try = peer[k].try, e.fires = peer[k].fires
      PROVE  Goal
  BY <1>2, PeerUpdate
<1>3. ASSUME NEW k \in Made, Closing(k) PROVE Goal
  BY <1>3, ClosingEnds
<1>4. CASE AddPeer
  <2>1. CASE peer' = peer
    BY <1>0, <1>1, <2>1
  <2>2. CASE peer' # peer
    <3> DEFINE e == [of |-> Head(inbox).from, st |-> "new", try |-> Nothing, fires |-> 0]
    <3>1. peer' = Append(peer, e)
      BY <1>4, <2>2 DEF AddPeer, peers
    <3>2. Len(peer') = Len(peer) + 1 /\ \A p \in Made : peer'[p] = peer[p]
      BY <1>0, <3>1 DEF Made
    <3> QED
      BY <1>0, <1>4, <3>2
  <2> QED
    BY <2>1, <2>2
<1>5. CASE TakeOffer
  <2>1. CASE peer' = peer
    BY <1>0, <1>1, <2>1
  <2>2. CASE peer' # peer
    <3>1. Head(inbox).try \in {Nothing} \cup Nat /\ Head(inbox).from \in Receiver
      BY <1>5, InboxTail DEF TakeOffer, MessageT
    <3>2. PICK k \in Made : peer' = [peer EXCEPT ![k].try = Head(inbox).try]
      BY <1>0, <1>5, <2>2, <3>1 DEF TakeOffer
    <3> DEFINE e == [peer[k] EXCEPT !.try = Head(inbox).try]
    <3>3. /\ e \in PeerT /\ e.of = peer[k].of /\ e.fires = peer[k].fires
          /\ e.try = Head(inbox).try /\ peer' = [peer EXCEPT ![k] = e]
      <4>1. peer[k] \in PeerT
        BY <1>0
      <4> QED
        BY <3>1, <3>2, <4>1 DEF PeerT
    <3> HIDE DEF e
    <3>4. Len(peer') = Len(peer) /\ \A q \in Made : peer'[q] = IF q = k THEN e ELSE peer[q]
      BY <3>3, PeerUpdate
    <3> QED
      BY <1>0, <1>5, <3>3, <3>4
  <2> QED
    BY <2>1, <2>2
<1>6. CASE Answer
  <2>1. CASE peer' = peer
    BY <1>0, <1>1, <2>1
  <2>2. CASE peer' # peer
    <3>1. busy \in Made /\ peer' = [peer EXCEPT ![busy].st = "answered"]
      BY <1>6, <2>2 DEF Answer, SessionsInv, Types
    <3>2. PICK k \in Made : peer' = [peer EXCEPT ![k].st = "answered"]
      BY <3>1
    <3> DEFINE e == [peer[k] EXCEPT !.st = "answered"]
    <3>3. /\ e \in PeerT /\ e.of = peer[k].of /\ e.fires = peer[k].fires
          /\ e.try = peer[k].try /\ peer' = [peer EXCEPT ![k] = e]
      <4>1. peer[k] \in PeerT
        BY <1>0
      <4> QED
        BY <3>2, <4>1 DEF PeerT
    <3> HIDE DEF e
    <3> QED
      BY <1>0, <1>2, <3>3
  <2> QED
    BY <2>1, <2>2
<1>7. ASSUME NEW k \in Made, Open(k) PROVE Goal
  <2> DEFINE e == [peer[k] EXCEPT !.st = "up"]
  <2>1. peer[k] \in PeerT /\ peer' = [peer EXCEPT ![k].st = "up"]
    BY <1>0, <1>7 DEF Open
  <2>2. /\ e \in PeerT /\ e.of = peer[k].of /\ e.fires = peer[k].fires
        /\ e.try = peer[k].try /\ peer' = [peer EXCEPT ![k] = e]
    BY <2>1 DEF PeerT
  <2> HIDE DEF e, Goal
  <2> QED
    BY <1>2, <2>2
<1>8. ASSUME NEW k \in Made, OnClose(k) PROVE Goal
  <2> DEFINE e == [peer[k] EXCEPT !.fires = @ + 1]
  <2>1. /\ peer[k] \in PeerT /\ peer' = [peer EXCEPT ![k].fires = @ + 1]
        /\ peer[k].fires < MaxFires /\ drops' = [drops EXCEPT ![peer[k].of] = @ + 1]
    BY <1>0, <1>8 DEF OnClose, MayTell
  <2>2. /\ e \in PeerT /\ e.of = peer[k].of /\ e.fires = peer[k].fires + 1
        /\ e.try = peer[k].try /\ peer' = [peer EXCEPT ![k] = e]
    BY <2>1 DEF PeerT
  <2>3. drops'[peer[k].of] = drops[peer[k].of] + 1
    <3>1. peer[k].of \in Receiver
      BY <2>1 DEF PeerT
    <3> QED
      BY <1>0, <2>1, <3>1
  <2> HIDE DEF e
  <2>4. Len(peer') = Len(peer) /\ \A q \in Made : peer'[q] = IF q = k THEN e ELSE peer[q]
    BY <2>2, PeerUpdate
  <2>5. \A p \in Made : /\ peer'[p].of = peer[p].of /\ peer'[p].try = peer[p].try
                        /\ p # k => peer'[p].fires = peer[p].fires
    BY <2>2, <2>4
  <2>6. peer'[k].fires = peer[k].fires + 1
    BY <2>2, <2>4
  <2> QED
    BY <2>1, <2>3, <2>4, <2>5, <2>6
<1>9. ASSUME NEW k \in Made, CloseReturns(k) PROVE Goal
  <2> DEFINE e == [peer[k] EXCEPT !.st = "closed"]
  <2>1. peer[k] \in PeerT /\ peer' = [peer EXCEPT ![k].st = "closed"]
    BY <1>0, <1>9 DEF CloseReturns
  <2>2. /\ e \in PeerT /\ e.of = peer[k].of /\ e.fires = peer[k].fires
        /\ e.try = peer[k].try /\ peer' = [peer EXCEPT ![k] = e]
    BY <2>1 DEF PeerT
  <2> HIDE DEF e, Goal
  <2> QED
    BY <1>2, <2>2
<1>10. ASSUME NEW r \in Receiver, DropPeer(r) PROVE Goal
  <2>1. CASE table[r] = Nothing
    BY <1>1, <1>10, <2>1 DEF DropPeer
  <2>2. CASE table[r] # Nothing
    <3>1. PICK k \in Made : Closing(k)
      BY <1>0, <1>10, <2>2 DEF DropPeer
    <3> HIDE DEF Goal
    <3> QED
      BY <1>3, <3>1
  <2> QED
    BY <2>1, <2>2
<1>11. ASSUME NEW k \in Made, CloseNext(k) PROVE Goal
  BY <1>3, <1>11 DEF CloseNext
<1>12. ASSUME \/ \E r \in Receiver : OpenShare(r) \/ Offer(r) \/ Quit(r)
              \/ \E k \in Made : Left(k)
              \/ Publish \/ Unpublish \/ Stopped \/ Close \/ Shut \/ Watch \/ UNCHANGED vars
       PROVE  Goal
  <2>1. peer' = peer
    BY <1>12 DEF OpenShare, Offer, Quit, Left, Publish, Unpublish, Stopped, Close, Shut, Watch,
                 peers, vars
  <2> QED
    BY <1>1, <2>1
<1>13. ASSUME Goal
       PROVE  /\ Len(peer) \in Nat /\ Len(peer') \in Nat
              /\ \/ Len(peer') = Len(peer)
                 \/ AddPeer /\ Len(peer') = Len(peer) + 1
              /\ \A p \in Made :
                   /\ peer'[p].of = peer[p].of
                   /\ \/ peer'[p].try = peer[p].try
                      \/ TakeOffer /\ peer'[p].try = Head(inbox).try
                   /\ \/ peer'[p].fires = peer[p].fires
                      \/ /\ peer[p].fires < MaxFires /\ peer'[p].fires = peer[p].fires + 1
                         /\ drops'[peer[p].of] = drops[peer[p].of] + 1
  BY <1>0, <1>13
<1> HIDE DEF Goal
<1> QED
  BY <1>4, <1>5, <1>6, <1>7, <1>8, <1>9, <1>10, <1>11, <1>12, <1>13 DEF Next

LEMMA BoundTypes ==
    ASSUME SessionsInv, TriesBounded
    PROVE  /\ inbox \in Seq(MessageT) /\ Len(inbox) \in Nat /\ tries \in Nat /\ MaxTries \in Nat
           /\ MaxFires \in Nat \ {0}
           /\ peer \in Seq(PeerT) /\ Len(peer) \in Nat
           /\ Count(inbox, Request, Len(inbox)) \in Nat
           /\ Count(inbox, Request, Len(inbox)) + Len(peer) <= tries
<1>1. inbox \in Seq(MessageT) /\ peer \in Seq(PeerT) /\ tries \in Nat
  BY DEF SessionsInv, Types
<1>2. Len(inbox) \in Nat /\ Len(peer) \in Nat
  BY <1>1
<1> QED
  BY <1>1, <1>2, CountType, SessionsAssumption DEF TriesBounded

\* What taking a message leaves in the queue.
LEMMA TakeCounts ==
    ASSUME SessionsInv, TriesBounded, Take
    PROVE  /\ Count(inbox, Request, Len(inbox)) =
                Count(inbox', Request, Len(inbox')) + IF Head(inbox) \in Request THEN 1 ELSE 0
           /\ Len(inbox') \in Nat
           /\ Head(inbox).try \in {Nothing} \cup 1 .. tries
           /\ \A n \in 1 .. Len(inbox') : inbox'[n].try \in {Nothing} \cup 1 .. tries
<1>1. inbox \in Seq(MessageT) /\ inbox # <<>> /\ inbox' = Tail(inbox) /\ Len(inbox) \in Nat
  BY BoundTypes DEF Take
<1>2. /\ Len(inbox) > 0 /\ Len(inbox') = Len(inbox) - 1 /\ Head(inbox) = inbox[1]
      /\ \A n \in 1 .. Len(inbox') : inbox'[n] = inbox[n + 1] /\ n + 1 \in 1 .. Len(inbox)
  <2>1. Len(inbox) > 0 /\ Head(inbox) = inbox[1]
    BY <1>1, EmptySeq
  <2> QED
    BY <1>1, <2>1, HeadTailProperties
<1>3. Len(inbox') \in 0 .. Len(inbox) - 1 /\ Len(inbox') + 1 = Len(inbox) /\ 1 \in 1 .. Len(inbox)
  BY <1>1, <1>2
<1>4. Count(inbox, Request, Len(inbox') + 1) =
        Count(Tail(inbox), Request, Len(inbox')) + IF Head(inbox) \in Request THEN 1 ELSE 0
  BY <1>1, <1>3, CountTail
<1>5. \A n \in 1 .. Len(inbox) : inbox[n].try \in {Nothing} \cup 1 .. tries
  BY DEF TriesBounded
<1> QED
  BY <1>1, <1>2, <1>3, <1>4, <1>5

\* Steps that make no Peer and no try.
LEMMA NoTry ==
    ASSUME SessionsInv, TriesBounded, [Next]_vars, UNCHANGED receivers, ~ AddPeer,
           inbox' = inbox \/ inbox' = <<>> \/ Take
    PROVE  TriesBounded'
<1>1. UNCHANGED <<stage, own, tries, gone>>
  BY DEF receivers
<1>2. /\ Len(peer') = Len(peer)
      /\ \A p \in Made : peer'[p].try \in {Nothing} \cup 1 .. tries
  <2>1. ASSUME NEW p \in Made PROVE peer'[p].try \in {Nothing} \cup 1 .. tries
    <3>1. peer[p].try \in {Nothing} \cup 1 .. tries
      BY DEF TriesBounded
    <3>2. TakeOffer => Head(inbox).try \in {Nothing} \cup 1 .. tries
      BY TakeCounts DEF TakeOffer
    <3> QED
      BY <3>1, <3>2, OldPeers
  <2> QED
    BY <2>1, OldPeers
<1>3. ASSUME NEW p \in Made PROVE peer'[p].fires <= MaxFires
  <2>1. peer[p].fires <= MaxFires /\ peer[p].fires \in Nat /\ MaxFires \in Nat
    <3>1. peer[p] \in PeerT
      BY BoundTypes DEF Made
    <3> QED
      BY <3>1, BoundTypes DEF TriesBounded, PeerT
  <2>2. CASE peer'[p].fires = peer[p].fires
    BY <2>1, <2>2
  <2>3. CASE peer[p].fires < MaxFires /\ peer'[p].fires = peer[p].fires + 1
    BY <2>1, <2>3
  <2> QED
    BY <2>2, <2>3, OldPeers
<1>4. /\ Count(inbox', Request, Len(inbox')) + Len(peer) <= tries
      /\ \A n \in 1 .. Len(inbox') : inbox'[n].try \in {Nothing} \cup 1 .. tries
  <2>1. CASE inbox' = inbox
    BY <2>1 DEF TriesBounded
  <2>2. CASE inbox' = <<>>
    <3>1. Len(inbox') = 0 /\ Count(inbox', Request, 0) = 0
      BY <2>2, CountNone
    <3>2. Len(peer) <= tries
      BY BoundTypes
    <3> QED
      BY <3>1, <3>2, BoundTypes
  <2>3. CASE Take
    <3>1. /\ Count(inbox', Request, Len(inbox')) \in Nat
          /\ Count(inbox', Request, Len(inbox')) <= Count(inbox, Request, Len(inbox))
      <4>1. Count(inbox', Request, Len(inbox')) \in Nat
        BY <2>3, TakeCounts, CountType
      <4> QED
        BY <2>3, <4>1, TakeCounts
    <3>2. Count(inbox', Request, Len(inbox')) + Len(peer) <= tries
      BY <3>1, BoundTypes
    <3> QED
      BY <2>3, <3>2, TakeCounts
  <2> QED
    BY <2>1, <2>2, <2>3
<1> QED
  BY <1>1, <1>2, <1>3, <1>4 DEF TriesBounded, Made

LEMMA TriesNext ==
    ASSUME SessionsInv, TriesBounded, [Next]_vars PROVE TriesBounded'
<1>0. /\ own \in [Receiver -> {Nothing} \cup Nat] /\ tries \in Nat /\ Nothing \notin Nat
      /\ stage \in [Receiver -> {"idle", "asked", "offered", "left"}] /\ tries <= MaxTries
      /\ \A r \in Receiver : own[r] \in {Nothing} \cup 1 .. tries
      /\ gone \subseteq 1 .. tries
      /\ \A n \in 1 .. Len(inbox) : inbox[n].try \in {Nothing} \cup 1 .. tries
      /\ \A p \in Made : peer[p].try \in {Nothing} \cup 1 .. tries /\ peer[p].fires <= MaxFires
  BY SessionsAssumption DEF SessionsInv, Types, TriesBounded
<1>1. ASSUME NEW r \in Receiver, NEW e \in MessageT,
             UNCHANGED peer, stage' \in [Receiver -> {"idle", "asked", "offered", "left"}],
             tries' \in Nat, tries <= tries', tries' <= MaxTries,
             \A x \in Receiver : own'[x] = own[x] \/ own'[x] \in {Nothing} \cup 1 .. tries',
             Closes(r) \/ UNCHANGED gone,
             \/ inbox' = inbox
             \/ /\ inbox' = Append(inbox, e) /\ e.try \in {Nothing} \cup 1 .. tries'
                /\ e.what = "request" => tries' = tries + 1
      PROVE  TriesBounded'
  <2>1. \A n \in 1 .. tries : n \in 1 .. tries'
    BY <1>0, <1>1
  <2>2. gone' \subseteq 1 .. tries'
    <3>1. {own[r]} \ {Nothing} \subseteq 1 .. tries
      BY <1>0
    <3>2. gone' = gone \/ gone' = gone \cup ({own[r]} \ {Nothing})
      BY <1>1 DEF Closes
    <3>3. gone' \subseteq 1 .. tries
      BY <1>0, <3>1, <3>2
    <3> QED
      BY <2>1, <3>3
  <2>3. /\ Count(inbox', Request, Len(inbox')) + Len(peer) <= tries'
        /\ \A n \in 1 .. Len(inbox') : inbox'[n].try \in {Nothing} \cup 1 .. tries'
    <3>1. CASE inbox' = inbox
      <4>1. Count(inbox, Request, Len(inbox)) + Len(peer) <= tries'
        BY <1>1, BoundTypes
      <4> QED
        BY <1>0, <2>1, <3>1, <4>1
    <3>2. CASE /\ inbox' = Append(inbox, e) /\ e.try \in {Nothing} \cup 1 .. tries'
               /\ e.what = "request" => tries' = tries + 1
      <4>1. inbox \in Seq(MessageT) /\ Len(inbox) \in Nat
        BY BoundTypes
      <4>2. /\ Len(inbox') = Len(inbox) + 1
            /\ Count(inbox', Request, Len(inbox) + 1) =
                 Count(inbox, Request, Len(inbox)) + IF e \in Request THEN 1 ELSE 0
        BY <3>2, <4>1, CountAppend
      <4>3. e \in Request => tries' = tries + 1
        BY <3>2 DEF Request
      <4>4. Count(inbox, Request, Len(inbox)) + (IF e \in Request THEN 1 ELSE 0) + Len(peer) <= tries'
        BY <1>0, <1>1, <4>3, BoundTypes
      <4>5. \A n \in 1 .. Len(inbox) + 1 : inbox'[n].try \in {Nothing} \cup 1 .. tries'
        <5>1. \A n \in 1 .. Len(inbox) : inbox'[n] = inbox[n]
          BY <3>2, <4>1, AppendProperties
        <5>2. inbox'[Len(inbox) + 1] = e
          BY <3>2, <4>1, AppendProperties
        <5>3. ASSUME NEW n \in 1 .. Len(inbox) + 1
              PROVE  n \in 1 .. Len(inbox) \/ n = Len(inbox) + 1
          BY <4>1
        <5> QED
          BY <1>0, <2>1, <3>2, <5>1, <5>2, <5>3
      <4> QED
        BY <4>2, <4>4, <4>5
    <3> QED
      BY <1>1, <3>1, <3>2
  <2>4. \A x \in Receiver : own'[x] \in {Nothing} \cup 1 .. tries'
    BY <1>0, <1>1, <2>1
  <2>5. \A p \in Made : peer[p].try \in {Nothing} \cup 1 .. tries' /\ peer[p].fires <= MaxFires
    BY <1>0, <2>1
  <2> QED
    BY <1>1, <2>2, <2>3, <2>4, <2>5 DEF TriesBounded, Made
<1>2. ASSUME NEW r \in Receiver, OpenShare(r) PROVE TriesBounded'
  <2> DEFINE e == [what |-> "request", from |-> r, try |-> Nothing]
  <2>1. e \in MessageT /\ e.try = Nothing
    BY DEF MessageT
  <2>2. /\ UNCHANGED peer /\ tries' = tries + 1 /\ tries < MaxTries /\ Closes(r)
        /\ stage' = [stage EXCEPT ![r] = IF hub THEN "asked" ELSE "idle"]
        /\ own' = [own EXCEPT ![r] = IF hub THEN tries' ELSE Nothing]
        /\ inbox' = inbox \/ inbox' = Append(inbox, e)
    BY <1>2 DEF OpenShare, peers
  <2> HIDE DEF e
  <2>3. tries' \in Nat /\ tries <= tries' /\ tries' <= MaxTries /\ tries' \in 1 .. tries'
    BY <1>0, <2>2, BoundTypes
  <2>4. stage' \in [Receiver -> {"idle", "asked", "offered", "left"}]
    BY <1>0, <2>2
  <2>5. \A x \in Receiver : own'[x] = own[x] \/ own'[x] \in {Nothing} \cup 1 .. tries'
    BY <1>0, <2>2, <2>3
  <2> QED
    BY <1>1, <2>1, <2>2, <2>3, <2>4, <2>5
<1>3. ASSUME NEW r \in Receiver, Offer(r) PROVE TriesBounded'
  <2> DEFINE e == [what |-> "offer", from |-> r, try |-> own[r]]
  <2>1. e \in MessageT /\ e.try = own[r] /\ e.what # "request"
    BY <1>0 DEF MessageT
  <2>2. /\ UNCHANGED <<peer, own, tries, gone>>
        /\ stage' = [stage EXCEPT ![r] = "offered"]
        /\ inbox' = Append(inbox, e)
    BY <1>3 DEF Offer, peers
  <2> HIDE DEF e
  <2>3. stage' \in [Receiver -> {"idle", "asked", "offered", "left"}] /\ tries <= tries'
    BY <1>0, <2>2
  <2> QED
    BY <1>0, <1>1, <2>1, <2>2, <2>3
<1>4. ASSUME NEW r \in Receiver, Quit(r) PROVE TriesBounded'
  <2>1. /\ UNCHANGED <<peer, tries, inbox>> /\ Closes(r)
        /\ stage' = [stage EXCEPT ![r] = "left"]
        /\ own' = [own EXCEPT ![r] = Nothing]
    BY <1>4 DEF Quit, peers
  <2>2. stage' \in [Receiver -> {"idle", "asked", "offered", "left"}] /\ tries <= tries'
    BY <1>0, <2>1
  <2>3. \A x \in Receiver : own'[x] = own[x] \/ own'[x] \in {Nothing} \cup 1 .. tries'
    BY <1>0, <2>1
  <2>4. \E e : e \in MessageT
    <3>1. [what |-> "offer", from |-> r, try |-> Nothing] \in MessageT
      BY DEF MessageT
    <3> QED
      BY <3>1
  <2> QED
    BY <1>0, <1>1, <2>1, <2>2, <2>3, <2>4
<1>5. CASE AddPeer
  <2> DEFINE e == [of |-> Head(inbox).from, st |-> "new", try |-> Nothing, fires |-> 0]
  <2>1. /\ Take /\ Head(inbox) \in Request
        /\ UNCHANGED <<stage, own, tries, gone>>
        /\ peer' = peer \/ peer' = Append(peer, e)
    BY <1>5, InboxTail DEF AddPeer, Request, receivers, peers
  <2>2. /\ Len(peer') \in Nat /\ Len(peer') <= Len(peer) + 1
        /\ \A p \in Made' : \/ p \in Made /\ peer'[p] = peer[p]
                            \/ peer'[p].try = Nothing /\ peer'[p].fires = 0
    <3>1. CASE peer' = peer
      BY <3>1, BoundTypes DEF Made
    <3>2. CASE peer' = Append(peer, e)
      <4>1. /\ Len(peer') = Len(peer) + 1 /\ peer'[Len(peer) + 1] = e
            /\ \A p \in 1 .. Len(peer) : peer'[p] = peer[p]
            /\ Len(peer) \in Nat
        BY <3>2, BoundTypes
      <4>2. e.try = Nothing /\ e.fires = 0
        OBVIOUS
      <4>3. ASSUME NEW p \in 1 .. Len(peer) + 1 PROVE p \in 1 .. Len(peer) \/ p = Len(peer) + 1
        BY <4>1
      <4> HIDE DEF e
      <4> QED
        BY <4>1, <4>2, <4>3 DEF Made
    <3> QED
      BY <2>1, <3>1, <3>2
  <2>3. Count(inbox', Request, Len(inbox')) + Len(peer') <= tries
    <3>1. /\ Count(inbox, Request, Len(inbox)) = Count(inbox', Request, Len(inbox')) + 1
          /\ Count(inbox', Request, Len(inbox')) \in Nat
      BY <2>1, TakeCounts, CountType
    <3> QED
      BY <2>2, <3>1, BoundTypes
  <2>4. \A p \in Made' : peer'[p].try \in {Nothing} \cup 1 .. tries /\ peer'[p].fires <= MaxFires
    <3>1. 0 <= MaxFires
      BY BoundTypes
    <3> QED
      BY <1>0, <2>2, <3>1
  <2> QED
    BY <1>0, <2>1, <2>3, <2>4, TakeCounts DEF TriesBounded
<1>6. CASE /\ UNCHANGED receivers /\ ~ AddPeer
           /\ inbox' = inbox \/ inbox' = <<>> \/ Take
  BY <1>6, NoTry
<1>7. ASSUME Next
      PROVE  \/ \E r \in Receiver : OpenShare(r) \/ Offer(r) \/ Quit(r)
             \/ AddPeer
             \/ UNCHANGED receivers /\ (inbox' = inbox \/ inbox' = <<>> \/ Take)
  BY <1>7 DEF Next, DropPeer, TakeOffer, Answer, Open, OnClose, CloseReturns, Left, CloseNext,
              Publish, Unpublish, Stopped, Close, Shut, Watch
<1>8. CASE UNCHANGED vars
  BY <1>5, <1>6, <1>8 DEF vars
<1> QED
  BY <1>2, <1>3, <1>4, <1>5, <1>6, <1>7, <1>8

LEMMA FlagsNext ==
    ASSUME SessionsInv, Flags, [Next]_vars PROVE Flags'
<1>1. listening' \in BOOLEAN
  BY DEF Flags, Next, OpenShare, Offer, Quit, DropPeer, AddPeer, TakeOffer, Answer, Open, OnClose,
         CloseReturns, Left, CloseNext, Publish, Unpublish, Stopped, Close, Shut, Watch, loop, vars
<1>2. hub' \in BOOLEAN
  BY DEF Flags, Next, OpenShare, Offer, Quit, DropPeer, AddPeer, TakeOffer, Answer, Open, OnClose,
         CloseReturns, Left, CloseNext, Publish, Unpublish, Stopped, Close, Shut, Watch, sharing, vars
<1>3. published' \in BOOLEAN
  BY DEF Flags, Next, OpenShare, Offer, Quit, DropPeer, AddPeer, TakeOffer, Answer, Open, OnClose,
         CloseReturns, Left, CloseNext, Publish, Unpublish, Stopped, Close, Shut, Watch, sharing, vars
<1>4. clean' \in BOOLEAN
  BY DEF Flags, Next, OpenShare, Offer, Quit, DropPeer, AddPeer, TakeOffer, Answer, Open, OnClose,
         CloseReturns, Left, CloseNext, Publish, Unpublish, Stopped, Close, Shut, Watch, gui, vars
<1>5. stops' \in 0 .. MaxStops
  <2>1. stops' = stops \/ (stops < MaxStops /\ stops' = stops + 1)
    BY DEF Next, OpenShare, Offer, Quit, DropPeer, AddPeer, TakeOffer, Answer, Open, OnClose,
           CloseReturns, Left, CloseNext, Publish, Unpublish, Stopped, Close, Shut, Watch, Stop,
           sharing, vars
  <2> QED
    BY <2>1, SessionsAssumption DEF Flags
<1>6. late' \subseteq Made'
  <2>1. late' = late \/ (AddPeer /\ late' = late \cup {Len(peer) + 1} /\ Len(peer') = Len(peer) + 1)
    <3>1. AddPeer => late' = late \/ (late' = late \cup {Len(peer) + 1} /\ Len(peer') = Len(peer) + 1)
      BY DEF AddPeer, peers, SessionsInv, Types
    <3>2. ~ AddPeer => late' = late
      BY DEF Next, OpenShare, Offer, Quit, DropPeer, TakeOffer, Answer, Open, OnClose,
             CloseReturns, Left, CloseNext, Publish, Unpublish, Stopped, Close, Shut, Watch,
             peers, vars
    <3> QED
      BY <3>1, <3>2
  <2>2. Made \subseteq Made'
    BY OldPeers DEF Made
  <2>3. Len(peer') = Len(peer) + 1 => Len(peer) + 1 \in Made'
    BY OldPeers DEF Made
  <2> QED
    BY <2>1, <2>2, <2>3 DEF Flags
<1> QED
  BY <1>1, <1>2, <1>3, <1>4, <1>5, <1>6 DEF Flags

\* A task of _drop_peer does not start without emptying the place in the table.
LEMMA EndsToldNext ==
    ASSUME SessionsInv, EndsTold, [Next]_vars PROVE EndsTold'
<1>0. /\ table \in [Receiver -> {Nothing} \cup Made] /\ drops \in [Receiver -> Nat]
      /\ drops' \in [Receiver -> Nat]
      /\ \A p \in Made : p # Nothing /\ peer[p] \in PeerT /\ peer[p].fires \in Nat
  <2>1. table \in [Receiver -> {Nothing} \cup Made] /\ drops \in [Receiver -> Nat] /\ peer \in Seq(PeerT)
    BY DEF SessionsInv, Types
  <2>2. drops' \in [Receiver -> Nat]
    BY SessionsNext DEF SessionsInv, Types
  <2>3. \A p \in Made : p # Nothing /\ peer[p] \in PeerT
    BY <2>1, SessionsAssumption DEF Made
  <2> QED
    BY <2>1, <2>2, <2>3 DEF PeerT
<1> SUFFICES ASSUME NEW r \in Receiver, table'[r] # Nothing, peer'[table'[r]].fires > 0
             PROVE  drops'[r] > 0
  BY DEF EndsTold
<1>1. CASE AddPeer /\ table'[r] # table[r]
  <2> DEFINE e == [of |-> Head(inbox).from, st |-> "new", try |-> Nothing, fires |-> 0]
  <2>1. /\ peer' = Append(peer, e) /\ table' = [table EXCEPT ![Head(inbox).from] = Len(peer) + 1]
        /\ peer \in Seq(PeerT)
    BY <1>1 DEF AddPeer, peers, SessionsInv, Types
  <2>2. table'[r] = Len(peer) + 1
    BY <1>0, <1>1, <2>1
  <2>3. peer'[table'[r]].fires = 0
    BY <2>1, <2>2
  <2> QED
    BY <2>3
<1>2. table'[r] = table[r] \/ table'[r] = Nothing \/ AddPeer
  BY <1>0 DEF Next, OpenShare, Offer, Quit, DropPeer, TakeOffer, Answer, Open, OnClose,
             CloseReturns, Left, CloseNext, Publish, Unpublish, Stopped, Close, Shut, Watch,
             peers, vars
<1>3. CASE table'[r] = table[r]
  <2>1. PICK p \in Made : p = table[r] /\ peer[p].of = r
    BY <1>0, <1>3 DEF SessionsInv, LatestKnown
  <2>2. CASE peer'[p].fires = peer[p].fires
    <3>1. drops[r] > 0
      BY <1>3, <2>1, <2>2 DEF EndsTold
    <3>2. ~ DropPeer(r)
      BY <1>0, <1>3, <2>1 DEF DropPeer
    <3>3. drops'[r] = drops[r] \/ drops'[r] = drops[r] + 1
      <4>1. ASSUME NEW x \in Receiver, x # r, DropPeer(x) PROVE drops'[r] = drops[r]
        BY <1>0, <4>1 DEF DropPeer
      <4>2. ASSUME NEW q \in Made, OnClose(q)
            PROVE  drops'[r] = drops[r] \/ drops'[r] = drops[r] + 1
        BY <1>0, <4>2 DEF OnClose
      <4>3. \/ drops' = drops
            \/ \E x \in Receiver : DropPeer(x)
            \/ \E q \in Made : OnClose(q)
        BY DEF Next, OpenShare, Offer, Quit, AddPeer, TakeOffer, Answer, Open,
               CloseReturns, Left, CloseNext, Publish, Unpublish, Stopped, Close, Shut, Watch,
               ending, vars
      <4> QED
        BY <3>2, <4>1, <4>2, <4>3
    <3> QED
      BY <1>0, <3>1, <3>3
  <2>3. CASE drops'[peer[p].of] = drops[peer[p].of] + 1
    <3>1. drops'[r] = drops[r] + 1 /\ drops[r] \in Nat
      BY <1>0, <2>1, <2>3
    <3> QED
      BY <3>1
  <2> QED
    BY <2>2, <2>3, OldPeers
<1> QED
  BY <1>1, <1>2, <1>3

-----------------------------------------------------------------------------
Event == [what : {"joined", "left"}, who : Receiver]

LEMMA ListTypes ==
    ASSUME SessionsInv, ListLags
    PROVE  /\ news \in Seq(Event) /\ Len(news) \in Nat
           /\ shown \in [Receiver -> Nat] /\ IsFiniteSet(leaving) /\ leaving \subseteq Made
           /\ table \in [Receiver -> {Nothing} \cup Made]
           /\ \A p \in Made : p \in Nat /\ p # Nothing /\ peer[p].of \in Receiver
           /\ \A r \in Receiver : table[r] # Nothing => peer[table[r]].of = r
<1>1. news \in Seq(Event) /\ shown \in [Receiver -> Nat] /\ IsFiniteSet(leaving)
      /\ leaving \subseteq Made
  BY DEF ListLags, Event
<1>2. table \in [Receiver -> {Nothing} \cup Made] /\ peer \in Seq(PeerT)
  BY DEF SessionsInv, Types
<1>3. \A p \in Made : p \in Nat /\ p # Nothing /\ peer[p] \in PeerT
  BY <1>2, SessionsAssumption DEF Made
<1> QED
  BY <1>1, <1>2, <1>3 DEF PeerT, SessionsInv, LatestKnown

LEMMA ListedTypes ==
    ASSUME SessionsInv, ListLags, NEW r \in Receiver, NEW m \in 0 .. Len(news)
    PROVE  /\ Count(news, Joined(r), m) \in Nat /\ Count(news, LeftBy(r), m) \in Nat
           /\ shown[r] \in Nat
           /\ IsFiniteSet(LeavingOf(r)) /\ Cardinality(LeavingOf(r)) \in Nat
<1>1. m \in Nat
  BY ListTypes
<1>2. IsFiniteSet(leaving) /\ LeavingOf(r) \subseteq leaving
  BY ListTypes DEF LeavingOf
<1>3. IsFiniteSet(LeavingOf(r)) /\ Cardinality(LeavingOf(r)) \in Nat
  BY <1>2, FS_Subset, FS_CardinalityType
<1> QED
  BY <1>1, <1>3, CountType, ListTypes

\* Steps that have nothing to do with the list.
LEMMA ListStays ==
    ASSUME SessionsInv, ListLags, [Next]_vars, UNCHANGED <<table, leaving, news, shown, clean>>,
           stop'.op # "closed" => stop.op # "closed"
    PROVE  ListLags'
<1>1. Made \subseteq Made' /\ \A p \in Made : peer'[p].of = peer[p].of
  BY OldPeers DEF Made
<1>2. ASSUME NEW r \in Receiver
      PROVE  LeavingOf(r)' = LeavingOf(r) /\ \A m : Listed(r, m)' = Listed(r, m)
  <2>1. leaving \subseteq Made
    BY ListTypes
  <2> QED
    BY <1>1, <2>1 DEF LeavingOf, Listed
<1> QED
  BY <1>1, <1>2 DEF ListLags

\* What is to be shown of the next state, at its own length of the queue.
LEMMA LagsNow ==
    ASSUME NEW len \in Nat, Len(news') = len, news' \in Seq(Event),
           shown' \in [Receiver -> Nat], IsFiniteSet(leaving'), leaving' \subseteq Made',
           \A r \in Receiver : table'[r] \notin leaving',
           clean' /\ stop'.op # "closed" => \A r \in Receiver :
             /\ \A m \in 0 .. len : Listed(r, m)' >= 0
             /\ Listed(r, len)' =
                  (IF table'[r] = Nothing THEN 0 ELSE 1) + Cardinality(LeavingOf(r))'
    PROVE  ListLags'
<1>1. \A r, m : Listed(r, m)' = shown'[r] + Count(news', Joined(r), m) - Count(news', LeftBy(r), m)
  BY DEF Listed, Joined, LeftBy, Count
<1>2. \A r : Listed(r, Len(news))'
               = shown'[r] + Count(news', Joined(r), Len(news')) - Count(news', LeftBy(r), Len(news'))
  BY DEF Listed, Joined, LeftBy, Count
<1>3. \A r : Listed(r, Len(news))' = Listed(r, len)'
  BY <1>1, <1>2
<1> QED
  BY <1>3 DEF ListLags, Event

\* An event more in the queue.
LEMMA EventAdded ==
    ASSUME SessionsInv, ListLags, NEW e \in Event, NEW len \in Nat, len = Len(news),
           news' = Append(news, e), shown' = shown, NEW r \in Receiver
    PROVE  /\ news' \in Seq(Event) /\ Len(news') = len + 1
           /\ \A m \in 0 .. len : Listed(r, m)' = Listed(r, m)
           /\ Listed(r, len + 1)' = Listed(r, len)
                                      + (IF e \in Joined(r) THEN 1 ELSE 0)
                                      - (IF e \in LeftBy(r) THEN 1 ELSE 0)
           /\ Listed(r, len) \in Int
<1>1. news \in Seq(Event) /\ len \in 0 .. Len(news)
  BY ListTypes
<1>2. news' \in Seq(Event) /\ Len(news') = len + 1
  BY <1>1
<1>3. ASSUME NEW kind
      PROVE  /\ \A m \in 0 .. len : Count(news', kind, m) = Count(news, kind, m)
             /\ Count(news', kind, len + 1)
                  = Count(news, kind, len) + IF e \in kind THEN 1 ELSE 0
  <2>1. /\ \A m \in 0 .. Len(news) : Count(Append(news, e), kind, m) = Count(news, kind, m)
        /\ Count(Append(news, e), kind, Len(news) + 1)
             = Count(news, kind, Len(news)) + IF e \in kind THEN 1 ELSE 0
    BY <1>1, CountAppend
  <2> QED
    BY <2>1
<1>4. \A m : Listed(r, m)' = shown[r] + Count(news', Joined(r), m) - Count(news', LeftBy(r), m)
  BY DEF Listed, Joined, LeftBy, Count
<1>5. /\ shown[r] \in Nat
      /\ \A m \in 0 .. len : Count(news, Joined(r), m) \in Nat /\ Count(news, LeftBy(r), m) \in Nat
  BY ListedTypes
<1>6. ASSUME NEW m \in 0 .. len PROVE Listed(r, m)' = Listed(r, m)
  <2>1. /\ Count(news', Joined(r), m) = Count(news, Joined(r), m)
        /\ Count(news', LeftBy(r), m) = Count(news, LeftBy(r), m)
    BY <1>3
  <2>2. Listed(r, m)' = shown[r] + Count(news', Joined(r), m) - Count(news', LeftBy(r), m)
    BY <1>4
  <2>3. Listed(r, m) = shown[r] + Count(news, Joined(r), m) - Count(news, LeftBy(r), m)
    BY DEF Listed
  <2> QED
    BY <2>1, <2>2, <2>3
<1>7. Listed(r, len + 1)' = Listed(r, len) + (IF e \in Joined(r) THEN 1 ELSE 0)
                                           - (IF e \in LeftBy(r) THEN 1 ELSE 0)
  <2> DEFINE a == Count(news, Joined(r), len)  b == Count(news, LeftBy(r), len)
             c == IF e \in Joined(r) THEN 1 ELSE 0  d == IF e \in LeftBy(r) THEN 1 ELSE 0
  <2>1. len \in 0 .. len
    OBVIOUS
  <2>2. a \in Nat /\ b \in Nat /\ c \in Nat /\ d \in Nat /\ shown[r] \in Nat
    BY <1>5, <2>1
  <2>3. Listed(r, len) = shown[r] + a - b
    BY DEF Listed
  <2>4. Listed(r, len + 1)' = shown[r] + (a + c) - (b + d)
    BY <1>3, <1>4
  <2> HIDE DEF a, b, c, d
  <2>5. Listed(r, len + 1)' = Listed(r, len) + c - d
    BY <2>2, <2>3, <2>4
  <2> QED
    BY <2>5 DEF c, d
<1>8. Listed(r, len) \in Int
  <2>1. len \in 0 .. len
    OBVIOUS
  <2> QED
    BY <1>5, <2>1 DEF Listed
<1> QED
  BY <1>2, <1>6, <1>7, <1>8

\* A receiver joins: it was not in the table and now is, and an event says so.
LEMMA ListJoins ==
    ASSUME SessionsInv, ListLags, AddPeer, [Next]_vars PROVE ListLags'
<1> DEFINE who == Head(inbox).from
<1>1. who \in Receiver
  BY InboxTail DEF AddPeer, MessageT
<1>2. UNCHANGED <<leaving, shown, clean, stop>>
  BY DEF AddPeer, ending, sharing
<1>3. CASE Known(who)
  BY <1>2, <1>3, ListStays DEF AddPeer, peers
<1>4. CASE ~ Known(who)
  <2>1. PICK x \in Receiver : x = who
    BY <1>1
  <2>2. PICK len \in Nat : len = Len(news)
    BY ListTypes
  <2> DEFINE e == [what |-> "joined", who |-> x]
  <2>3. /\ table[x] = Nothing /\ table' = [table EXCEPT ![x] = Len(peer) + 1]
        /\ news' = Append(news, e)
    BY <1>4, <2>1 DEF AddPeer, Known
  <2>4. e \in Event
    BY <2>1 DEF Event
  <2>5. /\ Made \subseteq Made' /\ Len(peer) + 1 \notin Made /\ Len(peer) + 1 # Nothing
        /\ \A p \in Made : peer'[p].of = peer[p].of
    BY OldPeers, SessionsAssumption DEF Made
  <2>6. \A r \in Receiver : (e \in Joined(r) <=> r = x) /\ e \notin LeftBy(r)
    BY DEF Joined, LeftBy
  <2> HIDE DEF e
  <2>7. ASSUME NEW r \in Receiver
        PROVE  /\ news' \in Seq(Event) /\ Len(news') = len + 1
               /\ \A m \in 0 .. len : Listed(r, m)' = Listed(r, m)
               /\ Listed(r, len + 1)' = Listed(r, len) + IF r = x THEN 1 ELSE 0
               /\ Listed(r, len) \in Int
    <3>1. /\ news' \in Seq(Event) /\ Len(news') = len + 1
          /\ \A m \in 0 .. len : Listed(r, m)' = Listed(r, m)
          /\ Listed(r, len + 1)' = Listed(r, len) + (IF e \in Joined(r) THEN 1 ELSE 0)
                                                  - (IF e \in LeftBy(r) THEN 1 ELSE 0)
          /\ Listed(r, len) \in Int
      BY <1>2, <2>2, <2>3, <2>4, EventAdded
    <3>2. (e \in Joined(r) <=> r = x) /\ e \notin LeftBy(r)
      BY <2>6
    <3> QED
      BY <3>1, <3>2
  <2>8. \A r \in Receiver : LeavingOf(r)' = LeavingOf(r)
    BY <1>2, <2>5, ListTypes DEF LeavingOf
  <2>9. \A r \in Receiver : table'[r] = IF r = x THEN Len(peer) + 1 ELSE table[r]
    BY <2>1, <2>3, ListTypes
  <2>10. \A r \in Receiver : table'[r] \notin leaving
    BY <2>5, <2>9, ListTypes DEF ListLags
  <2>11. ASSUME clean, stop.op # "closed", NEW r \in Receiver
         PROVE  /\ \A m \in 0 .. len + 1 : Listed(r, m)' >= 0
                /\ Listed(r, len + 1)' =
                     (IF table'[r] = Nothing THEN 0 ELSE 1) + Cardinality(LeavingOf(r))
    <3>1. /\ \A m \in 0 .. len : Listed(r, m) >= 0
          /\ Listed(r, len) = (IF table[r] = Nothing THEN 0 ELSE 1) + Cardinality(LeavingOf(r))
      BY <2>2, <2>11 DEF ListLags
    <3>2. Cardinality(LeavingOf(r)) \in Nat
      <4>1. len \in 0 .. Len(news)
        BY <2>2
      <4> QED
        BY <4>1, ListedTypes
    <3>3. Listed(r, len + 1)' =
            (IF table'[r] = Nothing THEN 0 ELSE 1) + Cardinality(LeavingOf(r))
      <4>1. table'[r] = Nothing <=> r # x /\ table[r] = Nothing
        BY <2>5, <2>9
      <4>2. r = x => table[r] = Nothing
        BY <2>3
      <4>3. /\ Listed(r, len + 1)' = Listed(r, len) + IF r = x THEN 1 ELSE 0
            /\ Listed(r, len) \in Int
        BY <2>7
      <4> QED
        BY <3>1, <3>2, <4>1, <4>2, <4>3
    <3>4. ASSUME NEW m \in 0 .. len + 1 PROVE Listed(r, m)' >= 0
      <4>1. m \in 0 .. len \/ m = len + 1
        BY <2>2
      <4>2. (IF table'[r] = Nothing THEN 0 ELSE 1) + Cardinality(LeavingOf(r)) >= 0
        BY <3>2
      <4>3. CASE m \in 0 .. len
        BY <2>7, <3>1, <4>3
      <4>4. CASE m = len + 1
        BY <3>3, <4>2, <4>4
      <4> QED
        BY <4>1, <4>3, <4>4
    <3> QED
      BY <3>3, <3>4
  <2>12. \A r \in Receiver : Cardinality(LeavingOf(r))' = Cardinality(LeavingOf(r))
    BY <2>8
  <2>13. news' \in Seq(Event) /\ Len(news') = len + 1
    BY <2>1, <2>7
  <2>14. clean' /\ stop'.op # "closed" => \A r \in Receiver :
          /\ \A m \in 0 .. len + 1 : Listed(r, m)' >= 0
          /\ Listed(r, len + 1)' =
               (IF table'[r] = Nothing THEN 0 ELSE 1) + Cardinality(LeavingOf(r))'
    BY <1>2, <2>11, <2>12
  <2> QED
    BY <1>2, <2>2, <2>5, <2>10, <2>13, <2>14, LagsNow, ListTypes
<1> QED
  BY <1>3, <1>4

\* A connection taken out of the table is leaving; nobody else's are more or fewer.
LEMMA ListDrops ==
    ASSUME SessionsInv, ListLags, NEW x \in Receiver, DropPeer(x), [Next]_vars PROVE ListLags'
<1>1. /\ UNCHANGED <<news, shown, clean, stop>> /\ table' = [table EXCEPT ![x] = Nothing]
      /\ table[x] = Nothing => leaving' = leaving
      /\ table[x] # Nothing => leaving' = leaving \cup {table[x]}
  BY DEF DropPeer, gui, sharing
<1>2. CASE table[x] = Nothing
  <2>1. table' = table
    BY <1>1, <1>2, ListTypes
  <2> QED
    BY <1>1, <1>2, <2>1, ListStays
<1>3. CASE table[x] # Nothing
  <2>1. PICK p \in Made : p = table[x] /\ peer[p].of = x
    BY <1>3, ListTypes
  <2>2. PICK len \in Nat : len = Len(news)
    BY ListTypes
  <2>3. /\ Made \subseteq Made' /\ \A q \in Made : peer'[q].of = peer[q].of
    BY OldPeers DEF Made
  <2>4. /\ IsFiniteSet(leaving) /\ leaving \subseteq Made /\ p \notin leaving
        /\ leaving' = leaving \cup {p}
    BY <1>1, <1>3, <2>1, ListTypes DEF ListLags
  <2>5. \A r \in Receiver : table'[r] = IF r = x THEN Nothing ELSE table[r]
    BY <1>1, ListTypes
  <2>6. ASSUME NEW r \in Receiver
        PROVE  /\ Cardinality(LeavingOf(r)) \in Nat
               /\ Cardinality(LeavingOf(r))' = Cardinality(LeavingOf(r)) + IF r = x THEN 1 ELSE 0
    <3>1. LeavingOf(r)' = IF r = x THEN LeavingOf(r) \cup {p} ELSE LeavingOf(r)
      BY <2>1, <2>3, <2>4 DEF LeavingOf
    <3>2. IsFiniteSet(LeavingOf(r)) /\ Cardinality(LeavingOf(r)) \in Nat
      <4>1. len \in 0 .. Len(news)
        BY <2>2
      <4> QED
        BY <4>1, ListedTypes
    <3>3. Cardinality(LeavingOf(r) \cup {p}) = Cardinality(LeavingOf(r)) + 1
      <4>1. p \notin LeavingOf(r)
        BY <2>4 DEF LeavingOf
      <4> QED
        BY <3>2, <4>1, FS_AddElement
    <3>4. CASE r = x
      BY <3>1, <3>2, <3>3, <3>4
    <3>5. CASE r # x
      <4>1. Cardinality(LeavingOf(r))' = Cardinality(LeavingOf(r))
        BY <3>1, <3>5
      <4> QED
        BY <3>2, <3>5, <4>1
    <3> QED
      BY <3>4, <3>5
  <2>7. /\ IsFiniteSet(leaving') /\ leaving' \subseteq Made'
        /\ \A r \in Receiver : table'[r] \notin leaving'
    <3>1. IsFiniteSet(leaving')
      BY <2>4, FS_AddElement
    <3>2. \A r \in Receiver : r # x => table[r] # p
      BY <2>1, ListTypes
    <3>3. Nothing \notin leaving'
      BY <2>4, ListTypes
    <3> QED
      BY <2>3, <2>4, <2>5, <3>1, <3>2, <3>3 DEF ListLags
  <2>8. \A r \in Receiver, m \in 0 .. len : Listed(r, m)' = Listed(r, m)
    BY <1>1 DEF Listed
  <2>9. ASSUME clean, stop.op # "closed", NEW r \in Receiver
        PROVE  /\ \A m \in 0 .. len : Listed(r, m)' >= 0
               /\ Listed(r, len)' =
                    (IF table'[r] = Nothing THEN 0 ELSE 1) + Cardinality(LeavingOf(r))'
    <3>1. /\ \A m \in 0 .. len : Listed(r, m) >= 0
          /\ Listed(r, len) = (IF table[r] = Nothing THEN 0 ELSE 1) + Cardinality(LeavingOf(r))
      BY <2>2, <2>9 DEF ListLags
    <3>2. len \in 0 .. len
      OBVIOUS
    <3>3. Listed(r, len)' = (IF table[r] = Nothing THEN 0 ELSE 1) + Cardinality(LeavingOf(r))
      BY <2>8, <3>1, <3>2
    <3>4. CASE r = x
      BY <1>3, <2>5, <2>6, <2>8, <3>1, <3>3, <3>4
    <3>5. CASE r # x
      <4>1. /\ Cardinality(LeavingOf(r))' = Cardinality(LeavingOf(r))
            /\ table'[r] = table[r]
        BY <2>5, <2>6, <3>5
      <4> QED
        BY <2>8, <3>1, <3>3, <4>1
    <3> QED
      BY <3>4, <3>5
  <2> QED
    <3>1. news' \in Seq(Event) /\ Len(news') = len /\ shown' \in [Receiver -> Nat]
      BY <1>1, <2>2, ListTypes
    <3>2. clean' /\ stop'.op # "closed" => \A r \in Receiver :
             /\ \A m \in 0 .. len : Listed(r, m)' >= 0
             /\ Listed(r, len)' =
                  (IF table'[r] = Nothing THEN 0 ELSE 1) + Cardinality(LeavingOf(r))'
      BY <1>1, <2>9
    <3> QED
      BY <2>2, <2>7, <3>1, <3>2, LagsNow
<1> QED
  BY <1>2, <1>3

\* The end of a connection that was leaving is told to the list.
LEMMA ListLeaves ==
    ASSUME SessionsInv, ListLags, NEW p \in Made, Left(p), [Next]_vars PROVE ListLags'
<1>1. UNCHANGED <<peer, table, shown, clean, stop>> /\ p \in leaving /\ leaving' = leaving \ {p}
  BY DEF Left, peers, sharing
<1>2. PICK x \in Receiver : x = peer[p].of
  BY ListTypes
<1>3. PICK len \in Nat : len = Len(news)
  BY ListTypes
<1> DEFINE e == [what |-> "left", who |-> x]
<1>4. news' = Append(news, e) /\ e \in Event
  BY <1>2 DEF Left, Event
<1>5. \A r \in Receiver : (e \in LeftBy(r) <=> r = x) /\ e \notin Joined(r)
  BY DEF Joined, LeftBy
<1> HIDE DEF e
<1>6. ASSUME NEW r \in Receiver
      PROVE  /\ news' \in Seq(Event) /\ Len(news') = len + 1
             /\ \A m \in 0 .. len : Listed(r, m)' = Listed(r, m)
             /\ Listed(r, len + 1)' = Listed(r, len) - IF r = x THEN 1 ELSE 0
             /\ Listed(r, len) \in Int
  <2>1. /\ news' \in Seq(Event) /\ Len(news') = len + 1
        /\ \A m \in 0 .. len : Listed(r, m)' = Listed(r, m)
        /\ Listed(r, len + 1)' = Listed(r, len) + (IF e \in Joined(r) THEN 1 ELSE 0)
                                                - (IF e \in LeftBy(r) THEN 1 ELSE 0)
        /\ Listed(r, len) \in Int
    BY <1>1, <1>3, <1>4, EventAdded
  <2>2. (e \in LeftBy(r) <=> r = x) /\ e \notin Joined(r)
    BY <1>5
  <2> QED
    BY <2>1, <2>2
<1>7. ASSUME NEW r \in Receiver
      PROVE  /\ Cardinality(LeavingOf(r)) \in Nat /\ Cardinality(LeavingOf(r))' \in Nat
             /\ Cardinality(LeavingOf(r))' = Cardinality(LeavingOf(r)) - IF r = x THEN 1 ELSE 0
  <2>1. LeavingOf(r)' = IF r = x THEN LeavingOf(r) \ {p} ELSE LeavingOf(r)
    BY <1>1, <1>2 DEF LeavingOf
  <2>2. IsFiniteSet(LeavingOf(r)) /\ Cardinality(LeavingOf(r)) \in Nat
    <3>1. len \in 0 .. Len(news)
      BY <1>3
    <3> QED
      BY <3>1, ListedTypes
  <2>3. CASE r = x
    <3>1. p \in LeavingOf(r)
      BY <1>1, <1>2, <2>3 DEF LeavingOf
    <3>2. /\ Cardinality(LeavingOf(r) \ {p}) = Cardinality(LeavingOf(r)) - 1
          /\ IsFiniteSet(LeavingOf(r) \ {p})
      BY <2>2, <3>1, FS_RemoveElement
    <3>3. Cardinality(LeavingOf(r) \ {p}) \in Nat
      BY <3>2, FS_CardinalityType
    <3>4. Cardinality(LeavingOf(r))' = Cardinality(LeavingOf(r) \ {p})
      BY <2>1, <2>3
    <3> QED
      BY <2>2, <2>3, <3>2, <3>3, <3>4
  <2>4. CASE r # x
    <3>1. Cardinality(LeavingOf(r))' = Cardinality(LeavingOf(r))
      BY <2>1, <2>4
    <3> QED
      BY <2>2, <2>4, <3>1
  <2> QED
    BY <2>3, <2>4
<1>8. /\ IsFiniteSet(leaving') /\ leaving' \subseteq Made'
      /\ \A r \in Receiver : table'[r] \notin leaving'
  <2>1. IsFiniteSet(leaving')
    <3>1. IsFiniteSet(leaving) /\ leaving' \subseteq leaving
      BY <1>1, ListTypes
    <3> QED
      BY <3>1, FS_Subset
  <2> QED
    BY <1>1, <2>1, ListTypes DEF ListLags, Made
<1>9. ASSUME clean, stop.op # "closed", NEW r \in Receiver
      PROVE  /\ \A m \in 0 .. len + 1 : Listed(r, m)' >= 0
             /\ Listed(r, len + 1)' =
                  (IF table'[r] = Nothing THEN 0 ELSE 1) + Cardinality(LeavingOf(r))'
  <2>1. /\ \A m \in 0 .. len : Listed(r, m) >= 0
        /\ Listed(r, len) = (IF table[r] = Nothing THEN 0 ELSE 1) + Cardinality(LeavingOf(r))
    BY <1>3, <1>9 DEF ListLags
  <2>2. Listed(r, len + 1)' = Listed(r, len) - IF r = x THEN 1 ELSE 0
    BY <1>6
  <2>3. Listed(r, len + 1)' =
          (IF table[r] = Nothing THEN 0 ELSE 1) + Cardinality(LeavingOf(r))'
    BY <1>7, <2>1, <2>2
  <2>4. Listed(r, len + 1)' >= 0
    BY <1>7, <2>3
  <2>5. ASSUME NEW m \in 0 .. len + 1 PROVE Listed(r, m)' >= 0
    <3>1. m \in 0 .. len \/ m = len + 1
      OBVIOUS
    <3>2. CASE m \in 0 .. len
      BY <1>6, <2>1, <3>2
    <3>3. CASE m = len + 1
      BY <2>4, <3>3
    <3> QED
      BY <3>1, <3>2, <3>3
  <2> QED
    BY <1>1, <2>3, <2>5
<1> QED
  <2>1. news' \in Seq(Event) /\ Len(news') = len + 1 /\ shown' \in [Receiver -> Nat]
    BY <1>1, <1>2, <1>6, ListTypes
  <2>2. clean' /\ stop'.op # "closed" => \A r \in Receiver :
           /\ \A m \in 0 .. len + 1 : Listed(r, m)' >= 0
           /\ Listed(r, len + 1)' =
                (IF table'[r] = Nothing THEN 0 ELSE 1) + Cardinality(LeavingOf(r))'
    BY <1>1, <1>9
  <2> QED
    BY <1>3, <1>8, <2>1, <2>2, LagsNow

\* unpublish empties table and list; only when nothing was under way can the list be exact.
LEMMA ListCleared ==
    ASSUME SessionsInv, ListLags, Stopped, [Next]_vars PROVE ListLags'
<1>1. /\ UNCHANGED <<news, leaving>> /\ table' = [r \in Receiver |-> Nothing]
      /\ shown' = [r \in Receiver |-> 0]
      /\ clean' => news = <<>> /\ leaving = {}
  BY DEF Stopped, ending
<1>2. PICK len \in Nat : len = Len(news)
  BY ListTypes
<1>3. /\ IsFiniteSet(leaving') /\ leaving' \subseteq Made'
      /\ \A r \in Receiver : table'[r] \notin leaving'
  BY <1>1, OldPeers, ListTypes DEF Made
<1>4. ASSUME clean', NEW r \in Receiver
      PROVE  /\ \A m \in 0 .. len : Listed(r, m)' >= 0
             /\ Listed(r, len)' =
                  (IF table'[r] = Nothing THEN 0 ELSE 1) + Cardinality(LeavingOf(r))'
  <2>1. len = 0
    BY <1>1, <1>2, <1>4
  <2>2. Listed(r, 0)' = 0
    <3>1. Listed(r, 0)' = shown'[r] + Count(news', Joined(r), 0) - Count(news', LeftBy(r), 0)
      BY DEF Listed, Joined, LeftBy, Count
    <3>2. Count(news', Joined(r), 0) = 0 /\ Count(news', LeftBy(r), 0) = 0
      BY CountNone
    <3>3. shown'[r] = 0
      BY <1>1
    <3> QED
      BY <3>1, <3>2, <3>3
  <2>3. Cardinality(LeavingOf(r))' = 0
    <3>1. LeavingOf(r)' = {}
      BY <1>1, <1>4 DEF LeavingOf
    <3> QED
      BY <3>1, FS_EmptySet
  <2>4. table'[r] = Nothing
    BY <1>1
  <2> QED
    BY <2>1, <2>2, <2>3, <2>4
<1> QED
  <2>1. news' \in Seq(Event) /\ Len(news') = len /\ shown' \in [Receiver -> Nat]
    BY <1>1, <1>2, ListTypes
  <2> QED
    BY <1>2, <1>3, <1>4, <2>1, LagsNow

LEMMA ListShut ==
    ASSUME SessionsInv, ListLags, Shut, [Next]_vars PROVE ListLags'
<1>1. /\ UNCHANGED <<news, leaving, shown>> /\ table' = [r \in Receiver |-> Nothing]
      /\ stop'.op = "closed"
  BY DEF Shut, ending, gui, NotStopping
<1>2. /\ IsFiniteSet(leaving') /\ leaving' \subseteq Made'
      /\ \A r \in Receiver : table'[r] \notin leaving'
  BY <1>1, OldPeers, ListTypes DEF Made
<1>3. PICK len \in Nat : len = Len(news)
  BY ListTypes
<1>4. news' \in Seq(Event) /\ Len(news') = len /\ shown' \in [Receiver -> Nat]
  BY <1>1, <1>3, ListTypes
<1> QED
  BY <1>1, <1>2, <1>3, <1>4, LagsNow

\* The first event is handled; one that says a receiver left finds it in the list.
LEMMA ListWatched ==
    ASSUME SessionsInv, ListLags, Watch, [Next]_vars PROVE ListLags'
<1>1. /\ UNCHANGED <<table, peer, leaving, clean, stop>> /\ news # <<>> /\ news' = Tail(news)
      /\ shown' = [shown EXCEPT ![Head(news).who] =
                     IF Head(news).what = "joined" THEN @ + 1 ELSE Removed(@)]
  BY DEF Watch, peers, ending, sharing
<1>2. /\ news \in Seq(Event) /\ Len(news) \in Nat \ {0} /\ Len(Tail(news)) = Len(news) - 1
      /\ Head(news) \in Event /\ Tail(news) \in Seq(Event)
  BY <1>1, ListTypes
<1>3. PICK len \in Nat : len + 1 = Len(news)
  <2>1. Len(news) - 1 \in Nat /\ (Len(news) - 1) + 1 = Len(news)
    BY <1>2
  <2> QED
    BY <2>1
<1>4. PICK e \in Event : e = Head(news)
  BY <1>2
<1>5. shown \in [Receiver -> Nat] /\ e.who \in Receiver /\ e.what \in {"joined", "left"}
  BY ListTypes DEF Event
<1>6. \A r \in Receiver :
        /\ e \in Joined(r) <=> r = e.who /\ e.what = "joined"
        /\ e \in LeftBy(r) <=> r = e.who /\ e.what = "left"
  BY DEF Joined, LeftBy, Event
<1>7. shown' \in [Receiver -> Nat]
  BY <1>1, <1>4, <1>5 DEF Removed
<1>8. /\ IsFiniteSet(leaving') /\ leaving' \subseteq Made'
      /\ \A r \in Receiver : table'[r] \notin leaving'
  BY <1>1, ListTypes DEF ListLags, Made
<1>9. \A r \in Receiver : Cardinality(LeavingOf(r))' = Cardinality(LeavingOf(r))
  <2>1. \A r \in Receiver : LeavingOf(r)' = LeavingOf(r)
    BY <1>1 DEF LeavingOf
  <2> QED
    BY <2>1
<1>10. ASSUME NEW r \in Receiver, NEW m \in 0 .. len,
              e \in LeftBy(r) => shown[r] > 0
       PROVE  Listed(r, m)' = Listed(r, m + 1)
  <2> DEFINE a == Count(Tail(news), Joined(r), m)  b == Count(Tail(news), LeftBy(r), m)
             c == IF e \in Joined(r) THEN 1 ELSE 0  d == IF e \in LeftBy(r) THEN 1 ELSE 0
  <2>1. m \in 0 .. Len(news) - 1 /\ m \in Nat
    BY <1>2, <1>3
  <2>2. /\ Count(news, Joined(r), m + 1) = a + c
        /\ Count(news, LeftBy(r), m + 1) = b + d
    BY <1>1, <1>2, <1>4, <2>1, CountTail
  <2>3. a \in Nat /\ b \in Nat /\ c \in Nat /\ d \in Nat /\ shown[r] \in Nat
    BY <1>5, <2>1, CountType
  <2>4. Listed(r, m)' = shown'[r] + a - b
    <3>1. Listed(r, m)' = shown'[r] + Count(news', Joined(r), m) - Count(news', LeftBy(r), m)
      BY DEF Listed, Joined, LeftBy, Count
    <3> QED
      BY <1>1, <3>1
  <2>5. Listed(r, m + 1) = shown[r] + (a + c) - (b + d)
    BY <2>2 DEF Listed
  <2>6. shown'[r] = shown[r] + c - d
    <3>1. CASE r # e.who
      BY <1>1, <1>4, <1>5, <1>6, <3>1
    <3>2. CASE r = e.who /\ e.what = "joined"
      BY <1>1, <1>4, <1>5, <1>6, <3>2
    <3>3. CASE r = e.who /\ e.what = "left"
      <4>1. shown[r] > 0 /\ c = 0 /\ d = 1
        BY <1>6, <1>10, <3>3
      <4>2. shown'[r] = Removed(shown[r])
        BY <1>1, <1>4, <1>5, <3>3
      <4>3. shown'[r] = shown[r] - 1
        BY <4>1, <4>2 DEF Removed
      <4> QED
        BY <2>3, <4>1, <4>3
    <3> QED
      BY <1>5, <3>1, <3>2, <3>3
  <2> HIDE DEF a, b, c, d
  <2> QED
    BY <2>3, <2>4, <2>5, <2>6
<1>11. ASSUME clean, stop.op # "closed", NEW r \in Receiver
       PROVE  /\ \A m \in 0 .. len : Listed(r, m)' >= 0
              /\ Listed(r, len)' =
                   (IF table'[r] = Nothing THEN 0 ELSE 1) + Cardinality(LeavingOf(r))'
  <2>1. /\ \A m \in 0 .. Len(news) : Listed(r, m) >= 0
        /\ Listed(r, Len(news)) =
             (IF table[r] = Nothing THEN 0 ELSE 1) + Cardinality(LeavingOf(r))
    BY <1>11 DEF ListLags
  <2>2. e \in LeftBy(r) => shown[r] > 0
    <3> SUFFICES ASSUME e \in LeftBy(r) PROVE shown[r] > 0
      OBVIOUS
    <3>1. Listed(r, 1) >= 0
      BY <1>2, <2>1
    <3>2. /\ Count(news, Joined(r), 0 + 1) = Count(Tail(news), Joined(r), 0)
                                               + (IF e \in Joined(r) THEN 1 ELSE 0)
          /\ Count(news, LeftBy(r), 0 + 1) = Count(Tail(news), LeftBy(r), 0)
                                               + (IF e \in LeftBy(r) THEN 1 ELSE 0)
      <4>1. 0 \in 0 .. Len(news) - 1
        BY <1>2
      <4> QED
        BY <1>1, <1>2, <1>4, <4>1, CountTail
    <3>3. Count(Tail(news), Joined(r), 0) = 0 /\ Count(Tail(news), LeftBy(r), 0) = 0
      BY CountNone
    <3>4. e \notin Joined(r)
      BY <1>6
    <3>5. Count(news, Joined(r), 1) = 0 /\ Count(news, LeftBy(r), 1) = 1
      BY <3>2, <3>3, <3>4
    <3> QED
      BY <1>5, <3>1, <3>5 DEF Listed
  <2>3. ASSUME NEW m \in 0 .. len PROVE Listed(r, m)' >= 0
    <3>1. m + 1 \in 0 .. Len(news)
      BY <1>3
    <3>2. Listed(r, m)' = Listed(r, m + 1)
      BY <1>10, <2>2
    <3> QED
      BY <2>1, <3>1, <3>2
  <2>4. Listed(r, len)' = Listed(r, len + 1)
    BY <1>10, <2>2
  <2> QED
    BY <1>1, <1>3, <1>9, <2>1, <2>3, <2>4
<1> QED
  <2>1. news' \in Seq(Event) /\ Len(news') = len
    <3>1. Len(news) - 1 = len
      BY <1>3
    <3>2. Len(Tail(news)) = Len(news) - 1
      BY <1>2
    <3>3. Len(Tail(news)) = len
      BY <3>1, <3>2, Zenon
    <3> QED
      BY <1>1, <1>2, <3>3
  <2>2. clean' /\ stop'.op # "closed" => \A r \in Receiver :
           /\ \A m \in 0 .. len : Listed(r, m)' >= 0
           /\ Listed(r, len)' =
                (IF table'[r] = Nothing THEN 0 ELSE 1) + Cardinality(LeavingOf(r))'
    BY <1>1, <1>11
  <2> QED
    BY <1>3, <1>7, <1>8, <2>1, <2>2, LagsNow

LEMMA ListNext ==
    SessionsInv /\ ListLags /\ [Next]_vars => ListLags'
<1> SUFFICES ASSUME SessionsInv, ListLags, [Next]_vars PROVE ListLags'
  OBVIOUS
<1>1. ASSUME NEW r \in Receiver, OpenShare(r) \/ Offer(r) \/ Quit(r) PROVE ListLags'
  BY <1>1, ListStays DEF OpenShare, Offer, Quit, peers, ending, sharing, gui
<1>2. CASE TakeOffer \/ Answer \/ Publish
  BY <1>2, ListStays DEF TakeOffer, Answer, Publish, peers, ending, sharing, gui
<1>3. ASSUME NEW p \in Made, Open(p) \/ OnClose(p) \/ CloseReturns(p) PROVE ListLags'
  BY <1>3, ListStays DEF Open, OnClose, CloseReturns, ending, sharing, gui
<1>4. ASSUME NEW p \in Made, CloseNext(p) PROVE ListLags'
  <2>1. UNCHANGED <<table, leaving, news, shown, clean>> /\ stop.op # "closed"
    BY <1>4 DEF CloseNext, CurrentClosed, Stopping, ending, gui
  <2> QED
    BY <2>1, ListStays
<1>5. CASE Unpublish \/ Close
  <2>1. UNCHANGED <<table, leaving, news, shown, clean>> /\ stop.op # "closed"
    BY <1>5 DEF Unpublish, Close, Stop, peers, ending, gui
  <2> QED
    BY <2>1, ListStays
<1>6. CASE UNCHANGED vars
  BY <1>6, ListStays DEF vars, peers, ending, sharing, gui
<1> QED
  BY <1>1, <1>2, <1>3, <1>4, <1>5, <1>6, ListJoins, ListDrops, ListLeaves, ListCleared, ListShut,
     ListWatched DEF Next

SessionsAll == SessionsInv /\ TriesBounded /\ Flags /\ ListLags /\ EndsTold

LEMMA SessionsBegin == Init => SessionsAll
<1> SUFFICES ASSUME Init PROVE SessionsAll
  OBVIOUS
<1>1. SessionsInv
  BY SessionsStart
<1>2. Made = {} /\ peer = <<>> /\ inbox = <<>> /\ news = <<>> /\ tries = 0 /\ gone = {} /\ leaving = {}
  BY DEF Init, Made
<1>3. TriesBounded
  <2>1. Count(inbox, Request, Len(inbox)) = 0
    <3>1. Len(inbox) = 0 /\ Count(inbox, Request, 0) = 0
      BY <1>2, CountNone
    <3> QED
      BY <3>1
  <2>2. Len(peer) = 0 /\ Len(inbox) = 0
    BY <1>2
  <2> QED
    BY <1>2, <2>1, <2>2, SessionsAssumption DEF Init, TriesBounded
<1>4. Flags
  <2>1. stops \in 0 .. MaxStops
    BY SessionsAssumption DEF Init
  <2> QED
    BY <2>1 DEF Init, Flags
<1>5. EndsTold
  BY DEF Init, EndsTold
<1>6. ListLags
  <2>1. ASSUME NEW r \in Receiver PROVE Listed(r, 0) = 0 /\ Cardinality(LeavingOf(r)) = 0
    <3>1. LeavingOf(r) = {}
      BY <1>2 DEF LeavingOf
    <3>2. shown[r] = 0
      BY DEF Init
    <3>3. Count(news, Joined(r), 0) = 0 /\ Count(news, LeftBy(r), 0) = 0
      BY CountNone
    <3> QED
      BY <3>1, <3>2, <3>3, FS_EmptySet DEF Listed
  <2>2. IsFiniteSet(leaving)
    BY <1>2, FS_EmptySet
  <2>3. Len(news) = 0 /\ \A m \in 0 .. Len(news) : m = 0
    BY <1>2
  <2>4. shown \in [Receiver -> Nat] /\ \A r \in Receiver : table[r] = Nothing
    BY DEF Init
  <2>5. ASSUME NEW r \in Receiver
        PROVE  /\ \A m \in 0 .. Len(news) : Listed(r, m) >= 0
               /\ Listed(r, Len(news)) = 0 /\ Cardinality(LeavingOf(r)) = 0
    <3>1. Listed(r, 0) = 0 /\ Cardinality(LeavingOf(r)) = 0
      BY <2>1
    <3>2. Listed(r, 0) >= 0
      BY <3>1
    <3>3. ASSUME NEW m \in 0 .. Len(news) PROVE Listed(r, m) >= 0
      <4>1. m = 0
        BY <2>3
      <4> QED
        BY <3>2, <4>1
    <3> QED
      BY <2>3, <3>1, <3>3
  <2> QED
    BY <1>2, <2>2, <2>4, <2>5 DEF ListLags
<1> QED
  BY <1>1, <1>3, <1>4, <1>5, <1>6 DEF SessionsAll

LEMMA SessionsStep ==
    SessionsAll /\ [Next]_vars => SessionsAll'
BY SessionsNext, TriesNext, FlagsNext, ListNext, EndsToldNext DEF SessionsAll

LEMMA SessionsTypes ==
    ASSUME SessionsAll PROVE TypeOK
<1>1. SessionsInv /\ TriesBounded /\ Flags /\ ListLags /\ Types
  BY DEF SessionsAll, SessionsInv
<1>2. tries \in 0 .. MaxTries /\ Len(peer) \in 0 .. MaxTries /\ MaxTries \in Nat
  BY <1>1, BoundTypes DEF TriesBounded
<1>3. 1 .. tries \subseteq Try /\ Made \subseteq PId
  BY <1>2 DEF Try, PId, Made
<1>4. own \in [Receiver -> {Nothing} \cup Try] /\ gone \subseteq Try
  BY <1>1, <1>3 DEF Types, TriesBounded
<1>5. inbox \in Seq(Message)
  <2>1. inbox \in Seq(MessageT) /\ \A n \in 1 .. Len(inbox) : inbox[n].try \in {Nothing} \cup Try
    BY <1>1, <1>3 DEF Types, TriesBounded
  <2>2. \A n \in 1 .. Len(inbox) : inbox[n] \in MessageT
    BY <2>1
  <2>3. \A n \in 1 .. Len(inbox) : inbox[n] \in Message
    BY <2>1, <2>2 DEF Message, MessageT
  <2> QED
    BY <2>1, <2>3
<1>6. peer \in Seq(Peer)
  <2>1. peer \in Seq(PeerT) /\ \A p \in 1 .. Len(peer) : peer[p].try \in {Nothing} \cup Try
                                                          /\ peer[p].fires <= MaxFires
    BY <1>1, <1>3 DEF Types, TriesBounded, Made
  <2>2. \A p \in 1 .. Len(peer) : peer[p] \in PeerT
    BY <2>1
  <2>3. \A p \in 1 .. Len(peer) : peer[p].fires \in 0 .. MaxFires
    BY <2>1, <2>2, SessionsAssumption DEF PeerT
  <2>4. \A p \in 1 .. Len(peer) : peer[p] \in Peer
    BY <2>1, <2>2, <2>3 DEF Peer, PeerT
  <2> QED
    BY <2>1, <2>4
<1> QED
  BY <1>1, <1>2, <1>3, <1>4, <1>5, <1>6 DEF TypeOK, Types, TriesBounded, Flags, ListLags

\* For any number of receivers, tries and stops the state has its type: there are no
\* more Peers than calls of open_share, none is told of more ends than it has, and
\* the GUI's list never holds a negative number of a receiver's items.
THEOREM SessionsTypeCorrect == Spec => []TypeOK
<1>1. SessionsAll => TypeOK
  BY SessionsTypes
<1> QED
  BY <1>1, SessionsBegin, SessionsStep, PTL DEF Spec

\* For any number of receivers, in any order of requests, events and closes: when
\* nothing is under way the GUI lists each receiver that has a connection once, and
\* nobody else, unless unpublish once ended with something under way.
THEOREM ListIsExact == Spec => []ListExact
<1>1. ASSUME SessionsAll PROVE ListExact
  <2> SUFFICES ASSUME clean, news = <<>>, leaving = {}, stop.op # "closed", NEW r \in Receiver
               PROVE  shown[r] = IF table[r] = Nothing THEN 0 ELSE 1
    BY DEF ListExact
  <2>1. SessionsInv /\ ListLags
    BY <1>1 DEF SessionsAll
  <2>2. Len(news) = 0 /\ shown[r] \in Nat
    BY <2>1, ListTypes
  <2>3. Listed(r, 0) = (IF table[r] = Nothing THEN 0 ELSE 1) + Cardinality(LeavingOf(r))
    BY <2>1, <2>2 DEF ListLags
  <2>4. Cardinality(LeavingOf(r)) = 0
    <3>1. LeavingOf(r) = {}
      BY DEF LeavingOf
    <3> QED
      BY <3>1, FS_EmptySet
  <2>5. Listed(r, 0) = shown[r]
    <3>1. Count(news, Joined(r), 0) = 0 /\ Count(news, LeftBy(r), 0) = 0
      BY CountNone
    <3> QED
      BY <2>2, <3>1 DEF Listed
  <2> QED
    BY <2>3, <2>4, <2>5
<1> QED
  BY <1>1, SessionsBegin, SessionsStep, PTL DEF Spec

\* For any number of receivers and events: while the table holds a connection that
\* has told its end, a task of _drop_peer for its receiver has still to run.
THEOREM ToldAreDropped == Spec => []ToldWillBeDropped
<1>1. SessionsAll => ToldWillBeDropped
  BY DEF SessionsAll, EndsTold, ToldWillBeDropped
<1> QED
  BY <1>1, SessionsBegin, SessionsStep, PTL DEF Spec

=============================================================================
