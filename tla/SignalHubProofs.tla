--------------------------- MODULE SignalHubProofs ---------------------------
(***************************************************************************)
(* What SignalHub guarantees for every number of connections, accounts,    *)
(* shares and messages.                                                    *)
(***************************************************************************)
EXTENDS SignalHub, TLAPS

-----------------------------------------------------------------------------
(* Type correctness. *)

\* The messages a handler queues are messages.
LEMMA MessageType ==
    /\ \A c \in Conn, what \in {"reply", "request", "signal"} : ToOne(what, c) \in Message
    /\ \A what \in {"presence", "changed"} : ToAll(what) \in Message
    /\ \A c, o \in Conn : Ready(c, o) \in Message
BY DEF ToOne, ToAll, Ready, Message

\* What a coroutine is sending has a list of recipients.
LEMMA SendingType ==
    ASSUME TypeOK, NEW c \in Conn, todo[c] # <<>>
    PROVE  Sending(c) \in Message /\ Sending(c).to \in SUBSET Conn
<1> DEFINE m == Head(todo[c])
<1>1. m \in Message
  BY DEF TypeOK
<1>2. OnlineAccounts \subseteq Account /\ clients \in SUBSET Conn
  BY DEF OnlineAccounts, TypeOK
<1>3. Sending(c) = IF m.to = Everyone
                   THEN [m EXCEPT !.to = clients,
                                  !.info = IF m.what = "presence" THEN OnlineAccounts ELSE {}]
                   ELSE m
  BY DEF Sending
<1> HIDE DEF m
<1>4. CASE m.to = Everyone
  BY <1>1, <1>2, <1>3, <1>4 DEF Message
<1>5. CASE m.to # Everyone
  BY <1>1, <1>3, <1>5 DEF Message
<1> QED
  BY <1>4, <1>5

LEMMA TypeInit == Init => TypeOK
BY BoundAssumption DEF Init, TypeOK, Inbox

\* A handler queues its answers.
LEMMA AnswersType ==
    ASSUME TypeOK, NEW c \in Conn, NEW q \in Seq(Message), Answers(c, q)
    PROVE  todo' \in [Conn -> Seq(Message)]
BY DEF TypeOK, Answers

\* A client notes a message.
LEMMA NoteType ==
    ASSUME TypeOK, NEW r \in Conn, NEW c \in Conn, todo[c] # <<>>
    PROVE  Note(inbox[r], c, Sending(c)) \in Inbox
<1> DEFINE m == Sending(c)
<1>1. m \in Message /\ inbox[r] \in Inbox
  BY SendingType DEF TypeOK
<1> HIDE DEF m
<1>2. m.what = "presence" => m.info \subseteq Account
  BY <1>1 DEF Message
<1>3. m.what = "ready" => m.info \subseteq Conn
  BY <1>1 DEF Message
<1> QED
  BY <1>1, <1>2, <1>3 DEF Note, Inbox, m

\* Sending leaves what follows the message in its place.
LEMMA SendType ==
    ASSUME TypeOK, NEW c \in Conn, Send(c)
    PROVE  TypeOK'
<1> DEFINE m == Sending(c)
<1>1. todo[c] # <<>>
  BY DEF Send
<1>2. m \in Message /\ m.to \in SUBSET Conn /\ todo[c] \in Seq(Message)
  BY <1>1, SendingType DEF TypeOK
<1>3. UNCHANGED <<tables, link, handled>>
  BY DEF Send
<1>4. CASE /\ m.to = {}
           /\ todo' = [todo EXCEPT ![c] = Tail(@)]
           /\ UNCHANGED <<inbox, unheard>>
  <2>1. Tail(todo[c]) \in Seq(Message)
    BY <1>1, <1>2
  <2> QED
    BY <1>3, <1>4, <2>1 DEF TypeOK, tables
<1>5. ASSUME NEW r \in m.to,
             todo' = [todo EXCEPT ![c] =
                        IF m.to = {r} THEN Tail(@)
                        ELSE <<[m EXCEPT !.to = @ \ {r}]>> \o Tail(@)],
             inbox' = IF Delivered(r, m)
                      THEN [inbox EXCEPT ![r] = Note(@, c, m)] ELSE inbox,
             unheard' = IF Delivered(r, m) /\ m.what = "changed"
                        THEN unheard \ {r} ELSE unheard
      PROVE  TypeOK'
  <2>1. Tail(todo[c]) \in Seq(Message)
    BY <1>1, <1>2
  <2>2. [m EXCEPT !.to = @ \ {r}] \in Message
    <3> HIDE DEF m
    <3> QED
      BY <1>2 DEF Message
  <2>3. <<[m EXCEPT !.to = @ \ {r}]>> \o Tail(todo[c]) \in Seq(Message)
    BY <2>1, <2>2
  <2>4. todo' \in [Conn -> Seq(Message)]
    BY <1>5, <2>1, <2>3 DEF TypeOK
  <2>5. r \in Conn
    BY <1>2
  <2>6. Note(inbox[r], c, m) \in Inbox
    BY <1>1, <2>5, NoteType
  <2>7. inbox' \in [Conn -> Inbox]
    BY <1>5, <2>5, <2>6 DEF TypeOK
  <2> QED
    BY <1>3, <1>5, <2>4, <2>7 DEF TypeOK, tables
<1> QED
  BY <1>4, <1>5 DEF Send

\* A connection that opens or closes has the types.
LEMMA TypeConnection ==
    ASSUME TypeOK, NEW c \in Conn, Connect(c) \/ Drop(c) \/ Cleanup(c)
    PROVE  TypeOK'
<1>1. CASE Connect(c)
  <2>1. <<ToOne("reply", c)>> \in Seq(Message)
    BY MessageType
  <2> QED
    BY <1>1, <2>1 DEF Connect, TypeOK
<1>2. CASE Drop(c)
  BY <1>2 DEF Drop, TypeOK, tables
<1>3. CASE Cleanup(c)
  <2>1. <<ToAll("presence"), ToAll("changed")>> \in Seq(Message)
    BY MessageType
  <2>2. accounts' \in [Account -> {NoEntry} \cup SUBSET Conn]
    BY <1>3 DEF Cleanup, Without, Members, LoggedIn, TypeOK
  <2> QED
    BY <1>3, <2>1, <2>2 DEF Cleanup, LeaveTelling, SharesBecome, SharesOf, TypeOK
<1> QED
  BY <1>1, <1>2, <1>3

\* So has a message that is handled.
LEMMA TypeHandler ==
    ASSUME TypeOK, NEW c \in Conn,
           \/ \E a \in Account : Login(c, a)
           \/ Publish(c) \/ Unpublish(c) \/ AnswerOnly(c)
           \/ \E s \in shares : ConnectTo(c, s)
           \/ \E to \in Conn : Signal(c, to)
    PROVE  TypeOK'
<1> USE BoundAssumption
<1>0. Receive(c) => handled' \in 0 .. MaxRequests
  BY DEF Receive, TypeOK
<1>1. ASSUME NEW a \in Account, Login(c, a) PROVE TypeOK'
  <2>1. <<ToOne("reply", c), ToAll("presence")>> \in Seq(Message)
    BY MessageType
  <2>2. MovedOut(c) \in [Account -> {NoEntry} \cup SUBSET Conn]
    BY DEF MovedOut, LoggedIn, TypeOK
  <2>3. accounts' \in [Account -> {NoEntry} \cup SUBSET Conn]
    BY <1>1, <2>2 DEF Login
  <2>4. todo' \in [Conn -> Seq(Message)]
    BY <1>1, <2>1, AnswersType DEF Login
  <2> QED
    BY <1>0, <1>1, <2>3, <2>4 DEF Login, TypeOK
<1>2. CASE Publish(c) \/ Unpublish(c)
  <2>1. <<ToOne("reply", c), ToAll("changed")>> \in Seq(Message)
    BY MessageType
  <2>2. todo' \in [Conn -> Seq(Message)]
    BY <1>2, <2>1, AnswersType DEF Publish, Unpublish
  <2>3. CASE Publish(c)
    <3>1. minted' \in 0 .. MaxShares /\ minted + 1 \in ShareId
      BY <2>3 DEF Publish, TypeOK, ShareId
    <3>2. [id |-> minted + 1, peer |-> c, owner |-> account[c]] \in Share
      BY <2>3, <3>1 DEF Publish, Request, LoggedIn, TypeOK, Share
    <3>3. shares' \subseteq Share /\ unheard' \subseteq Conn
      BY <2>3, <3>2 DEF Publish, SharesBecome, SharesOf, TypeOK
    <3> QED
      BY <1>0, <2>2, <2>3, <3>1, <3>3 DEF Publish, Request, TypeOK
  <2>4. CASE Unpublish(c)
    BY <1>0, <2>2, <2>4 DEF Unpublish, Request, SharesBecome, SharesOf, TypeOK
  <2> QED
    BY <1>2, <2>3, <2>4
<1>3. CASE AnswerOnly(c)
  <2>1. <<ToOne("reply", c)>> \in Seq(Message)
    BY MessageType
  <2>2. todo' \in [Conn -> Seq(Message)]
    BY <1>3, <2>1, AnswersType DEF AnswerOnly
  <2> QED
    BY <1>0, <1>3, <2>2 DEF AnswerOnly, TypeOK, tables
<1>4. ASSUME NEW s \in shares, ConnectTo(c, s) PROVE TypeOK'
  <2>1. s.peer \in Conn
    BY DEF TypeOK, Share
  <2>2. <<ToOne("reply", c)>> \in Seq(Message) /\ Introduce(c, s.peer) \in Seq(Message)
    BY <2>1, MessageType DEF Introduce
  <2>3. todo' \in [Conn -> Seq(Message)]
    BY <1>4, <2>2, AnswersType DEF ConnectTo
  <2> QED
    BY <1>0, <1>4, <2>3 DEF ConnectTo, Request, TypeOK, tables
<1>5. ASSUME NEW to \in Conn, Signal(c, to) PROVE TypeOK'
  <2>1. <<ToOne("signal", to)>> \in Seq(Message)
    BY MessageType
  <2>2. todo' \in [Conn -> Seq(Message)]
    BY <1>5, <2>1, AnswersType DEF Signal
  <2> QED
    BY <1>0, <1>5, <2>2 DEF Signal, Request, TypeOK, tables
<1> QED
  BY <1>1, <1>2, <1>3, <1>4, <1>5

\* TypeOK is an invariant for every value of the constants.
THEOREM TypeCorrect == Spec => []TypeOK
<1>1. TypeOK /\ [Next]_vars => TypeOK'
  <2> SUFFICES ASSUME TypeOK, [Next]_vars PROVE TypeOK'
    OBVIOUS
  <2>1. CASE UNCHANGED vars
    BY <2>1 DEF vars, tables, TypeOK
  <2> QED
    BY <2>1, SendType, TypeConnection, TypeHandler DEF Next, Coroutine
<1> QED
  BY <1>1, TypeInit, PTL DEF Spec

-----------------------------------------------------------------------------
(* The hub's tables. *)

\* A connection that was never opened has no account, and a logged-in one
\* that is still in the table is in the index: what a handler reads there.
TablesInv ==
    /\ \A c \in Conn : link[c] = "new" => account[c] = None /\ c \notin clients
    /\ IndexExact
    /\ SharesHaveOwners
    /\ \A s \in shares : s.id <= minted

LEMMA TablesInit == Init => TablesInv
BY DEF Init, TablesInv, IndexExact, SharesHaveOwners, Members

\* A step that leaves the tables and the accounts of links alone.
LEMMA TablesFrame ==
    ASSUME TablesInv, UNCHANGED tables,
           \A c \in Conn : link'[c] = "new" => link[c] = "new"
    PROVE  TablesInv'
BY DEF TablesInv, tables, IndexExact, SharesHaveOwners, Members, LoggedIn

LEMMA TablesConnect ==
    ASSUME TypeOK, TablesInv, NEW c \in Conn, Connect(c)
    PROVE  TablesInv'
BY SentinelAssumption
DEF Connect, TypeOK, TablesInv, IndexExact, SharesHaveOwners, Members, LoggedIn

\* The entry of the account that a connection leaves is the one it is in.
LEMMA TablesCleanup ==
    ASSUME TypeOK, TablesInv, NEW c \in Conn, Cleanup(c)
    PROVE  TablesInv'
<1> USE DEF TypeOK, TablesInv
<1>1. IndexExact'
  <2> SUFFICES ASSUME NEW a \in Account
               PROVE  Members(a)' = {b \in clients' : account'[b] = a}
    BY DEF IndexExact
  <2>1. clients' = clients \ {c} /\ account' = account /\ accounts' = Without(c)
    BY DEF Cleanup
  <2>2. CASE account[c] = a
    <3>1. c \in Members(a) /\ LoggedIn(c)
      BY <2>2, SentinelAssumption DEF Cleanup, IndexExact, LoggedIn
    <3>2. accounts'[a] = IF accounts[a] = {c} THEN NoEntry ELSE accounts[a] \ {c}
      BY <2>1, <2>2, <3>1 DEF Without
    <3>3. Members(a)' = Members(a) \ {c}
      BY <3>1, <3>2, SentinelAssumption DEF Members
    <3> QED
      BY <2>1, <3>3 DEF IndexExact
  <2>3. CASE account[c] # a
    <3>1. accounts'[a] = accounts[a]
      BY <2>1, <2>3 DEF Without, LoggedIn
    <3> QED
      BY <2>1, <2>3, <3>1 DEF IndexExact, Members
  <2> QED
    BY <2>2, <2>3
<1>2. SharesHaveOwners'
  BY DEF Cleanup, SharesBecome, SharesOf, SharesHaveOwners, LoggedIn
<1> QED
  BY <1>1, <1>2 DEF Cleanup, SharesBecome

LEMMA TablesLogin ==
    ASSUME TypeOK, TablesInv, NEW c \in Conn, NEW b \in Account, Login(c, b)
    PROVE  TablesInv'
<1> USE DEF TypeOK, TablesInv
<1>1. c \in clients /\ clients' = clients /\ account' = [account EXCEPT ![c] = b]
  BY DEF Login, Receive
<1>2. IndexExact'
  <2> SUFFICES ASSUME NEW a \in Account
               PROVE  Members(a)' = {d \in clients' : account'[d] = a}
    BY DEF IndexExact
  <2>1. MovedOut(c) \in [Account -> {NoEntry} \cup SUBSET Conn]
    BY DEF MovedOut, LoggedIn
  <2>2. (IF MovedOut(c)[a] = NoEntry THEN {} ELSE MovedOut(c)[a]) = Members(a) \ {c}
    <3>1. CASE account[c] = a
      BY <1>1, <3>1, SentinelAssumption DEF MovedOut, Members, LoggedIn, IndexExact
    <3>2. CASE account[c] # a
      <4>1. MovedOut(c)[a] = accounts[a] /\ c \notin Members(a)
        BY <3>2 DEF MovedOut, LoggedIn, IndexExact
      <4> QED
        BY <4>1 DEF Members
    <3> QED
      BY <3>1, <3>2
  <2>3. accounts' = [MovedOut(c) EXCEPT ![b] = IF @ = NoEntry THEN {c} ELSE @ \cup {c}]
    BY DEF Login
  <2>4. Members(a)' = IF a = b THEN Members(a) \cup {c} ELSE Members(a) \ {c}
    <3>1. CASE a = b
      BY <2>1, <2>2, <2>3, <3>1, SentinelAssumption DEF Members
    <3>2. CASE a # b
      BY <2>1, <2>2, <2>3, <3>2 DEF Members
    <3> QED
      BY <3>1, <3>2
  <2> QED
    BY <1>1, <2>4 DEF IndexExact
<1>3. SharesHaveOwners'
  BY <1>1, SentinelAssumption DEF Login, SharesHaveOwners, LoggedIn, Share
<1>4. UNCHANGED <<shares, minted, link>>
  BY DEF Login
<1> QED
  BY <1>1, <1>2, <1>3, <1>4

LEMMA TablesPublish ==
    ASSUME TypeOK, TablesInv, NEW c \in Conn, Publish(c) \/ Unpublish(c)
    PROVE  TablesInv'
<1> USE DEF TypeOK, TablesInv
<1>1. UNCHANGED <<clients, account, accounts, link>> /\ c \in clients /\ LoggedIn(c)
  BY DEF Publish, Unpublish, Request, Receive
<1>2. IndexExact'
  BY <1>1 DEF IndexExact, Members
<1>3. CASE Publish(c)
  <2> DEFINE new == [id |-> minted + 1, peer |-> c, owner |-> account[c]]
  <2>1. shares' = (shares \ SharesOf(c)) \cup {new} /\ minted' = minted + 1
    BY <1>3 DEF Publish, SharesBecome
  <2>2. \A s \in shares : s.id \in Nat /\ s.id # minted + 1 /\ s.id <= minted + 1
    BY DEF Share, ShareId
  <2>3. \A s \in shares \ SharesOf(c) : s.peer # c
    BY DEF SharesOf
  <2>4. new.id = minted + 1 /\ new.peer = c /\ minted + 1 <= minted + 1
    OBVIOUS
  <2> HIDE DEF new
  <2>5. SharesHaveOwners'
    BY <1>1, <2>1, <2>2, <2>3, <2>4 DEF SharesHaveOwners, LoggedIn
  <2> QED
    BY <1>1, <1>2, <2>1, <2>2, <2>4, <2>5
<1>4. CASE Unpublish(c)
  <2>1. shares' = shares \ SharesOf(c) /\ UNCHANGED minted
    BY <1>4 DEF Unpublish, SharesBecome
  <2> QED
    BY <1>1, <1>2, <2>1 DEF SharesHaveOwners, LoggedIn
<1> QED
  BY <1>3, <1>4

LEMMA TablesInvariant == Spec => []TablesInv
<1>1. TypeOK /\ TablesInv /\ [Next]_vars => TablesInv'
  <2> SUFFICES ASSUME TypeOK, TablesInv, [Next]_vars PROVE TablesInv'
    OBVIOUS
  <2>1. CASE UNCHANGED vars
    BY <2>1, TablesFrame DEF vars
  <2>2. ASSUME NEW c \in Conn,
               \/ Drop(c) \/ Send(c) \/ AnswerOnly(c)
               \/ \E s \in shares : ConnectTo(c, s)
               \/ \E to \in Conn : Signal(c, to)
        PROVE  TablesInv'
    BY <2>2, TablesFrame DEF Drop, Send, AnswerOnly, ConnectTo, Signal, TypeOK
  <2> QED
    BY <2>1, <2>2, TablesConnect, TablesCleanup, TablesLogin, TablesPublish
    DEF Next, Coroutine
<1> QED
  BY <1>1, TablesInit, TypeCorrect, PTL DEF Spec

\* The hub's index of accounts is exact, however logins, logins under another
\* name and disconnects of any number of clients meet.
THEOREM IndexIsExact == Spec => []IndexExact
<1>1. TablesInv => IndexExact
  BY DEF TablesInv
<1> QED
  BY <1>1, TablesInvariant, PTL

\* The registry never offers a share whose publisher has been cleaned up, nor
\* two of one publisher, nor two under one id.
THEOREM SharesAreOwned == Spec => []SharesHaveOwners
<1>1. TablesInv => SharesHaveOwners
  BY DEF TablesInv
<1> QED
  BY <1>1, TablesInvariant, PTL

-----------------------------------------------------------------------------
(* Announcements. *)

\* The owner was told of the requester, unless it is gone.
Announced(c, o) == c \in inbox[o].asked \/ link[o] = "down"

\* What a coroutine still has to send: peer_ready follows the peer_request of the
\* same pair, or that one was sent; a signal goes where the client may send one.
ItemInOrder(c, i) ==
    LET m == todo[c][i] IN
    /\ m.what = "request" => \E o \in Conn : m = ToOne("request", o)
    /\ m.what = "ready" =>
          \E o \in Conn :
             /\ m = Ready(c, o) /\ link[o] # "new"
             /\ Announced(c, o) \/ (i > 1 /\ todo[c][i - 1] = ToOne("request", o))
    /\ m.what = "signal" =>
          \E t \in inbox[c].ready \cup inbox[c].heard : m = ToOne("signal", t)

QueueInOrder == \A c \in Conn : \A i \in 1 .. Len(todo[c]) : ItemInOrder(c, i)

AnnouncedInv ==
    /\ \A c \in Conn : link[c] = "up" => c \in clients
    /\ \A c \in clients : link[c] # "new"
    /\ QueueInOrder
    /\ ReadyAfterRequest
    /\ NoUnannouncedSignal
    /\ \A c, t \in Conn : t \in inbox[c].heard =>
                             c \in inbox[t].ready \/ c \in inbox[t].heard

LEMMA AnnouncedInit == Init => AnnouncedInv
BY DEF Init, AnnouncedInv, QueueInOrder, ReadyAfterRequest, NoUnannouncedSignal

\* Clients forget nothing and links are not opened again.
Grows ==
    \A c \in Conn :
      /\ inbox[c].asked \subseteq inbox'[c].asked
      /\ inbox[c].ready \subseteq inbox'[c].ready
      /\ inbox[c].heard \subseteq inbox'[c].heard
      /\ link[c] = "down" => link'[c] = "down"
      /\ link[c] # "new" => link'[c] # "new"

\* A queue nobody touches stays in order.
LEMMA QueueKept ==
    ASSUME QueueInOrder, Grows, NEW c \in Conn, todo'[c] = todo[c],
           NEW i \in 1 .. Len(todo'[c])
    PROVE  ItemInOrder(c, i)'
<1>1. ItemInOrder(c, i)
  BY DEF QueueInOrder
<1>2. \A o \in Conn : Announced(c, o) => Announced(c, o)'
  BY DEF Announced, Grows
<1> QED
  BY <1>1, <1>2 DEF ItemInOrder, Grows

\* A step that adds nothing to what clients know needs its queue in order only.
LEMMA AnnouncedHandler ==
    ASSUME TypeOK, AnnouncedInv, NEW c \in Conn, NEW q, todo' = [todo EXCEPT ![c] = q],
           \A i \in 1 .. Len(q) : ItemInOrder(c, i)',
           UNCHANGED inbox, clients' \subseteq Conn,
           \A d \in Conn :
             /\ link[d] = "down" => link'[d] = "down"
             /\ link[d] # "new" => link'[d] # "new"
             /\ link'[d] = "up" => d \in clients'
             /\ d \in clients' => link'[d] # "new"
    PROVE  AnnouncedInv'
<1>1. Grows
  BY DEF Grows
<1>2. QueueInOrder'
  BY <1>1, QueueKept DEF QueueInOrder, AnnouncedInv, TypeOK
<1>3. ReadyAfterRequest' /\ NoUnannouncedSignal'
  BY DEF AnnouncedInv, ReadyAfterRequest, NoUnannouncedSignal
<1> QED
  BY <1>2, <1>3 DEF AnnouncedInv, TypeOK

\* Replies and broadcasts announce nothing.
LEMMA PlainInOrder ==
    ASSUME NEW c \in Conn, NEW i, todo'[c][i].what \in {"reply", "presence", "changed"}
    PROVE  ItemInOrder(c, i)'
BY DEF ItemInOrder

LEMMA PlainQueues ==
    ASSUME NEW c \in Conn, NEW q, todo'[c] = q,
           q \in {<<ToOne("reply", c)>>,
                  <<ToOne("reply", c), ToAll("presence")>>,
                  <<ToOne("reply", c), ToAll("changed")>>,
                  <<ToAll("presence"), ToAll("changed")>>}
    PROVE  \A i \in 1 .. Len(q) : ItemInOrder(c, i)'
<1> SUFFICES ASSUME NEW i \in 1 .. Len(q)
             PROVE  todo'[c][i].what \in {"reply", "presence", "changed"}
  BY PlainInOrder
<1> DEFINE r == ToOne("reply", c)
<1> DEFINE p == ToAll("presence")
<1> DEFINE s == ToAll("changed")
<1>1. r.what = "reply" /\ p.what = "presence" /\ s.what = "changed"
  BY DEF ToOne, ToAll
<1>2. q \in {<<r>>, <<r, p>>, <<r, s>>, <<p, s>>}
  OBVIOUS
<1> HIDE DEF r, p, s
<1>3. CASE q = <<r>>
  BY <1>1, <1>3
<1>4. CASE q = <<r, p>>
  BY <1>1, <1>4
<1>5. CASE q = <<r, s>>
  BY <1>1, <1>5
<1>6. CASE q = <<p, s>>
  BY <1>1, <1>6
<1> QED
  BY <1>2, <1>3, <1>4, <1>5, <1>6

\* The two messages of "connect" are queued in the right order, for an owner
\* that is connected.
LEMMA IntroduceInOrder ==
    ASSUME NEW c \in Conn, NEW o \in Conn, todo'[c] = Introduce(c, o), link'[o] # "new"
    PROVE  \A i \in 1 .. Len(Introduce(c, o)) : ItemInOrder(c, i)'
<1> DEFINE m == ToOne("request", o)
<1> DEFINE r == Ready(c, o)
<1>1. m.what = "request" /\ r.what = "ready"
  BY DEF ToOne, Ready
<1>2. todo'[c] = <<m, r>> /\ Len(Introduce(c, o)) = 2
  BY DEF Introduce
<1>3. todo'[c][1] = m /\ todo'[c][2] = r
  BY <1>2
<1>4. ItemInOrder(c, 1)'
  BY <1>1, <1>3 DEF ItemInOrder
<1>5. ItemInOrder(c, 2)'
  BY <1>1, <1>3 DEF ItemInOrder
<1> QED
  BY <1>2, <1>4, <1>5

LEMMA AnnouncedConnection ==
    ASSUME TypeOK, AnnouncedInv, NEW c \in Conn,
           Connect(c) \/ Drop(c) \/ Cleanup(c)
    PROVE  AnnouncedInv'
<1> USE DEF TypeOK, AnnouncedInv
<1>1. CASE Connect(c)
  <2> DEFINE q == <<ToOne("reply", c)>>
  <2>1. todo' = [todo EXCEPT ![c] = q] /\ todo'[c] = q
    BY <1>1 DEF Connect
  <2>2. \A i \in 1 .. Len(q) : ItemInOrder(c, i)'
    BY <2>1, PlainQueues
  <2> HIDE DEF q
  <2>3. /\ clients' = clients \cup {c} /\ UNCHANGED inbox
        /\ link[c] = "new" /\ link' = [link EXCEPT ![c] = "up"]
    BY <1>1 DEF Connect
  <2>4. \A d \in Conn :
          /\ link[d] = "down" => link'[d] = "down"
          /\ link[d] # "new" => link'[d] # "new"
          /\ link'[d] = "up" => d \in clients'
          /\ d \in clients' => link'[d] # "new"
    BY <2>3
  <2> QED
    BY <2>1, <2>2, <2>3, <2>4, AnnouncedHandler
<1>2. CASE Drop(c)
  <2>1. Grows /\ UNCHANGED <<inbox, todo, clients>>
    BY <1>2 DEF Grows, Drop, tables
  <2>2. QueueInOrder'
    BY <2>1, QueueKept DEF QueueInOrder
  <2>3. ReadyAfterRequest' /\ NoUnannouncedSignal'
    BY <2>1 DEF ReadyAfterRequest, NoUnannouncedSignal, Grows
  <2> QED
    BY <1>2, <2>1, <2>2, <2>3 DEF Drop
<1>3. CASE Cleanup(c)
  <2> DEFINE q == <<ToAll("presence"), ToAll("changed")>>
  <2>1. todo' = [todo EXCEPT ![c] = q] /\ todo'[c] = q
    BY <1>3 DEF Cleanup, LeaveTelling
  <2>2. \A i \in 1 .. Len(q) : ItemInOrder(c, i)'
    BY <2>1, PlainQueues
  <2> HIDE DEF q
  <2> QED
    BY <1>3, <2>1, <2>2, AnnouncedHandler DEF Cleanup
<1> QED
  BY <1>1, <1>2, <1>3

LEMMA AnnouncedMessage ==
    ASSUME TypeOK, AnnouncedInv, TablesInv, NEW c \in Conn,
           \/ \E a \in Account : Login(c, a)
           \/ Publish(c) \/ Unpublish(c) \/ AnswerOnly(c)
           \/ \E s \in shares : ConnectTo(c, s)
           \/ \E to \in Conn : Signal(c, to)
    PROVE  AnnouncedInv'
<1> USE DEF TypeOK, AnnouncedInv
<1>0. UNCHANGED <<link, clients, inbox>>
  BY DEF Login, Publish, Unpublish, AnswerOnly, ConnectTo, Signal, tables
<1>1. PICK q : Answers(c, q) /\ \/ q \in {<<ToOne("reply", c)>>,
                                        <<ToOne("reply", c), ToAll("presence")>>,
                                        <<ToOne("reply", c), ToAll("changed")>>}
                                \/ \E s \in shares : s.peer \in clients /\ q = Introduce(c, s.peer)
                                \/ \E to \in inbox[c].ready \cup inbox[c].heard :
                                      q = <<ToOne("signal", to)>>
  BY DEF Login, Publish, Unpublish, AnswerOnly, ConnectTo, Signal
<1>2. todo' = [todo EXCEPT ![c] = q] /\ todo'[c] = q
  BY <1>1 DEF Answers
<1>3. \A i \in 1 .. Len(q) : ItemInOrder(c, i)'
  <2>1. CASE q \in {<<ToOne("reply", c)>>,
                    <<ToOne("reply", c), ToAll("presence")>>,
                    <<ToOne("reply", c), ToAll("changed")>>}
    BY <1>2, <2>1, PlainQueues
  <2>2. ASSUME NEW s \in shares, s.peer \in clients, q = Introduce(c, s.peer)
        PROVE  \A i \in 1 .. Len(q) : ItemInOrder(c, i)'
    <3>1. s.peer \in Conn /\ link'[s.peer] # "new"
      BY <1>0, <2>2
    <3> QED
      BY <1>2, <2>2, <3>1, IntroduceInOrder
  <2>3. ASSUME NEW to \in inbox[c].ready \cup inbox[c].heard, q = <<ToOne("signal", to)>>
        PROVE  \A i \in 1 .. Len(q) : ItemInOrder(c, i)'
    <3> DEFINE m == ToOne("signal", to)
    <3>1. m.what = "signal"
      BY DEF ToOne
    <3>2. Len(q) = 1 /\ todo'[c][1] = m
      BY <1>2, <2>3
    <3>3. ItemInOrder(c, 1)'
      BY <1>0, <3>1, <3>2 DEF ItemInOrder
    <3> QED
      BY <3>2, <3>3
  <2> QED
    BY <1>1, <2>1, <2>2, <2>3
<1> QED
  BY <1>0, <1>2, <1>3, AnnouncedHandler

\* How the queue of a sender changes: its first message goes, or stays with
\* fewer recipients when it had several.
LEMMA SendQueue ==
    ASSUME TypeOK, NEW c \in Conn, Send(c)
    PROVE  /\ todo[c] # <<>> /\ todo[c][1] \in Message /\ todo[c] \in Seq(Message)
           /\ \/ todo' = [todo EXCEPT ![c] = Tail(@)]
              \/ \E h \in Message :
                   /\ h.what = todo[c][1].what
                   /\ \A r \in Conn : todo[c][1].to # {r}
                   /\ todo' = [todo EXCEPT ![c] = <<h>> \o Tail(@)]
<1> DEFINE m == Sending(c)
<1>1. todo[c] # <<>> /\ todo[c] \in Seq(Message) /\ Head(todo[c]) = todo[c][1]
  BY DEF Send, TypeOK
<1>2. todo[c][1] \in Message
  BY <1>1
<1>3. m \in Message /\ m.to \in SUBSET Conn
  BY <1>1, SendingType
<1>4. m.what = todo[c][1].what /\ (todo[c][1].to # Everyone => m = todo[c][1])
  BY <1>1, <1>2 DEF Sending, Message
<1>5. ASSUME NEW r \in m.to, m.to # {r},
             todo' = [todo EXCEPT ![c] = <<[m EXCEPT !.to = @ \ {r}]>> \o Tail(@)]
      PROVE  \E h \in Message :
               /\ h.what = todo[c][1].what
               /\ \A x \in Conn : todo[c][1].to # {x}
               /\ todo' = [todo EXCEPT ![c] = <<h>> \o Tail(@)]
  <2> DEFINE h == [m EXCEPT !.to = @ \ {r}]
  <2>1. h \in Message /\ h.what = todo[c][1].what
    <3> HIDE DEF m
    <3> QED
      BY <1>3, <1>4 DEF Message
  <2>2. ASSUME NEW x \in Conn, todo[c][1].to = {x} PROVE FALSE
    <3>1. todo[c][1].to # Everyone
      BY <2>2, SentinelAssumption
    <3> QED
      BY <1>4, <1>5, <2>2, <3>1
  <2> QED
    BY <1>5, <2>1, <2>2
<1> QED
  BY <1>1, <1>2, <1>5 DEF Send

\* What clients know after a send: somebody may have noted the message sent.
LEMMA SendInbox ==
    ASSUME TypeOK, AnnouncedInv, NEW c \in Conn, Send(c)
    PROVE  /\ Grows
           /\ \A r \in Conn :
                /\ inbox'[r].ready # inbox[r].ready =>
                     /\ todo[c][1].what = "ready" /\ r = c
                     /\ inbox'[r].ready = inbox[r].ready \cup todo[c][1].info
                /\ inbox'[r].heard # inbox[r].heard =>
                     /\ todo[c][1].what = "signal" /\ todo[c][1].to = {r} /\ link[r] # "down"
                     /\ inbox'[r].heard = inbox[r].heard \cup {c}
                /\ todo[c][1] = ToOne("request", r) /\ todo' = [todo EXCEPT ![c] = Tail(@)]
                     => c \in inbox'[r].asked \/ r \notin clients \/ link[r] # "up"
<1> DEFINE m == Sending(c)
<1> DEFINE h == todo[c][1]
<1>1. todo[c] # <<>> /\ h \in Message /\ Head(todo[c]) = h /\ todo[c] \in Seq(Message)
  BY SendQueue DEF TypeOK
<1>2. ItemInOrder(c, 1)
  BY <1>1 DEF AnnouncedInv, QueueInOrder
<1>3. /\ m \in Message /\ m.to \in SUBSET Conn /\ m.what = h.what
      /\ h.to # Everyone => m = h
  BY <1>1, SendingType DEF Sending, Message
<1>4. UNCHANGED link
  BY DEF Send
<1>5. /\ h.what = "request" => \E o \in Conn : h = ToOne("request", o) /\ m = h /\ m.to = {o}
      /\ h.what = "ready" => \E o \in Conn : h = Ready(c, o) /\ m = h /\ m.to = {c}
      /\ h.what = "signal" => \E o \in Conn : h = ToOne("signal", o) /\ m = h /\ m.to = {o}
  <2>1. \A o \in Conn : {o} # Everyone
    BY SentinelAssumption
  <2> HIDE DEF m
  <2>2. h.what = "request" => \E o \in Conn : h = ToOne("request", o)
    BY <1>2 DEF ItemInOrder
  <2>3. h.what = "ready" => \E o \in Conn : h = Ready(c, o)
    BY <1>2 DEF ItemInOrder
  <2>4. h.what = "signal" => \E o \in Conn : h = ToOne("signal", o)
    BY <1>2 DEF ItemInOrder, TypeOK, Inbox
  <2>5. \A o \in Conn : ToOne("request", o).to = {o} /\ ToOne("signal", o).to = {o}
                        /\ Ready(c, o).to = {c}
    BY DEF ToOne, Ready
  <2> HIDE DEF h
  <2> QED
    BY <1>3, <2>1, <2>2, <2>3, <2>4, <2>5
<1>6. CASE m.to = {} /\ UNCHANGED inbox
  <2>1. \A r \in Conn : h # ToOne("request", r)
    BY <1>5, <1>6 DEF ToOne
  <2> QED
    BY <1>4, <1>6, <2>1 DEF Grows
<1>7. ASSUME NEW r \in m.to,
             inbox' = IF Delivered(r, m)
                      THEN [inbox EXCEPT ![r] = Note(@, c, m)] ELSE inbox
      PROVE  /\ \A q \in Conn :
                  /\ inbox[q].asked \subseteq inbox'[q].asked
                  /\ inbox[q].ready \subseteq inbox'[q].ready
                  /\ inbox[q].heard \subseteq inbox'[q].heard
             /\ \A q \in Conn :
                  /\ inbox'[q].ready # inbox[q].ready =>
                       /\ h.what = "ready" /\ q = c
                       /\ inbox'[q].ready = inbox[q].ready \cup h.info
                  /\ inbox'[q].heard # inbox[q].heard =>
                       /\ h.what = "signal" /\ h.to = {q} /\ link[q] # "down"
                       /\ inbox'[q].heard = inbox[q].heard \cup {c}
                  /\ h = ToOne("request", q)
                       => c \in inbox'[q].asked \/ q \notin clients \/ link[q] # "up"
  <2>1. r \in Conn /\ inbox \in [Conn -> Inbox]
    BY <1>3, <1>7 DEF TypeOK
  <2>2. CASE ~ Delivered(r, m)
    <3>1. ASSUME NEW q \in Conn, h = ToOne("request", q)
          PROVE  q \notin clients \/ link[q] # "up"
      <4>1. h.what = "request" /\ h.to = {q}
        BY <3>1 DEF ToOne
      <4>2. r = q /\ m.what = "request"
        BY <1>3, <1>5, <1>7, <4>1
      <4> QED
        BY <2>2, <4>2 DEF Delivered
    <3> QED
      BY <1>7, <2>2, <3>1
  <2>3. CASE Delivered(r, m)
    <3>1. inbox' = [inbox EXCEPT ![r] = Note(@, c, m)] /\ link[r] = "up"
      BY <1>7, <2>3 DEF Delivered
    <3>2. inbox[r] \in Inbox
      BY <2>1
    <3>3. CASE h.what = "presence"
      <4>1. Note(inbox[r], c, m) = [inbox[r] EXCEPT !.view = m.info]
        BY <1>3, <3>3 DEF Note
      <4>2. \A q \in Conn : h # ToOne("request", q)
        BY <3>3 DEF ToOne
      <4> HIDE DEF m, h
      <4> QED
        BY <2>1, <3>1, <3>2, <4>1, <4>2 DEF Inbox
    <3>4. CASE h.what = "request"
      <4>1. Note(inbox[r], c, m) = [inbox[r] EXCEPT !.asked = @ \cup {c}]
        BY <1>3, <3>4 DEF Note
      <4>2. \A q \in Conn : h = ToOne("request", q) => q = r
        <5>1. \A q \in Conn : h = ToOne("request", q) => h.to = {q}
          BY DEF ToOne
        <5>2. h.to = m.to
          BY <1>5, <3>4
        <5> HIDE DEF m, h
        <5> QED
          BY <1>7, <5>1, <5>2
      <4> HIDE DEF m, h
      <4> QED
        BY <2>1, <3>1, <3>2, <4>1, <4>2 DEF Inbox
    <3>5. CASE h.what = "ready"
      <4>1. Note(inbox[r], c, m) = [inbox[r] EXCEPT !.ready = @ \cup m.info]
        BY <1>3, <3>5 DEF Note
      <4>2. r = c /\ m = h /\ \A q \in Conn : h # ToOne("request", q)
        BY <1>5, <1>7, <3>5 DEF ToOne
      <4>3. h.what = "ready"
        BY <3>5
      <4> HIDE DEF m, h
      <4> QED
        BY <2>1, <3>1, <3>2, <4>1, <4>2, <4>3 DEF Inbox
    <3>6. CASE h.what = "signal"
      <4>1. Note(inbox[r], c, m) = [inbox[r] EXCEPT !.heard = @ \cup {c}]
        BY <1>3, <3>6 DEF Note
      <4>2. h.to = {r} /\ \A q \in Conn : h # ToOne("request", q)
        <5>1. \A q \in Conn : h # ToOne("request", q)
          BY <3>6 DEF ToOne
        <5>2. PICK o \in Conn : m = h /\ m.to = {o}
          BY <1>5, <3>6
        <5> HIDE DEF m, h
        <5> QED
          BY <1>7, <5>1, <5>2
      <4>3. h.what = "signal"
        BY <3>6
      <4> HIDE DEF m, h
      <4> QED
        BY <2>1, <3>1, <3>2, <4>1, <4>2, <4>3 DEF Inbox
    <3>7. CASE h.what \notin {"presence", "request", "ready", "signal"}
      <4>1. Note(inbox[r], c, m) = inbox[r]
        BY <1>3, <3>7 DEF Note
      <4>2. \A q \in Conn : h # ToOne("request", q)
        BY <3>7 DEF ToOne
      <4> HIDE DEF m, h
      <4> QED
        BY <2>1, <3>1, <3>2, <4>1, <4>2 DEF Inbox
    <3> QED
      BY <3>3, <3>4, <3>5, <3>6, <3>7
  <2> QED
    BY <2>2, <2>3
<1> HIDE DEF m, h
<1>8. CASE \E r \in m.to : inbox' = IF Delivered(r, m)
                                    THEN [inbox EXCEPT ![r] = Note(@, c, m)] ELSE inbox
  BY <1>4, <1>7, <1>8 DEF Grows, h
<1> QED
  BY <1>6, <1>8 DEF Send, m

\* The sender's queue stays in order: peer_ready moves to the front when the
\* peer_request before it has been sent.
LEMMA SendInOrder ==
    ASSUME TypeOK, AnnouncedInv, NEW c \in Conn, Send(c)
    PROVE  QueueInOrder'
<1> DEFINE s == todo[c]
<1>1. s # <<>> /\ s \in Seq(Message) /\ Grows /\ UNCHANGED <<link, clients>>
  BY SendQueue, SendInbox DEF Send, tables
<1>2. \A i \in 1 .. Len(s) : ItemInOrder(c, i)
  BY DEF AnnouncedInv, QueueInOrder
<1>3. \A o \in Conn : Announced(c, o) => Announced(c, o)'
  BY <1>1 DEF Announced, Grows
<1>4. CASE todo' = [todo EXCEPT ![c] = Tail(@)]
  <2>1. todo'[c] = Tail(s) /\ \A d \in Conn : d # c => todo'[d] = todo[d]
    BY <1>4 DEF TypeOK
  <2>2. ASSUME NEW i \in 1 .. Len(Tail(s)) PROVE ItemInOrder(c, i)'
    <3>1. i + 1 \in 1 .. Len(s) /\ Tail(s)[i] = s[i + 1] /\ i > 0 /\ (i + 1) - 1 = i
          /\ (i > 1 => Tail(s)[i - 1] = s[i])
      BY <1>1, <2>2
    <3>2. ItemInOrder(c, i + 1)
      BY <1>2, <3>1
    <3>3. ASSUME NEW o \in Conn, s[i] = ToOne("request", o), i = 1, link[o] # "new"
          PROVE  Announced(c, o)'
      <4>1. c \in inbox'[o].asked \/ o \notin clients \/ link[o] # "up"
        BY <1>4, <3>3, SendInbox
      <4>2. link[o] = "up" => o \in clients
        BY DEF AnnouncedInv
      <4>3. link[o] \in {"new", "up", "down"}
        BY DEF TypeOK
      <4> QED
        BY <1>1, <3>3, <4>1, <4>2, <4>3 DEF Announced
    <3> HIDE DEF s
    <3>4. todo'[c][i] = s[i + 1] /\ (i > 1 => todo'[c][i - 1] = s[i])
      BY <2>1, <3>1
    <3>5. s[i + 1].what = "ready" =>
            \E o \in Conn :
              /\ s[i + 1] = Ready(c, o) /\ link[o] # "new"
              /\ Announced(c, o)' \/ (i > 1 /\ s[i] = ToOne("request", o))
      <4>1. s[i + 1].what = "ready" =>
              \E o \in Conn :
                /\ s[i + 1] = Ready(c, o) /\ link[o] # "new"
                /\ Announced(c, o) \/ s[i] = ToOne("request", o)
        BY <3>1, <3>2 DEF ItemInOrder, s
      <4> QED
        BY <1>3, <3>1, <3>3, <4>1
    <3>6. /\ s[i + 1].what = "request" => \E o \in Conn : s[i + 1] = ToOne("request", o)
          /\ s[i + 1].what = "signal" =>
                \E t \in inbox'[c].ready \cup inbox'[c].heard : s[i + 1] = ToOne("signal", t)
      BY <1>1, <3>2 DEF ItemInOrder, Grows, s
    <3> QED
      BY <1>1, <3>4, <3>5, <3>6 DEF ItemInOrder
  <2> QED
    BY <1>1, <2>1, <2>2, QueueKept DEF QueueInOrder, AnnouncedInv
<1>5. ASSUME NEW h \in Message, h.what = s[1].what,
             \A r \in Conn : s[1].to # {r},
             todo' = [todo EXCEPT ![c] = <<h>> \o Tail(@)]
      PROVE  QueueInOrder'
  <2> DEFINE q == <<h>> \o Tail(s)
  <2>1. todo'[c] = q /\ \A d \in Conn : d # c => todo'[d] = todo[d]
    BY <1>5 DEF TypeOK
  <2>2. Len(q) = Len(s) /\ q[1] = h /\ \A i \in 2 .. Len(s) : q[i] = s[i]
    BY <1>1
  <2>3. h.what \notin {"request", "ready", "signal"} /\ \A o \in Conn : s[1] # ToOne("request", o)
    <3>1. ItemInOrder(c, 1)
      BY <1>1, <1>2
    <3>2. \A what, o : ToOne(what, o).to = {o} /\ Ready(c, o).to = {c}
      BY DEF ToOne, Ready
    <3>3. \A t \in inbox[c].ready \cup inbox[c].heard : t \in Conn
      BY DEF TypeOK, Inbox
    <3> QED
      BY <1>5, <3>1, <3>2, <3>3 DEF ItemInOrder
  <2>4. ASSUME NEW i \in 1 .. Len(q) PROVE ItemInOrder(c, i)'
    <3>1. CASE i = 1
      BY <2>1, <2>2, <2>3, <3>1 DEF ItemInOrder
    <3>2. CASE i # 1
      <4>1. i \in 2 .. Len(s) /\ i > 1 /\ i \in 1 .. Len(s)
        BY <1>1, <2>2, <3>2
      <4>2. ItemInOrder(c, i) /\ todo'[c][i] = s[i]
        BY <1>2, <2>1, <2>2, <4>1
      <4>3. \A o \in Conn : s[i - 1] = ToOne("request", o) => todo'[c][i - 1] = s[i - 1]
        <5>1. CASE i = 2
          BY <2>3, <5>1
        <5>2. CASE i # 2
          BY <2>1, <2>2, <4>1, <5>2
        <5> QED
          BY <5>1, <5>2
      <4> QED
        BY <1>1, <1>3, <4>2, <4>3 DEF ItemInOrder, Grows
    <3> QED
      BY <3>1, <3>2
  <2> QED
    BY <1>1, <2>1, <2>4, QueueKept DEF QueueInOrder, AnnouncedInv
<1> QED
  BY <1>4, <1>5, SendQueue

\* A client that hears peer_ready or a signal was prepared for it.
LEMMA AnnouncedSend ==
    ASSUME TypeOK, AnnouncedInv, NEW c \in Conn, Send(c)
    PROVE  AnnouncedInv'
<1> DEFINE h == todo[c][1]
<1>1. Grows /\ UNCHANGED <<link, clients>>
  BY SendInbox DEF Send, tables
<1>2. ItemInOrder(c, 1)
  BY SendQueue DEF AnnouncedInv, QueueInOrder
<1>3. ReadyAfterRequest'
  <2> SUFFICES ASSUME NEW d \in Conn, NEW o \in Conn, o \in inbox'[d].ready
               PROVE  d \in inbox'[o].asked \/ link'[o] = "down"
    BY DEF ReadyAfterRequest
  <2>1. CASE o \in inbox[d].ready
    BY <1>1, <2>1 DEF AnnouncedInv, ReadyAfterRequest, Grows
  <2>2. CASE o \notin inbox[d].ready
    <3>1. h.what = "ready" /\ d = c /\ o \in h.info
      BY <2>2, SendInbox
    <3>2. PICK p \in Conn : h = Ready(c, p) /\ Announced(c, p)
      BY <1>2, <3>1 DEF ItemInOrder
    <3>3. p = o
      BY <3>1, <3>2 DEF Ready
    <3> QED
      BY <1>1, <3>1, <3>2, <3>3 DEF Announced, Grows
  <2> QED
    BY <2>1, <2>2
<1>4. ASSUME NEW d \in Conn, NEW t \in Conn, t \in inbox'[d].heard, t \notin inbox[d].heard
      PROVE  t = c /\ link[d] # "down" /\ d \in inbox[c].ready \cup inbox[c].heard
  <2>1. h.what = "signal" /\ h.to = {d} /\ link[d] # "down" /\ t = c
    BY <1>4, SendInbox
  <2>2. PICK o \in inbox[c].ready \cup inbox[c].heard : h = ToOne("signal", o)
    BY <1>2, <2>1 DEF ItemInOrder
  <2>3. o = d
    BY <2>1, <2>2 DEF ToOne
  <2> QED
    BY <2>1, <2>2, <2>3
<1>5. NoUnannouncedSignal'
  <2> SUFFICES ASSUME NEW d \in Conn, NEW t \in Conn, t \in inbox'[d].heard,
                      t \notin inbox[d].heard
               PROVE  t \in inbox[d].asked \/ t \in inbox[d].ready
    <3>1. ASSUME NEW d \in Conn, NEW t, t \in inbox'[d].heard, t \notin inbox[d].heard
          PROVE  t \in Conn
      BY <3>1, SendInbox
    <3> QED
      BY <1>1, <3>1 DEF NoUnannouncedSignal, AnnouncedInv, Grows
  <2>1. t = c /\ link[d] # "down" /\ d \in inbox[c].ready \cup inbox[c].heard
    BY <1>4
  <2>2. CASE d \in inbox[c].ready
    BY <2>1, <2>2 DEF AnnouncedInv, ReadyAfterRequest
  <2>3. CASE d \in inbox[c].heard
    BY <2>1, <2>3 DEF AnnouncedInv, NoUnannouncedSignal
  <2> QED
    BY <2>1, <2>2, <2>3
<1>6. \A d, t \in Conn : t \in inbox'[d].heard =>
                           d \in inbox'[t].ready \/ d \in inbox'[t].heard
  <2> SUFFICES ASSUME NEW d \in Conn, NEW t \in Conn, t \in inbox'[d].heard
               PROVE  d \in inbox'[t].ready \/ d \in inbox'[t].heard
    OBVIOUS
  <2>1. d \in inbox[t].ready \/ d \in inbox[t].heard
    BY <1>4 DEF AnnouncedInv
  <2> QED
    BY <1>1, <2>1 DEF Grows
<1>7. QueueInOrder'
  BY SendInOrder
<1> QED
  BY <1>1, <1>3, <1>5, <1>6, <1>7 DEF AnnouncedInv

LEMMA AnnouncedInvariant == Spec => []AnnouncedInv
<1>1. TypeOK /\ TablesInv /\ AnnouncedInv /\ [Next]_vars => AnnouncedInv'
  <2> SUFFICES ASSUME TypeOK, TablesInv, AnnouncedInv, [Next]_vars PROVE AnnouncedInv'
    OBVIOUS
  <2>1. CASE UNCHANGED vars
    <3>1. UNCHANGED <<link, clients, todo, inbox>> /\ Grows
      BY <2>1 DEF vars, tables, Grows
    <3>2. QueueInOrder'
      BY <3>1, QueueKept DEF QueueInOrder, AnnouncedInv
    <3> QED
      BY <3>1, <3>2 DEF AnnouncedInv, ReadyAfterRequest, NoUnannouncedSignal
  <2> QED
    BY <2>1, AnnouncedConnection, AnnouncedMessage, AnnouncedSend DEF Next, Coroutine
<1> QED
  BY <1>1, AnnouncedInit, TypeCorrect, TablesInvariant, PTL DEF Spec

\* A receiver that is told peer_ready may offer at once: whatever other clients
\* do between the two sends, the owner was sent the peer_request before.
THEOREM OwnersAskedFirst == Spec => []ReadyAfterRequest
<1>1. AnnouncedInv => ReadyAfterRequest
  BY DEF AnnouncedInv
<1> QED
  BY <1>1, AnnouncedInvariant, PTL

\* No relayed signal overtakes the message that announces its sender.
THEOREM SignalsAnnounced == Spec => []NoUnannouncedSignal
<1>1. AnnouncedInv => NoUnannouncedSignal
  BY DEF AnnouncedInv
<1> QED
  BY <1>1, AnnouncedInvariant, PTL
=============================================================================
