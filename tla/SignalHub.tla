------------------------------ MODULE SignalHub ------------------------------
(***************************************************************************)
(* The signaling server, server/signal_server.py, with its Registry of     *)
(* shares (server/registry.py).                                            *)
(*                                                                         *)
(* One coroutine per websocket receives a message, changes the hub's       *)
(* tables and then sends its answers and broadcasts.  The tables change    *)
(* between two awaits, so atomically; every send awaits, so the            *)
(* coroutines of other connections run between any two sends, also between *)
(* two recipients of one broadcast.  A Conn is a peer_id: it connects once *)
(* and is never used again.                                                *)
(***************************************************************************)
EXTENDS Integers, FiniteSets, Sequences

CONSTANTS
    Conn,         \* connections (peer ids)
    Account,      \* accounts whose password some client knows
    MaxShares,    \* bound: share ids 1..MaxShares may be handed out
    MaxRequests,  \* bound: messages the hub handles in one behaviour
    None,         \* not logged in; no broadcast received yet
    NoEntry,      \* the account is no key of hub.accounts
    Everyone      \* a broadcast whose recipients are not listed yet

ShareId == 1 .. MaxShares
Share   == [id : ShareId, peer : Conn, owner : Account]

ASSUME BoundAssumption == MaxShares \in Nat /\ MaxRequests \in Nat

ASSUME SentinelAssumption ==
    /\ None \notin Account
    /\ \A C \in SUBSET Conn : C # NoEntry /\ C # Everyone

VARIABLES
    link,      \* Conn -> "new", "up" or "down": the websocket, as the network has it
    clients,   \* hub.clients
    account,   \* Conn -> Client.account
    accounts,  \* hub.accounts: Account -> set of peer ids, or NoEntry
    shares,    \* registry._shares
    minted,    \* share ids handed out so far
    todo,      \* Conn -> what its coroutine has still to send, in order
    inbox,     \* Conn -> what the client has got to know from the hub
    unheard,   \* clients not told of the last change of the shares
    handled    \* messages handled so far

tables == <<clients, account, accounts, shares, minted>>
vars   == <<tables, link, todo, inbox, unheard, handled>>

\* view: the accounts shown as online; asked: peers announced by peer_request;
\* ready: owners named by peer_ready; heard: peers whose signal was relayed.
Inbox == [view : {None} \cup SUBSET Account,
          asked : SUBSET Conn, ready : SUBSET Conn, heard : SUBSET Conn]

Message ==
    {m \in [what : {"reply", "presence", "changed", "request", "ready", "signal"},
            to : {Everyone} \cup SUBSET Conn,
            info : SUBSET (Conn \cup Account)] :
       /\ m.what = "presence" => m.info \subseteq Account
       /\ m.what = "ready" => m.info \subseteq Conn}

-----------------------------------------------------------------------------
LoggedIn(c) == account[c] # None

\* hub.online_accounts: the keys of hub.accounts, whatever set is under them.
OnlineAccounts == {a \in Account : accounts[a] # NoEntry}

Members(a) == IF accounts[a] = NoEntry THEN {} ELSE accounts[a]

ToOne(what, c)  == [what |-> what, to |-> {c}, info |-> {}]
ToAll(what)     == [what |-> what, to |-> Everyone, info |-> {}]
Ready(c, owner) == [what |-> "ready", to |-> {c}, info |-> {owner}]

\* Mutant: a publisher's shares are those under its account.
SharesOfAccount(c) == {s \in shares : s.owner = account[c]}

SharesOf(c) == {s \in shares : s.peer = c}

Init ==
    /\ link = [c \in Conn |-> "new"]
    /\ clients = {}
    /\ account = [c \in Conn |-> None]
    /\ accounts = [a \in Account |-> NoEntry]
    /\ shares = {}
    /\ minted = 0
    /\ todo = [c \in Conn |-> <<>>]
    /\ inbox = [c \in Conn |-> [view |-> None, asked |-> {}, ready |-> {}, heard |-> {}]]
    /\ unheard = {}
    /\ handled = 0

-----------------------------------------------------------------------------
(* Connections. *)

\* websocket_endpoint registers the client and sends welcome.
Connect(c) ==
    /\ link[c] = "new"
    /\ link' = [link EXCEPT ![c] = "up"]
    /\ clients' = clients \cup {c}
    /\ todo' = [todo EXCEPT ![c] = <<ToOne("reply", c)>>]
    /\ UNCHANGED <<account, accounts, shares, minted, inbox, unheard, handled>>

\* The client goes away; its coroutine finds out when it receives again.
Drop(c) ==
    /\ link[c] = "up"
    /\ link' = [link EXCEPT ![c] = "down"]
    /\ UNCHANGED <<tables, todo, inbox, unheard, handled>>

\* The shares change, which every logged-in one of those present should hear.
SharesBecome(new, present) ==
    /\ shares' = new
    /\ unheard' = {c \in present : c \in unheard \/ (new # shares /\ LoggedIn(c))}

\* _cleanup's hub.accounts: the key goes with the last of its peers, but not when
\* a login under another name emptied its set before.
Without(c) ==
    IF LoggedIn(c) /\ Members(account[c]) # {}
    THEN [accounts EXCEPT ![account[c]] = IF @ = {c} THEN NoEntry ELSE @ \ {c}]
    ELSE accounts

\* Mutant: the others are not told that the shares changed.
LeaveQuietly(c) == todo' = [todo EXCEPT ![c] = <<ToAll("presence")>>]

LeaveTelling(c) == todo' = [todo EXCEPT ![c] = <<ToAll("presence"), ToAll("changed")>>]

Cleanup(c) ==
    /\ link[c] = "down" /\ c \in clients /\ todo[c] = <<>>
    /\ clients' = clients \ {c}
    /\ accounts' = Without(c)
    /\ SharesBecome(shares \ SharesOf(c), clients \ {c})
    /\ LeaveTelling(c)
    /\ UNCHANGED <<account, minted, link, inbox, handled>>

-----------------------------------------------------------------------------
(* _handle: a message arrives at an idle coroutine. *)

Receive(c) ==
    /\ link[c] = "up" /\ c \in clients /\ todo[c] = <<>>
    /\ handled < MaxRequests
    /\ handled' = handled + 1

Answers(c, messages) == todo' = [todo EXCEPT ![c] = messages]

\* Mutant: a login under another name leaves the peer under both.
NotMoved(c) == accounts

\* A peer that is logged in leaves the set of its account, perhaps empty.
MovedOut(c) ==
    IF LoggedIn(c) /\ accounts[account[c]] # NoEntry
    THEN [accounts EXCEPT ![account[c]] = @ \ {c}]
    ELSE accounts

\* A login accepted.
Login(c, a) ==
    /\ Receive(c)
    /\ account' = [account EXCEPT ![c] = a]
    /\ accounts' = [MovedOut(c) EXCEPT ![a] = IF @ = NoEntry THEN {c} ELSE @ \cup {c}]
    /\ Answers(c, <<ToOne("reply", c), ToAll("presence")>>)
    /\ UNCHANGED <<clients, shares, minted, link, inbox, unheard>>

\* Mutant: no login is needed.
AnyRequest(c) == Receive(c)

\* Everything but a login needs one.
Request(c) == LoggedIn(c) /\ Receive(c)

Publish(c) ==
    /\ Request(c)
    /\ minted < MaxShares
    /\ minted' = minted + 1
    /\ SharesBecome((shares \ SharesOf(c)) \cup
                      {[id |-> minted + 1, peer |-> c, owner |-> account[c]]}, clients)
    /\ Answers(c, <<ToOne("reply", c), ToAll("changed")>>)
    /\ UNCHANGED <<clients, account, accounts, link, inbox>>

Unpublish(c) ==
    /\ Request(c)
    /\ SharesBecome(shares \ SharesOf(c), clients)
    /\ Answers(c, <<ToOne("reply", c), ToAll("changed")>>)
    /\ UNCHANGED <<clients, account, accounts, minted, link, inbox>>

\* Mutants: the requester is told first; the owner is not told at all.
ReadyFirst(c, owner) == <<Ready(c, owner), ToOne("request", owner)>>
ReadyOnly(c, owner)  == <<Ready(c, owner)>>

\* "connect": the owner is asked first, then the requester told.
Introduce(c, owner) == <<ToOne("request", owner), Ready(c, owner)>>

ConnectTo(c, s) ==
    /\ Request(c)
    /\ s \in shares
    /\ Answers(c, IF s.peer \in clients /\ LoggedIn(s.peer)
                  THEN Introduce(c, s.peer)
                  ELSE <<ToOne("reply", c)>>)
    /\ UNCHANGED <<tables, link, inbox, unheard>>

\* "signal": our clients offer to an owner peer_ready named, and answer a peer
\* that signaled them.
Signal(c, to) ==
    /\ Request(c)
    /\ to \in inbox[c].ready \cup inbox[c].heard
    /\ Answers(c, <<ToOne("signal", to)>>)
    /\ UNCHANGED <<tables, link, inbox, unheard>>

\* list_shares, get_manifest, ping, a share that is gone, a login refused and
\* everything before a login are only answered.
AnswerOnly(c) ==
    /\ Receive(c)
    /\ Answers(c, <<ToOne("reply", c)>>)
    /\ UNCHANGED <<tables, link, inbox, unheard>>

-----------------------------------------------------------------------------
(* hub.send and hub.broadcast. *)

\* What the coroutine is sending: broadcast lists the clients and, for presence,
\* the accounts once, before its first send.
Sending(c) ==
    LET m == Head(todo[c]) IN
    IF m.to = Everyone
    THEN [m EXCEPT !.to = clients,
                   !.info = IF m.what = "presence" THEN OnlineAccounts ELSE {}]
    ELSE m

Note(box, from, m) ==
    CASE m.what = "presence" -> [box EXCEPT !.view = m.info]
      [] m.what = "request"  -> [box EXCEPT !.asked = @ \cup {from}]
      [] m.what = "ready"    -> [box EXCEPT !.ready = @ \cup m.info]
      [] m.what = "signal"   -> [box EXCEPT !.heard = @ \cup {from}]
      [] OTHER               -> box

\* What is sent to a client no longer in the table, or over a dead link, is lost.
Delivered(r, m) ==
    /\ r \in clients /\ link[r] = "up"
    /\ m.what \in {"presence", "changed"} => LoggedIn(r)

\* Send to one of the recipients, in any order; with the last one the message
\* is done.
Send(c) ==
    /\ todo[c] # <<>>
    /\ LET m == Sending(c) IN
       \/ /\ m.to = {}
          /\ todo' = [todo EXCEPT ![c] = Tail(@)]
          /\ UNCHANGED <<inbox, unheard>>
       \/ \E r \in m.to :
            /\ todo' = [todo EXCEPT ![c] =
                          IF m.to = {r} THEN Tail(@)
                          ELSE <<[m EXCEPT !.to = @ \ {r}]>> \o Tail(@)]
            /\ inbox' = IF Delivered(r, m)
                        THEN [inbox EXCEPT ![r] = Note(@, c, m)] ELSE inbox
            /\ unheard' = IF Delivered(r, m) /\ m.what = "changed"
                          THEN unheard \ {r} ELSE unheard
    /\ UNCHANGED <<tables, link, handled>>

-----------------------------------------------------------------------------
Coroutine(c) == Send(c) \/ Cleanup(c)

Next ==
    \E c \in Conn :
      \/ Connect(c) \/ Drop(c) \/ Coroutine(c)
      \/ \E a \in Account : Login(c, a)
      \/ Publish(c) \/ Unpublish(c) \/ AnswerOnly(c)
      \/ \E s \in shares : ConnectTo(c, s)
      \/ \E to \in Conn : Signal(c, to)

Spec == Init /\ [][Next]_vars

\* Every coroutine that can run does; a send to a client that no longer reads
\* fails when the websocket's keepalive does.
FairSpec == Spec /\ \A c \in Conn : WF_vars(Coroutine(c))

-----------------------------------------------------------------------------
(* Properties. *)

\* Types of all variables.
TypeOK ==
    /\ link \in [Conn -> {"new", "up", "down"}]
    /\ clients \subseteq Conn
    /\ account \in [Conn -> Account \cup {None}]
    /\ accounts \in [Account -> {NoEntry} \cup SUBSET Conn]
    /\ shares \subseteq Share
    /\ minted \in 0 .. MaxShares
    /\ todo \in [Conn -> Seq(Message)]
    /\ inbox \in [Conn -> Inbox]
    /\ unheard \subseteq Conn
    /\ handled \in 0 .. MaxRequests

\* hub.accounts is the exact index of hub.clients by account: after every login,
\* login under another name and disconnect, in whatever order they meet.
IndexExact ==
    \A a \in Account : Members(a) = {c \in clients : account[c] = a}

\* The registry offers the shares of connected, logged-in publishers only, one
\* each, under ids of their own: what a receiver can choose has a peer behind it.
SharesHaveOwners ==
    /\ \A s \in shares : s.peer \in clients /\ LoggedIn(s.peer)
    /\ \A s, t \in shares : s.id = t.id \/ s.peer = t.peer => s = t

\* A receiver that is told peer_ready may offer at once: the owner, if still
\* there, got the peer_request before, so it does not drop the offer.
ReadyAfterRequest ==
    \A c, o \in Conn : o \in inbox[c].ready => c \in inbox[o].asked \/ link[o] = "down"

\* ... and no relayed signal overtakes the message that announces its sender.
NoUnannouncedSignal ==
    \A c \in Conn : inbox[c].heard \subseteq inbox[c].asked \cup inbox[c].ready

\* Whoever was logged in when the shares changed is told, or leaves.
ChangesAreHeard == \A c \in Conn : []<>(c \notin unheard)

\* The shares of a publisher that went away disappear.
DeadSharesVanish ==
    \A c \in Conn : []<>(link[c] = "down" => c \notin clients /\ SharesOf(c) = {})

\* Every account the hub has as online has a connection that is logged in.
OnlineMeansConnected ==
    \A a \in OnlineAccounts : \E c \in clients : account[c] = a
=============================================================================
