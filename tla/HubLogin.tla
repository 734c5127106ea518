------------------------------- MODULE HubLogin -------------------------------
(***************************************************************************)
(* The login messages of server/signal_server.py: LoginThrottle decides    *)
(* whether a password is looked at, AccountStore whether it is right, and  *)
(* _handle tells the throttle.  The handler runs without an await up to    *)
(* the verdict, so logins do not interleave with each other; the clock and *)
(* whoever edits the accounts do not wait for it.                          *)
(***************************************************************************)
EXTENDS LoginThrottle, AccountStore

VARIABLE login  \* the login whose verdict waits for the file to be read, or Nothing

throttle  == <<failures, locked, guesses>>
loginVars == <<now, throttle, store, login>>

LoginInit == Init /\ StoreInit /\ login = Nothing

\* The hub is being made: the first reload reads the file.
Start ==
    /\ login = Nothing
    /\ ReadText
    /\ UNCHANGED <<now, throttle, login>>

\* retry_after is positive.
TurnAway(k) ==
    /\ login = Nothing /\ reading = Nothing
    /\ Refused(k)
    /\ UNCHANGED <<store, login>>

Verdict(k, c) == IF c \in users' THEN Succeed(k) ELSE Fail(k)

\* verify has no need to read the file.
LoginAtOnce(k, c) ==
    /\ login = Nothing
    /\ NoFile \/ Cached
    /\ Verdict(k, c)
    /\ UNCHANGED login

LoginReloads(k, c) ==
    /\ login = Nothing
    /\ StillLocked(k) = 0
    /\ Stat
    /\ login' = [key |-> k, credential |-> c]
    /\ UNCHANGED <<now, throttle>>

LoginRead(k, c) ==
    /\ login = [key |-> k, credential |-> c]
    /\ ReadText
    /\ Verdict(k, c)
    /\ login' = Nothing

Edit(content, m) == Write(content, m) /\ UNCHANGED <<now, throttle, login>>

TimePasses == Tick /\ UNCHANGED <<store, login>>

LoginNext ==
    \/ TimePasses \/ Start
    \/ \E content \in Content, m \in Mtime \cup {Nothing} : Edit(content, m)
    \/ \E k \in Key :
         \/ TurnAway(k)
         \/ \E c \in Credential : LoginAtOnce(k, c) \/ LoginReloads(k, c) \/ LoginRead(k, c)

LoginSpec == LoginInit /\ [][LoginNext]_loginVars

-----------------------------------------------------------------------------
(* Properties. *)

\* The accounts known are none, or all those of one content of the file.
StoreTypeOK ==
    /\ disk \in [content : Content, mtime : Mtime \cup {Nothing}]
    /\ users \in {{}} \cup Table
    /\ mtime \in Mtime \cup {Nothing} /\ reading \in Mtime \cup {Nothing}
    /\ blurred \in BOOLEAN
    /\ login \in {Nothing} \cup [key : Key, credential : Credential]
    /\ login # Nothing => reading # Nothing

\* Types of the throttle, of the accounts and their file, and of the login under way.
LoginTypeOK == TypeOK /\ StoreTypeOK

\* Editing the file takes effect at once: every verdict is by what the file holds at
\* that moment, wherever writes fall between stat and read and also when an older
\* file is put back - unless a write left it with the time of the last reload.
VerdictsFollowFile ==
    [][\A k \in Key, c \in Credential :
         LoginAtOnce(k, c) \/ LoginRead(k, c) =>
             ((c \in users') <=> (c \in Parsed(disk.content))) \/ blurred]_loginVars
=============================================================================
