---------------------------- MODULE LoginThrottle ----------------------------
(***************************************************************************)
(* LoginThrottle of server/signal_server.py and the part of _handle that   *)
(* uses it: each login message asks retry_after, then verifies the         *)
(* password, then records the failure or resets the key, without an await  *)
(* in between, so a login is one step whatever connection it comes from.   *)
(* A Key is a client address; connections behind one address share it.     *)
(* Time is counted in ticks.                                               *)
(***************************************************************************)
EXTENDS Integers, Sequences, FiniteSets

CONSTANTS
    Key,          \* client addresses
    MaxAttempts,  \* PFS_LOGIN_MAX_ATTEMPTS
    Window,       \* PFS_LOGIN_WINDOW
    Lockout,      \* PFS_LOGIN_LOCKOUT
    MaxTime       \* bound: the clock stops here

Time == 0 .. MaxTime

\* Window and lockout are settings of their own: either may be the longer one.
ASSUME ThrottleAssumption ==
    /\ MaxAttempts \in Nat \ {0}
    /\ Window \in Nat /\ Lockout \in Nat
    /\ MaxTime \in Nat

Guess == [at : Time, locks : BOOLEAN]

VARIABLES
    now,       \* time.monotonic()
    failures,  \* _failures: Key -> times of failures, oldest first
    locked,    \* _locked: Key -> end of its lock, 0 when it has none
    guesses    \* history: Key -> all its wrong passwords since its last success, when
               \*          each was looked at and whether it locked the key

vars == <<now, failures, locked, guesses>>

Init ==
    /\ now = 0
    /\ failures = [k \in Key |-> <<>>]
    /\ locked = [k \in Key |-> 0]
    /\ guesses = [k \in Key |-> <<>>]

\* The deque once its leading stamps older than t are popped.
Since(t, stamps) ==
    LET popped == {n \in DOMAIN stamps : \A m \in 1 .. n : stamps[m] < t}
    IN  SubSeq(stamps, Cardinality(popped) + 1, Len(stamps))

\* Mutants: stamps age a tick too early, or too late; a lock ends with the window.
FreshTooShort(k)   == Since(now - Window + 1, failures[k])
FreshTooLong(k)    == Since(now - Window - 1, failures[k])
UnlockedTooSoon(k) == IF locked[k] - Lockout + Window <= now THEN 0 ELSE locked[k]

\* _prune: what is left of a key's failures and of its lock.
Fresh(k)       == Since(now - Window, failures[k])
StillLocked(k) == IF locked[k] <= now THEN 0 ELSE locked[k]

\* retry_after tells the client to wait.
Refused(k) ==
    /\ StillLocked(k) > now
    /\ failures' = [j \in Key |-> Fresh(j)]
    /\ locked' = [j \in Key |-> StillLocked(j)]
    /\ UNCHANGED <<now, guesses>>

\* The password is right: reset, which forgets the failures before it.
Succeed(k) ==
    /\ StillLocked(k) = 0
    /\ failures' = [j \in Key |-> IF j = k THEN <<>> ELSE Fresh(j)]
    /\ locked' = [j \in Key |-> StillLocked(j)]
    /\ guesses' = [guesses EXCEPT ![k] = <<>>]
    /\ UNCHANGED now

\* The password is wrong: record_failure, which locks the key at the last attempt.
Fail(k) ==
    /\ StillLocked(k) = 0
    /\ LET stamps == Append(Fresh(k), now)
           locks  == Len(stamps) >= MaxAttempts
       IN  /\ failures' = [j \in Key |-> IF j # k THEN Fresh(j)
                                         ELSE IF locks THEN <<>> ELSE stamps]
           /\ locked' = [j \in Key |-> IF j = k /\ locks THEN now + Lockout
                                       ELSE StillLocked(j)]
           /\ guesses' = [guesses EXCEPT ![k] = Append(@, [at |-> now, locks |-> locks])]
    /\ UNCHANGED now

Tick ==
    /\ now < MaxTime
    /\ now' = now + 1
    /\ UNCHANGED <<failures, locked, guesses>>

Next == Tick \/ \E k \in Key : Refused(k) \/ Succeed(k) \/ Fail(k)

Spec == Init /\ [][Next]_vars

-----------------------------------------------------------------------------
(* Properties. *)

TypeOK ==
    /\ now \in Time
    /\ failures \in [Key -> Seq(Time)]
    /\ locked \in [Key -> Nat]
    /\ guesses \in [Key -> Seq(Guess)]

\* The guess is the last of MaxAttempts in a row within a window, with no success among
\* them (history) and no lock before the last.
Due(k, n) ==
    LET first == n - MaxAttempts + 1 IN
    /\ first >= 1
    /\ guesses[k][n].at - guesses[k][first].at <= Window
    /\ \A m \in first .. n - 1 : ~ guesses[k][m].locks

\* An address gets no more than MaxAttempts wrong passwords looked at within a window,
\* unless a success or a lock falls among them: the last one locks it, wherever the window
\* begins and whatever _prune dropped on behalf of other addresses.
GuessesBounded == \A k \in Key : \A n \in DOMAIN guesses[k] : Due(k, n) => guesses[k][n].locks

\* A lock is justified: it was due, and only an address whose last guess locked it is
\* turned away, no longer than the lockout.
LockJustified ==
    \A k \in Key :
        /\ \A n \in DOMAIN guesses[k] : guesses[k][n].locks => Due(k, n)
        /\ locked[k] > now => LET last == Len(guesses[k]) IN
             last > 0 /\ guesses[k][last].locks /\ locked[k] <= guesses[k][last].at + Lockout

\* No password of a locked address, right or wrong, is looked at before the lockout is
\* over, whatever _prune dropped on behalf of other addresses in the meantime.
LockHolds ==
    [][\A k \in Key : guesses'[k] # guesses[k] =>
         LET last == Len(guesses[k]) IN
         last > 0 /\ guesses[k][last].locks => now >= guesses[k][last].at + Lockout]_vars
=============================================================================
