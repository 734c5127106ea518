---------------------------- MODULE HubLoginProofs ----------------------------
(***************************************************************************)
(* Logins of HubLogin keep the promises of LoginThrottle, and their        *)
(* verdicts go by the accounts file, for any accounts, contents,           *)
(* modification times and addresses, and any writes to the file.           *)
(***************************************************************************)
EXTENDS HubLogin, LoginThrottleProofs

LEMMA StepsOfThrottle == [LoginNext]_loginVars => [Next]_vars
<1> SUFFICES ASSUME LoginNext PROVE Next \/ UNCHANGED vars
  BY DEF loginVars, throttle, vars
<1>1. CASE TimePasses
  BY <1>1 DEF TimePasses, Next
<1>2. CASE Start
  BY <1>2 DEF Start, throttle, vars
<1>3. ASSUME NEW content, NEW m, Edit(content, m) PROVE UNCHANGED vars
  BY <1>3 DEF Edit, throttle, vars
<1>4. ASSUME NEW k \in Key, TurnAway(k) PROVE Next
  BY <1>4 DEF TurnAway, Next
<1>5. ASSUME NEW k \in Key, NEW c \in Credential, Verdict(k, c) PROVE Next
  BY <1>5 DEF Verdict, Next
<1>6. ASSUME NEW k \in Key, NEW c \in Credential, LoginReloads(k, c) PROVE UNCHANGED vars
  BY <1>6 DEF LoginReloads, throttle, vars
<1> QED
  BY <1>1, <1>2, <1>3, <1>4, <1>5, <1>6 DEF LoginNext, LoginAtOnce, LoginRead

\* Reading the accounts between retry_after and the verdict, while the clock runs,
\* does not weaken the throttle: what logins do, LoginThrottle allows.
THEOREM ImplementsThrottle == LoginSpec => Spec
<1>1. LoginInit => Init
  BY DEF LoginInit
<1> QED
  BY <1>1, StepsOfThrottle, PTL DEF LoginSpec, Spec

\* No password of a locked address is looked at before its lockout is over.
THEOREM LoginLocksHold == LoginSpec => LockHolds
BY ImplementsThrottle, LocksHold

\* An address gets no more than MaxAttempts wrong passwords looked at within a window,
\* unless a success or a lock falls among them.
THEOREM LoginGuessesBounded == LoginSpec => []GuessesBounded
BY ImplementsThrottle, GuessesAreBounded

\* A lock was due, and only an address whose last guess locked it is turned away.
THEOREM LoginLocksJustified == LoginSpec => []LockJustified
BY ImplementsThrottle, LocksAreJustified

-----------------------------------------------------------------------------
\* The accounts known are those of the file whenever its modification time is the
\* one of the last reload, unless a write has left it with that time since.
StoreInv ==
    /\ StoreTypeOK
    /\ (disk.content = Absent) <=> (disk.mtime = Nothing)
    /\ reading = Nothing /\ ~ blurred /\ disk.content # Absent /\ disk.mtime = mtime
         => users = Parsed(disk.content)

LEMMA StoreStart == LoginInit => StoreInv
BY StoreAssumption DEF LoginInit, StoreInit, StoreInv, StoreTypeOK, Content

LEMMA StoreNext == StoreInv /\ [LoginNext]_loginVars => StoreInv'
<1> SUFFICES ASSUME StoreInv, [LoginNext]_loginVars PROVE StoreInv'
  OBVIOUS
<1> USE StoreAssumption
<1>1. CASE UNCHANGED <<store, login>>
  BY <1>1 DEF StoreInv, StoreTypeOK, Parsed, store
<1>2. ASSUME ReadText, login' = Nothing PROVE StoreInv'
  <2>1. users' \in {{}} \cup Table
    BY <1>2 DEF ReadText, Loaded, Parsed
  <2> QED
    BY <1>2, <2>1 DEF ReadText, Loaded, Parsed, StoreInv, StoreTypeOK
<1>3. ASSUME NEW content \in Content, NEW m \in Mtime \cup {Nothing}, Edit(content, m)
      PROVE  StoreInv'
  <2>1. /\ disk' = [content |-> content, mtime |-> m]
        /\ UNCHANGED <<users, mtime, reading, login>>
        /\ (content = Absent) <=> (m = Nothing)
        /\ blurred' \in BOOLEAN
    BY <1>3 DEF Edit, Write, StoreInv, StoreTypeOK
  <2>2. m # Nothing /\ reading = Nothing /\ m = mtime => blurred'
    BY <1>3 DEF Edit, Write
  <2> QED
    BY <2>1, <2>2 DEF StoreInv, StoreTypeOK
<1>4. ASSUME NoFile \/ Cached, UNCHANGED login PROVE StoreInv'
  BY <1>4 DEF NoFile, Cached, Parsed, store, StoreInv, StoreTypeOK
<1>5. ASSUME NEW k \in Key, NEW c \in Credential, LoginReloads(k, c) PROVE StoreInv'
  <2>1. disk.mtime \in Mtime
    BY <1>5 DEF LoginReloads, Stat, StoreInv, StoreTypeOK
  <2> QED
    BY <1>5, <2>1 DEF LoginReloads, Stat, StoreInv, StoreTypeOK
<1> QED
  <2>1. CASE TimePasses
    BY <1>1, <2>1 DEF TimePasses
  <2>2. CASE Start
    BY <1>2, <2>2 DEF Start
  <2>3. ASSUME NEW k \in Key, TurnAway(k) PROVE StoreInv'
    BY <1>1, <2>3 DEF TurnAway
  <2>4. ASSUME NEW k \in Key, NEW c \in Credential, LoginAtOnce(k, c) PROVE StoreInv'
    BY <1>4, <2>4 DEF LoginAtOnce
  <2>5. ASSUME NEW k \in Key, NEW c \in Credential, LoginRead(k, c) PROVE StoreInv'
    BY <1>2, <2>5 DEF LoginRead
  <2>6. CASE UNCHANGED loginVars
    BY <1>1, <2>6 DEF loginVars
  <2> QED
    BY <1>3, <1>5, <2>1, <2>2, <2>3, <2>4, <2>5, <2>6 DEF LoginNext

\* Types of the throttle, of the accounts and their file, and of the login under way.
THEOREM LoginTypeCorrect == LoginSpec => []LoginTypeOK
<1>1. LoginSpec => []TypeOK
  BY ImplementsThrottle, ThrottleTypes
<1>2. StoreInv => StoreTypeOK
  BY DEF StoreInv
<1>3. LoginSpec => []StoreTypeOK
  BY <1>2, StoreStart, StoreNext, PTL DEF LoginSpec
<1> QED
  BY <1>1, <1>3, PTL DEF LoginTypeOK

\* Editing the file takes effect at once: every verdict is by what the file holds at
\* that moment, unless a write left it with the time of the last reload.
THEOREM VerdictsByFile == LoginSpec => VerdictsFollowFile
<1>1. StoreInv /\ [LoginNext]_loginVars =>
        [\A k \in Key, c \in Credential :
           LoginAtOnce(k, c) \/ LoginRead(k, c) =>
             ((c \in users') <=> (c \in Parsed(disk.content))) \/ blurred]_loginVars
  <2> SUFFICES ASSUME StoreInv, NEW k \in Key, NEW c \in Credential, ~ blurred,
                      LoginAtOnce(k, c) \/ LoginRead(k, c)
               PROVE  users' = Parsed(disk.content)
    OBVIOUS
  <2>1. CASE NoFile
    BY <2>1, StoreAssumption DEF NoFile, Parsed
  <2>2. CASE Cached
    BY <2>2 DEF Cached, Unchanged, store, StoreInv
  <2>3. CASE ReadText
    BY <2>3 DEF ReadText, Loaded
  <2> QED
    BY <2>1, <2>2, <2>3 DEF LoginAtOnce, LoginRead
<1> QED
  BY <1>1, StoreStart, StoreNext, PTL DEF LoginSpec, VerdictsFollowFile
=============================================================================
