------------------------- MODULE LoginThrottleProofs -------------------------
(***************************************************************************)
(* For any number of addresses and attempts and any lengths of window and  *)
(* lockout: the types of LoginThrottle, a lock lasts, it has its reason,   *)
(* and the wrong passwords looked at in a window are bounded.              *)
(***************************************************************************)
EXTENDS LoginThrottle, FiniteSetTheorems, SequenceTheorems, TLAPS

-----------------------------------------------------------------------------
(* What _prune leaves of a deque. *)

\* The stamps popped are the first ones, as many as are old; the next is not.
LEMMA Popping ==
    ASSUME NEW t \in Int, NEW stamps \in Seq(Time)
    PROVE  \E j \in 0 .. Len(stamps) :
             /\ Since(t, stamps) \in Seq(Time)
             /\ Len(Since(t, stamps)) = Len(stamps) - j
             /\ \A m \in 1 .. Len(stamps) - j : Since(t, stamps)[m] = stamps[j + m]
             /\ \A m \in 1 .. j : stamps[m] < t
             /\ j < Len(stamps) => stamps[j + 1] >= t
<1>0. stamps \in Seq(Int)
  BY ThrottleAssumption DEF Time
<1> DEFINE popped == {n \in DOMAIN stamps : \A m \in 1 .. n : stamps[m] < t}
<1>1. Len(stamps) \in Nat /\ DOMAIN stamps = 1 .. Len(stamps)
  BY <1>0
<1>2. /\ IsFiniteSet(popped)
      /\ Cardinality(popped) \in Nat /\ Cardinality(popped) <= Len(stamps)
  <2>1. IsFiniteSet(1 .. Len(stamps)) /\ Cardinality(1 .. Len(stamps)) = Len(stamps)
    BY <1>1, FS_Interval
  <2> QED
    BY <1>1, <2>1, FS_Subset, FS_CardinalityType
<1>3. PICK c \in 0 .. Len(stamps) : c = Cardinality(popped)
  <2> HIDE DEF popped
  <2> QED
    BY <1>1, <1>2
<1>4. popped = 1 .. c
  <2>1. ASSUME NEW n \in popped PROVE n \in 1 .. c
    <3>1. n \in Nat /\ n >= 1 /\ 1 .. n \subseteq popped
      BY <1>1
    <3>2. IsFiniteSet(1 .. n) /\ Cardinality(1 .. n) = n
      BY <3>1, FS_Interval
    <3>3. n <= Cardinality(popped)
      BY <1>2, <3>1, <3>2, FS_Subset
    <3> QED
      BY <1>3, <3>1, <3>3
  <2>2. IsFiniteSet(1 .. c) /\ Cardinality(1 .. c) = c
    BY <1>1, <1>3, FS_Interval
  <2> QED
    BY <1>3, <2>1, <2>2, FS_Subset
<1>5. \A m \in 1 .. c : stamps[m] < t
  BY <1>1, <1>4
<1>6. ASSUME c < Len(stamps) PROVE stamps[c + 1] >= t
  <2>1. c + 1 \in DOMAIN stamps /\ c + 1 \notin popped
    <3> HIDE DEF popped
    <3> QED
      BY <1>1, <1>4, <1>6
  <2>2. PICK m \in 1 .. c + 1 : ~ (stamps[m] < t)
    BY <2>1
  <2>3. m = c + 1
    BY <1>1, <1>5, <2>2
  <2>4. stamps[c + 1] \in Int
    BY <1>0, <2>1
  <2> QED
    BY <2>2, <2>3, <2>4
<1>7. Since(t, stamps) = SubSeq(stamps, c + 1, Len(stamps))
  BY <1>3 DEF Since
<1>8. /\ SubSeq(stamps, c + 1, Len(stamps)) \in Seq(Time)
      /\ Len(SubSeq(stamps, c + 1, Len(stamps))) = Len(stamps) - c
      /\ \A m \in 1 .. Len(stamps) - c :
           SubSeq(stamps, c + 1, Len(stamps))[m] = stamps[c + m]
  <2>1. \A i \in c + 1 .. Len(stamps) : stamps[i] \in Time
    BY <1>1, <1>3
  <2>2. /\ SubSeq(stamps, c + 1, Len(stamps)) \in Seq(Time)
        /\ Len(SubSeq(stamps, c + 1, Len(stamps))) =
             IF c + 1 <= Len(stamps) THEN Len(stamps) - (c + 1) + 1 ELSE 0
        /\ \A i \in 1 .. Len(stamps) - (c + 1) + 1 :
             SubSeq(stamps, c + 1, Len(stamps))[i] = stamps[c + 1 + i - 1]
    <3>1. c + 1 \in Int /\ Len(stamps) \in Int
      BY <1>1, <1>3
    <3> QED
      BY <2>1, <3>1, SubSeqProperties
  <2>3. ASSUME NEW m \in 1 .. Len(stamps) - c
        PROVE  m \in 1 .. Len(stamps) - (c + 1) + 1 /\ c + 1 + m - 1 = c + m
    BY <1>1, <1>3
  <2>4. (IF c + 1 <= Len(stamps) THEN Len(stamps) - (c + 1) + 1 ELSE 0) = Len(stamps) - c
    BY <1>1, <1>3
  <2> QED
    BY <2>2, <2>3, <2>4
<1> QED
  BY <1>5, <1>6, <1>7, <1>8

-----------------------------------------------------------------------------
(* The deques and locks against the history of wrong passwords. *)

\* The deque is the end of the history: it is short of a lock and holds none, and a
\* guess that is not in it is out of the window, or a lock has come since.
Kept(k, deque) ==
    /\ Len(deque) < MaxAttempts /\ Len(deque) <= Len(guesses[k])
    /\ \A m \in 1 .. Len(deque) :
         /\ deque[m] = guesses[k][Len(guesses[k]) - Len(deque) + m].at
         /\ ~ guesses[k][Len(guesses[k]) - Len(deque) + m].locks
    /\ \A m \in 1 .. Len(guesses[k]) - Len(deque) :
         \/ guesses[k][m].at < now - Window
         \/ \E l \in m .. Len(guesses[k]) - Len(deque) : guesses[k][l].locks

\* Guesses come in the order of time.
InTime(k) ==
    /\ \A n \in 1 .. Len(guesses[k]) : guesses[k][n].at <= now
    /\ \A m, n \in 1 .. Len(guesses[k]) : m <= n => guesses[k][m].at <= guesses[k][n].at

\* A guess locks exactly when that was due.
Recorded(k) == \A n \in 1 .. Len(guesses[k]) : guesses[k][n].locks <=> Due(k, n)

\* _locked holds the end of the lock that the last guess set: no pruning on behalf of any
\* address, and no success or failure of another, has dropped or moved it.
LockedFor(k) ==
    LET last == Len(guesses[k]) IN
    /\ locked[k] > now =>
         last > 0 /\ guesses[k][last].locks /\ locked[k] = guesses[k][last].at + Lockout
    /\ last > 0 /\ guesses[k][last].locks /\ now < guesses[k][last].at + Lockout =>
         locked[k] = guesses[k][last].at + Lockout

KeyInv(k) == Kept(k, failures[k]) /\ InTime(k) /\ Recorded(k) /\ LockedFor(k)

GuessesInv == TypeOK /\ \A k \in Key : KeyInv(k)

LEMMA GuessTypes ==
    ASSUME TypeOK, NEW k \in Key
    PROVE  /\ MaxAttempts \in Nat \ {0} /\ Window \in Nat /\ Lockout \in Nat
           /\ now \in Nat /\ now \in Time /\ locked[k] \in Nat
           /\ guesses[k] \in Seq(Guess) /\ Len(guesses[k]) \in Nat
           /\ DOMAIN guesses[k] = 1 .. Len(guesses[k])
           /\ \A n \in 1 .. Len(guesses[k]) :
                guesses[k][n] \in Guess /\ guesses[k][n].at \in Nat /\ guesses[k][n].locks \in BOOLEAN
           /\ failures[k] \in Seq(Time) /\ Len(failures[k]) \in Nat
<1>1. guesses[k] \in Seq(Guess) /\ failures[k] \in Seq(Time) /\ locked[k] \in Nat
  BY DEF TypeOK
<1>2. now \in Nat /\ now \in Time
  BY ThrottleAssumption DEF TypeOK, Time
<1>3. /\ Len(guesses[k]) \in Nat /\ Len(failures[k]) \in Nat
      /\ DOMAIN guesses[k] = 1 .. Len(guesses[k])
      /\ \A n \in 1 .. Len(guesses[k]) : guesses[k][n] \in Guess
  BY <1>1
<1>4. \A x \in Guess : x.at \in Nat /\ x.locks \in BOOLEAN
  BY ThrottleAssumption DEF Guess, Time
<1> QED
  BY <1>1, <1>2, <1>3, <1>4, ThrottleAssumption

LEMMA GuessesStart == Init => GuessesInv
<1> SUFFICES ASSUME Init PROVE GuessesInv
  OBVIOUS
<1>1. TypeOK
  BY ThrottleAssumption DEF Init, TypeOK, Time
<1>2. ASSUME NEW k \in Key PROVE KeyInv(k)
  <2>1. failures[k] = <<>> /\ guesses[k] = <<>> /\ now = 0 /\ locked[k] = 0
    BY <1>2 DEF Init
  <2>2. Len(failures[k]) = 0 /\ Len(guesses[k]) = 0 /\ ~ (Len(guesses[k]) > 0) /\ ~ (locked[k] > now)
    BY <2>1
  <2>3. 1 .. Len(guesses[k]) = {} /\ 1 .. Len(failures[k]) = {}
        /\ 1 .. Len(guesses[k]) - Len(failures[k]) = {}
    BY <2>2
  <2> QED
    BY <2>2, <2>3, ThrottleAssumption DEF KeyInv, Kept, InTime, Recorded, LockedFor
<1> QED
  BY <1>1, <1>2 DEF GuessesInv

\* Pruning drops what is out of the window, and of what is left nothing is.
LEMMA PruningKeeps ==
    ASSUME GuessesInv, NEW k \in Key
    PROVE  /\ Fresh(k) \in Seq(Time)
           /\ Kept(k, Fresh(k))
           /\ \A m \in 1 .. Len(Fresh(k)) : now - Window <= Fresh(k)[m]
<1>0. TypeOK /\ Kept(k, failures[k]) /\ InTime(k)
  BY DEF GuessesInv, KeyInv
<1>1. PICK j \in 0 .. Len(failures[k]) :
        /\ Fresh(k) \in Seq(Time)
        /\ Len(Fresh(k)) = Len(failures[k]) - j
        /\ \A m \in 1 .. Len(failures[k]) - j : Fresh(k)[m] = failures[k][j + m]
        /\ \A m \in 1 .. j : failures[k][m] < now - Window
        /\ j < Len(failures[k]) => failures[k][j + 1] >= now - Window
  <2>1. now - Window \in Int /\ failures[k] \in Seq(Time)
    BY <1>0, GuessTypes
  <2> QED
    BY <2>1, Popping DEF Fresh
<1>3. PICK f \in Nat, g \in Nat : f = Len(failures[k]) /\ g = Len(guesses[k])
  BY <1>0, GuessTypes
<1>4. f <= g /\ f < MaxAttempts /\ j \in 0 .. f /\ MaxAttempts \in Nat
  BY <1>0, <1>1, <1>3, GuessTypes DEF Kept
<1>5. \A m \in 1 .. f :
        failures[k][m] = guesses[k][g - f + m].at /\ ~ guesses[k][g - f + m].locks
  BY <1>0, <1>3 DEF Kept
<1>6. ASSUME NEW m \in 1 .. f - j
      PROVE  /\ Fresh(k)[m] = guesses[k][g - (f - j) + m].at
             /\ ~ guesses[k][g - (f - j) + m].locks
             /\ g - (f - j) + m \in 1 .. g
  <2>1. j + m \in 1 .. f /\ g - f + (j + m) = g - (f - j) + m /\ g - (f - j) + m \in 1 .. g
    BY <1>4
  <2>2. failures[k][j + m] = guesses[k][g - f + (j + m)].at /\ ~ guesses[k][g - f + (j + m)].locks
    BY <1>5, <2>1
  <2>3. Fresh(k)[m] = failures[k][j + m]
    BY <1>1, <1>3
  <2> QED
    BY <2>1, <2>2, <2>3
<1>7. ASSUME NEW m \in 1 .. g - (f - j)
      PROVE  \/ guesses[k][m].at < now - Window
             \/ \E l \in m .. g - (f - j) : guesses[k][l].locks
  <2>1. CASE m <= g - f
    <3>1. m \in 1 .. g - f
      BY <1>4, <2>1
    <3>2. guesses[k][m].at < now - Window \/ \E l \in m .. g - f : guesses[k][l].locks
      BY <1>0, <1>3, <3>1 DEF Kept
    <3>3. m .. g - f \subseteq m .. g - (f - j)
      BY <1>4
    <3> QED
      BY <3>2, <3>3
  <2>2. CASE ~ (m <= g - f)
    <3>1. m - (g - f) \in 1 .. f /\ m - (g - f) \in 1 .. j /\ g - f + (m - (g - f)) = m
      BY <1>4, <2>2
    <3>2. failures[k][m - (g - f)] = guesses[k][g - f + (m - (g - f))].at
      BY <1>5, <3>1
    <3>3. failures[k][m - (g - f)] < now - Window
      BY <1>1, <3>1
    <3> QED
      BY <3>1, <3>2, <3>3
  <2> QED
    BY <2>1, <2>2
<1>8. Kept(k, Fresh(k))
  <2>1. f - j <= g /\ f - j < MaxAttempts
    BY <1>4
  <2>2. Fresh(k) \in Seq(Time) /\ Len(Fresh(k)) = f - j
    BY <1>1, <1>3
  <2> QED
    BY <1>3, <1>6, <1>7, <2>1, <2>2 DEF Kept
<1>9. ASSUME NEW m \in 1 .. Len(Fresh(k)) PROVE now - Window <= Fresh(k)[m]
  <2>1. m \in 1 .. f - j
    BY <1>1, <1>3
  <2>2. 1 \in 1 .. f - j /\ j < f /\ g - (f - j) + 1 <= g - (f - j) + m
    BY <1>4, <2>1
  <2>3. Fresh(k)[1] = failures[k][j + 1] /\ failures[k][j + 1] >= now - Window
    BY <1>1, <1>3, <2>2
  <2>4. /\ Fresh(k)[1] = guesses[k][g - (f - j) + 1].at /\ g - (f - j) + 1 \in 1 .. g
        /\ Fresh(k)[m] = guesses[k][g - (f - j) + m].at /\ g - (f - j) + m \in 1 .. g
    BY <1>6, <2>1, <2>2
  <2>5. Fresh(k)[1] <= Fresh(k)[m]
    BY <1>0, <1>3, <2>2, <2>4 DEF InTime
  <2>6. Fresh(k)[m] \in Int /\ Fresh(k)[1] \in Int /\ now - Window \in Int
    <3>1. \A n \in 1 .. g : guesses[k][n].at \in Nat
      BY <1>0, <1>3, GuessTypes
    <3>2. now - Window \in Int
      BY <1>0, GuessTypes
    <3> QED
      BY <2>4, <3>1, <3>2
  <2> QED
    BY <2>3, <2>5, <2>6
<1> QED
  BY <1>1, <1>8, <1>9

LEMMA Unlocking ==
    ASSUME TypeOK, NEW k \in Key
    PROVE  /\ StillLocked(k) \in Nat
           /\ StillLocked(k) > now => StillLocked(k) = locked[k] /\ locked[k] > now
           /\ locked[k] > now => StillLocked(k) = locked[k]
BY GuessTypes DEF StillLocked

\* An address whose deque and lock are pruned, and nothing else.
LEMMA Bystander ==
    ASSUME GuessesInv, NEW k \in Key, now' = now, guesses'[k] = guesses[k],
           locked'[k] = StillLocked(k), failures'[k] = Fresh(k)
    PROVE  KeyInv(k)'
<1>0. TypeOK /\ InTime(k) /\ Recorded(k) /\ LockedFor(k)
  BY DEF GuessesInv, KeyInv
<1>1. Kept(k, Fresh(k))
  BY PruningKeeps
<1>2. Kept(k, failures[k])'
  BY <1>1 DEF Kept
<1>3. InTime(k)' /\ Recorded(k)'
  BY <1>0 DEF InTime, Recorded, Due
<1>4. LockedFor(k)'
  <2>1. PICK last \in Nat : last = Len(guesses[k])
    BY <1>0, GuessTypes
  <2>2. last > 0 => guesses[k][last].at \in Nat
    BY <1>0, <2>1, GuessTypes
  <2>3. last > 0 /\ guesses[k][last].locks /\ now < guesses[k][last].at + Lockout =>
          locked[k] > now
    BY <1>0, <2>1, <2>2, GuessTypes DEF LockedFor
  <2> QED
    BY <1>0, <2>1, <2>3, Unlocking DEF LockedFor
<1> QED
  BY <1>2, <1>3, <1>4 DEF KeyInv

\* The clock moves on.
LEMMA TickKeeps ==
    ASSUME GuessesInv, Tick, NEW k \in Key
    PROVE  KeyInv(k)'
<1>0. TypeOK /\ KeyInv(k)
  BY DEF GuessesInv
<1>1. now' = now + 1 /\ failures' = failures /\ guesses' = guesses /\ locked' = locked
  BY DEF Tick
<1>2. PICK g \in Nat : g = Len(guesses[k])
  BY <1>0, GuessTypes
<1>3. \A n \in 1 .. g : guesses[k][n].at \in Nat
  BY <1>0, <1>2, GuessTypes
<1>4. now \in Nat /\ Window \in Nat /\ Lockout \in Nat /\ locked[k] \in Nat
  BY <1>0, GuessTypes
<1>5. InTime(k)'
  <2>1. ASSUME NEW n \in 1 .. g PROVE guesses[k][n].at <= now + 1
    BY <1>0, <1>2, <1>3, <1>4 DEF KeyInv, InTime
  <2> QED
    BY <1>0, <1>1, <1>2, <2>1 DEF KeyInv, InTime
<1>6. Recorded(k)'
  BY <1>0, <1>1 DEF KeyInv, Recorded, Due
<1>7. LockedFor(k)'
  <2>1. locked[k] > now + 1 => locked[k] > now
    BY <1>4
  <2>2. g > 0 => (now + 1 < guesses[k][g].at + Lockout => now < guesses[k][g].at + Lockout)
    BY <1>2, <1>3, <1>4
  <2> QED
    BY <1>0, <1>1, <1>2, <2>1, <2>2 DEF KeyInv, LockedFor
<1>8. Kept(k, failures[k])'
  <2>1. PICK f \in Nat : f = Len(failures[k])
    BY <1>0, GuessTypes
  <2>2. ASSUME NEW m \in 1 .. g - f
        PROVE  guesses[k][m].at < now + 1 - Window \/ \E l \in m .. g - f : guesses[k][l].locks
    <3>1. guesses[k][m].at < now - Window \/ \E l \in m .. g - f : guesses[k][l].locks
      BY <1>0, <1>2, <2>1 DEF KeyInv, Kept
    <3>2. m \in 1 .. g
      BY <2>1
    <3> QED
      BY <1>3, <1>4, <3>1, <3>2
  <2>3. /\ f < MaxAttempts /\ f <= g
        /\ \A m \in 1 .. f : /\ failures[k][m] = guesses[k][g - f + m].at
                             /\ ~ guesses[k][g - f + m].locks
    BY <1>0, <1>2, <2>1 DEF KeyInv, Kept
  <2>4. f = Len(failures'[k]) /\ g = Len(guesses'[k])
    BY <1>1, <1>2, <2>1
  <2>5. Len(failures'[k]) < MaxAttempts /\ Len(failures'[k]) <= Len(guesses'[k])
    BY <2>3, <2>4
  <2>6. \A m \in 1 .. Len(failures'[k]) :
          /\ failures'[k][m] = guesses'[k][Len(guesses'[k]) - Len(failures'[k]) + m].at
          /\ ~ guesses'[k][Len(guesses'[k]) - Len(failures'[k]) + m].locks
    BY <1>1, <2>3, <2>4
  <2>7. \A m \in 1 .. Len(guesses'[k]) - Len(failures'[k]) :
          \/ guesses'[k][m].at < now' - Window
          \/ \E l \in m .. Len(guesses'[k]) - Len(failures'[k]) : guesses'[k][l].locks
    BY <1>1, <1>4, <2>2, <2>4
  <2> QED
    BY <2>5, <2>6, <2>7 DEF Kept
<1> QED
  BY <1>5, <1>6, <1>7, <1>8 DEF KeyInv

\* A success forgets the history.
LEMMA SuccessKeeps ==
    ASSUME GuessesInv, NEW k \in Key, now' = now, guesses'[k] = <<>>,
           locked'[k] = StillLocked(k), StillLocked(k) = 0, failures'[k] = <<>>
    PROVE  KeyInv(k)'
<1>1. /\ Len(failures'[k]) = 0 /\ Len(guesses'[k]) = 0 /\ ~ (Len(guesses'[k]) > 0)
      /\ 1 .. Len(guesses'[k]) = {} /\ 1 .. Len(failures'[k]) = {}
      /\ 1 .. Len(guesses'[k]) - Len(failures'[k]) = {}
  OBVIOUS
<1>2. ~ (locked'[k] > now')
  <2>1. now \in Nat
    BY GuessTypes DEF GuessesInv
  <2> QED
    BY <2>1
<1> QED
  BY <1>1, <1>2, ThrottleAssumption DEF KeyInv, Kept, InTime, Recorded, LockedFor

\* A failure is recorded, and locks when that is due.
LEMMA FailureKeeps ==
    ASSUME GuessesInv, NEW k \in Key, Fail(k)
    PROVE  KeyInv(k)'
<1>0. TypeOK /\ KeyInv(k)
  BY DEF GuessesInv
<1>1. PICK d \in Nat, g \in Nat : d = Len(Fresh(k)) /\ g = Len(guesses[k])
  <2>1. Len(Fresh(k)) \in Nat
    BY PruningKeeps
  <2> QED
    BY <1>0, <2>1, GuessTypes
<1>2. /\ d < MaxAttempts /\ d <= g /\ MaxAttempts \in Nat \ {0}
      /\ \A m \in 1 .. d : Fresh(k)[m] = guesses[k][g - d + m].at /\ ~ guesses[k][g - d + m].locks
      /\ \A m \in 1 .. d : now - Window <= Fresh(k)[m]
      /\ \A m \in 1 .. g - d :
           guesses[k][m].at < now - Window \/ \E l \in m .. g - d : guesses[k][l].locks
  BY <1>0, <1>1, GuessTypes, PruningKeeps DEF Kept
<1>3. /\ Append(Fresh(k), now) \in Seq(Time) /\ Len(Append(Fresh(k), now)) = d + 1
      /\ \A m \in 1 .. d : Append(Fresh(k), now)[m] = Fresh(k)[m]
      /\ Append(Fresh(k), now)[d + 1] = now
  <2>1. Fresh(k) \in Seq(Time) /\ now \in Time
    BY <1>0, PruningKeeps, GuessTypes
  <2> QED
    BY <1>1, <2>1
<1>4. PICK locks \in BOOLEAN : locks <=> d + 1 >= MaxAttempts
  OBVIOUS
<1>5. /\ now' = now
      /\ failures'[k] = IF locks THEN <<>> ELSE Append(Fresh(k), now)
      /\ locked'[k] = IF locks THEN now + Lockout ELSE StillLocked(k)
      /\ StillLocked(k) = 0
  BY <1>3, <1>4 DEF Fail
<1>6. guesses'[k] = Append(guesses[k], [at |-> now, locks |-> locks])
  <2>1. locks = (Len(Append(Fresh(k), now)) >= MaxAttempts)
    BY <1>2, <1>3, <1>4
  <2>2. guesses' = [guesses EXCEPT ![k] =
                      Append(@, [at |-> now, locks |-> Len(Append(Fresh(k), now)) >= MaxAttempts])]
    BY DEF Fail
  <2> QED
    BY <1>0, <2>1, <2>2 DEF TypeOK
<1>7. /\ Len(guesses'[k]) = g + 1
      /\ \A n \in 1 .. g : guesses'[k][n] = guesses[k][n]
      /\ guesses'[k][g + 1].at = now
      /\ guesses'[k][g + 1].locks <=> locks
  <2>1. [at |-> now, locks |-> locks] \in Guess /\ guesses[k] \in Seq(Guess)
    BY <1>0, GuessTypes DEF Guess
  <2> QED
    BY <1>1, <1>6, <2>1
<1>8. now \in Nat /\ Window \in Nat /\ Lockout \in Nat /\ \A n \in 1 .. g : guesses[k][n].at \in Nat
  BY <1>0, <1>1, GuessTypes
<1>9. InTime(k)'
  <2>1. \A n \in 1 .. g : guesses[k][n].at <= now
    BY <1>0, <1>1 DEF KeyInv, InTime
  <2>2. \A m, n \in 1 .. g : m <= n => guesses[k][m].at <= guesses[k][n].at
    BY <1>0, <1>1 DEF KeyInv, InTime
  <2>3. ASSUME NEW n \in 1 .. g + 1 PROVE guesses'[k][n].at <= now
    BY <1>7, <1>8, <2>1
  <2>4. ASSUME NEW m \in 1 .. g + 1, NEW n \in 1 .. g + 1, m <= n
        PROVE  guesses'[k][m].at <= guesses'[k][n].at
    <3>1. CASE n = g + 1
      BY <1>7, <2>3, <3>1
    <3>2. CASE n # g + 1
      <4>1. m \in 1 .. g /\ n \in 1 .. g
        BY <2>4, <3>2
      <4> QED
        BY <1>7, <2>2, <2>4, <4>1
    <3> QED
      BY <3>1, <3>2
  <2> QED
    BY <1>5, <1>7, <2>3, <2>4 DEF InTime
<1>10. Recorded(k)'
  <2>1. ASSUME NEW n \in 1 .. g PROVE guesses'[k][n].locks <=> Due(k, n)'
    <3>1. guesses[k][n].locks <=> Due(k, n)
      BY <1>0, <1>1 DEF KeyInv, Recorded
    <3>2. PICK first \in Int : first = n - MaxAttempts + 1
      BY <1>2
    <3>3. first >= 1 => first \in 1 .. g /\ first .. n - 1 \subseteq 1 .. g
      BY <1>2, <3>2
    <3>4. Due(k, n)' <=> Due(k, n)
      BY <1>7, <3>2, <3>3 DEF Due
    <3> QED
      BY <1>7, <3>1, <3>4
  <2> DEFINE earliest == (g + 1) - MaxAttempts + 1
  <2>2. earliest \in Int
    BY <1>2
  <2>3. ASSUME locks PROVE Due(k, g + 1)'
    <3>1. d + 1 = MaxAttempts
      BY <1>2, <1>4, <2>3
    <3>2. earliest = g - d + 1 /\ earliest >= 1 /\ earliest <= g + 1
      BY <1>2, <2>2, <3>1
    <3>3. ASSUME NEW m \in earliest .. g PROVE now - Window <= guesses'[k][m].at /\ ~ guesses'[k][m].locks
      <4>1. m - (g - d) \in 1 .. d /\ g - d + (m - (g - d)) = m /\ m \in 1 .. g
        BY <1>2, <3>2
      <4>2. now - Window <= guesses[k][m].at /\ ~ guesses[k][m].locks
        BY <1>2, <4>1
      <4> QED
        BY <1>7, <4>1, <4>2
    <3>4. guesses'[k][g + 1].at - guesses'[k][earliest].at <= Window
      <4>1. CASE earliest = g + 1
        BY <1>7, <1>8, <4>1
      <4>2. CASE earliest # g + 1
        <5>1. earliest \in earliest .. g /\ earliest \in 1 .. g
          BY <3>2, <4>2
        <5>2. now - Window <= guesses'[k][earliest].at /\ guesses'[k][earliest].at \in Nat
          BY <1>7, <1>8, <3>3, <5>1
        <5> QED
          BY <1>7, <1>8, <5>2
      <4> QED
        BY <4>1, <4>2
    <3>5. g + 1 - 1 = g
      OBVIOUS
    <3> QED
      BY <1>1, <1>2, <2>2, <3>2, <3>3, <3>4, <3>5 DEF Due
  <2>4. ASSUME ~ locks, Due(k, g + 1)' PROVE FALSE
    <3>1. d + 1 < MaxAttempts
      BY <1>2, <1>4, <2>4
    <3>2. /\ earliest >= 1 /\ guesses'[k][g + 1].at - guesses'[k][earliest].at <= Window
          /\ \A m \in earliest .. g + 1 - 1 : ~ guesses'[k][m].locks
      BY <2>4 DEF Due
    <3>3. earliest \in 1 .. g - d /\ earliest \in 1 .. g /\ g + 1 - 1 = g
      BY <1>2, <2>2, <3>1, <3>2
    <3>4. ~ (guesses[k][earliest].at < now - Window)
      BY <1>7, <1>8, <3>2, <3>3
    <3>5. PICK l \in earliest .. g - d : guesses[k][l].locks
      BY <1>2, <3>3, <3>4
    <3>6. l \in earliest .. g /\ l \in 1 .. g
      BY <3>3
    <3> QED
      BY <1>7, <3>2, <3>3, <3>5, <3>6
  <2>5. ASSUME NEW n \in 1 .. g + 1 PROVE guesses'[k][n].locks <=> Due(k, n)'
    <3>1. CASE n \in 1 .. g
      BY <2>1, <3>1
    <3>2. CASE n = g + 1
      BY <1>7, <2>3, <2>4, <3>2
    <3> QED
      BY <3>1, <3>2
  <2> QED
    BY <1>7, <2>5 DEF Recorded
<1>11. LockedFor(k)'
  <2>1. CASE locks
    BY <1>5, <1>7, <2>1 DEF LockedFor
  <2>2. CASE ~ locks
    BY <1>5, <1>7, <1>8, <2>2 DEF LockedFor
  <2> QED
    BY <2>1, <2>2
<1>12. Kept(k, failures[k])'
  <2>1. CASE locks
    <3>1. failures'[k] = <<>> /\ Len(failures'[k]) = 0 /\ 1 .. Len(failures'[k]) = {}
      BY <1>5, <2>1
    <3>2. ASSUME NEW m \in 1 .. g + 1 PROVE \E l \in m .. g + 1 : guesses'[k][l].locks
      BY <1>1, <1>2, <1>7, <2>1
    <3>3. g + 1 - 0 = g + 1 /\ 0 < MaxAttempts /\ 0 <= g + 1
      BY <1>2
    <3>4. Len(failures'[k]) < MaxAttempts /\ Len(failures'[k]) <= Len(guesses'[k])
      BY <1>7, <3>1, <3>3
    <3>5. \A m \in 1 .. Len(failures'[k]) :
            /\ failures'[k][m] = guesses'[k][Len(guesses'[k]) - Len(failures'[k]) + m].at
            /\ ~ guesses'[k][Len(guesses'[k]) - Len(failures'[k]) + m].locks
      BY <3>1
    <3>6. Len(guesses'[k]) - Len(failures'[k]) = g + 1
      BY <1>7, <3>1, <3>3
    <3>7. ASSUME NEW m \in 1 .. Len(guesses'[k]) - Len(failures'[k])
          PROVE  \/ guesses'[k][m].at < now' - Window
                 \/ \E l \in m .. Len(guesses'[k]) - Len(failures'[k]) : guesses'[k][l].locks
      BY <3>2, <3>6, Zenon
    <3> QED
      BY <3>4, <3>5, <3>7 DEF Kept
  <2>2. CASE ~ locks
    <3>1. failures'[k] = Append(Fresh(k), now) /\ d + 1 < MaxAttempts
      BY <1>2, <1>4, <1>5, <2>2
    <3>2. d + 1 <= g + 1 /\ (g + 1) - (d + 1) = g - d
      BY <1>2
    <3>3. ASSUME NEW m \in 1 .. d + 1
          PROVE  /\ Append(Fresh(k), now)[m] = guesses'[k][g - d + m].at
                 /\ ~ guesses'[k][g - d + m].locks
      <4>1. CASE m = d + 1
        <5>1. g - d + m = g + 1
          BY <1>2, <4>1
        <5> QED
          BY <1>3, <1>7, <2>2, <4>1, <5>1
      <4>2. CASE m # d + 1
        <5>1. m \in 1 .. d /\ g - d + m \in 1 .. g
          BY <1>2, <4>2
        <5> QED
          BY <1>2, <1>3, <1>7, <5>1
      <4> QED
        BY <4>1, <4>2
    <3>4. ASSUME NEW m \in 1 .. g - d
          PROVE  guesses'[k][m].at < now - Window \/ \E l \in m .. g - d : guesses'[k][l].locks
      <4>1. m \in 1 .. g /\ m .. g - d \subseteq 1 .. g
        BY <1>2
      <4> QED
        BY <1>2, <1>7, <4>1
    <3>5. Len(failures'[k]) = d + 1 /\ Len(guesses'[k]) - Len(failures'[k]) = g - d
      BY <1>3, <1>7, <3>1, <3>2
    <3>6. Len(failures'[k]) < MaxAttempts /\ Len(failures'[k]) <= Len(guesses'[k])
      BY <1>7, <3>1, <3>2, <3>5
    <3>7. \A m \in 1 .. Len(failures'[k]) :
            /\ failures'[k][m] = guesses'[k][Len(guesses'[k]) - Len(failures'[k]) + m].at
            /\ ~ guesses'[k][Len(guesses'[k]) - Len(failures'[k]) + m].locks
      BY <3>1, <3>3, <3>5
    <3>8. \A m \in 1 .. Len(guesses'[k]) - Len(failures'[k]) :
            \/ guesses'[k][m].at < now' - Window
            \/ \E l \in m .. Len(guesses'[k]) - Len(failures'[k]) : guesses'[k][l].locks
      BY <1>5, <3>4, <3>5
    <3> QED
      BY <3>6, <3>7, <3>8 DEF Kept
  <2> QED
    BY <2>1, <2>2
<1> QED
  BY <1>9, <1>10, <1>11, <1>12 DEF KeyInv

LEMMA TypesNext == GuessesInv /\ [Next]_vars => TypeOK'
<1> SUFFICES ASSUME GuessesInv, [Next]_vars PROVE TypeOK'
  OBVIOUS
<1>0. TypeOK
  BY DEF GuessesInv
<1>1. \A j \in Key : Fresh(j) \in Seq(Time) /\ StillLocked(j) \in Nat
  BY <1>0, PruningKeeps, Unlocking
<1>2. CASE UNCHANGED vars
  BY <1>0, <1>2 DEF vars, TypeOK
<1>3. CASE Tick
  BY <1>0, <1>3, ThrottleAssumption DEF Tick, TypeOK, Time
<1>4. ASSUME NEW k \in Key, Refused(k) PROVE TypeOK'
  BY <1>0, <1>1, <1>4 DEF Refused, TypeOK
<1>5. ASSUME NEW k \in Key, Succeed(k) PROVE TypeOK'
  <2>1. failures' \in [Key -> Seq(Time)]
    BY <1>1, <1>5 DEF Succeed
  <2>2. guesses' \in [Key -> Seq(Guess)]
    BY <1>0, <1>5 DEF Succeed, TypeOK
  <2> QED
    BY <1>0, <1>1, <1>5, <2>1, <2>2 DEF Succeed, TypeOK
<1>6. ASSUME NEW k \in Key, Fail(k) PROVE TypeOK'
  <2>1. Append(Fresh(k), now) \in Seq(Time) /\ now + Lockout \in Nat
    BY <1>0, <1>1, GuessTypes
  <2>2. failures' \in [Key -> Seq(Time)]
    BY <1>1, <1>6, <2>1 DEF Fail
  <2>3. locked' \in [Key -> Nat]
    BY <1>1, <1>6, <2>1 DEF Fail
  <2>4. guesses' \in [Key -> Seq(Guess)]
    <3>1. PICK locks \in BOOLEAN :
            guesses' = [guesses EXCEPT ![k] = Append(@, [at |-> now, locks |-> locks])]
      <4>1. (Len(Append(Fresh(k), now)) >= MaxAttempts) \in BOOLEAN
        OBVIOUS
      <4>2. guesses' = [guesses EXCEPT ![k] =
                          Append(@, [at |-> now, locks |-> Len(Append(Fresh(k), now)) >= MaxAttempts])]
        BY <1>6 DEF Fail
      <4> QED
        BY <4>1, <4>2, Zenon
    <3>2. [at |-> now, locks |-> locks] \in Guess
      BY <1>0 DEF TypeOK, Guess
    <3>3. Append(guesses[k], [at |-> now, locks |-> locks]) \in Seq(Guess)
      BY <1>0, <3>2 DEF TypeOK
    <3> QED
      BY <1>0, <3>1, <3>3 DEF TypeOK
  <2> QED
    BY <1>0, <1>6, <2>2, <2>3, <2>4 DEF Fail, TypeOK
<1> QED
  BY <1>2, <1>3, <1>4, <1>5, <1>6 DEF Next

LEMMA GuessesNext == GuessesInv /\ [Next]_vars => GuessesInv'
<1> SUFFICES ASSUME GuessesInv, [Next]_vars PROVE GuessesInv'
  OBVIOUS
<1>1. TypeOK'
  BY TypesNext
<1>2. ASSUME NEW k \in Key PROVE KeyInv(k)'
  <2>0. DOMAIN guesses = Key
    BY DEF GuessesInv, TypeOK
  <2>1. CASE UNCHANGED vars
    <3>1. KeyInv(k)
      BY DEF GuessesInv
    <3>2. now' = now /\ failures' = failures /\ guesses' = guesses /\ locked' = locked
      BY <2>1 DEF vars
    <3> QED
      BY <3>1, <3>2 DEF KeyInv, Kept, InTime, Recorded, Due, LockedFor
  <2>2. CASE Tick
    BY <2>2, TickKeeps
  <2>3. ASSUME NEW j \in Key, Refused(j) PROVE KeyInv(k)'
    <3>1. /\ now' = now /\ guesses'[k] = guesses[k]
          /\ locked'[k] = StillLocked(k) /\ failures'[k] = Fresh(k)
      BY <2>3 DEF Refused
    <3> QED
      BY <3>1, Bystander
  <2>4. ASSUME NEW j \in Key, Succeed(j) PROVE KeyInv(k)'
    <3>1. /\ now' = now /\ locked'[k] = StillLocked(k)
          /\ guesses'[k] = IF k = j THEN <<>> ELSE guesses[k]
          /\ failures'[k] = IF k = j THEN <<>> ELSE Fresh(k)
          /\ StillLocked(j) = 0
      BY <2>0, <2>4 DEF Succeed
    <3>2. CASE k = j
      BY <3>1, <3>2, SuccessKeeps
    <3>3. CASE k # j
      BY <3>1, <3>3, Bystander
    <3> QED
      BY <3>2, <3>3
  <2>5. ASSUME NEW j \in Key, Fail(j) PROVE KeyInv(k)'
    <3>1. CASE k = j
      BY <2>5, <3>1, FailureKeeps
    <3>2. CASE k # j
      <4>1. /\ now' = now /\ guesses'[k] = guesses[k]
            /\ locked'[k] = StillLocked(k) /\ failures'[k] = Fresh(k)
        BY <2>0, <2>5, <3>2 DEF Fail
      <4> QED
        BY <4>1, Bystander
    <3> QED
      BY <3>1, <3>2
  <2> QED
    BY <2>1, <2>2, <2>3, <2>4, <2>5 DEF Next
<1> QED
  BY <1>1, <1>2 DEF GuessesInv

-----------------------------------------------------------------------------
(* The theorems. *)

\* Types: stamps are times of the clock, a lock is a time or none.
THEOREM ThrottleTypes == Spec => []TypeOK
<1>1. GuessesInv => TypeOK
  BY DEF GuessesInv
<1> QED
  BY <1>1, GuessesStart, GuessesNext, PTL DEF Spec

\* An address gets no more than MaxAttempts wrong passwords looked at within a window,
\* unless a success or a lock falls among them: the last one locks it.
THEOREM GuessesAreBounded == Spec => []GuessesBounded
<1>1. GuessesInv => GuessesBounded
  BY GuessTypes DEF GuessesInv, KeyInv, Recorded, GuessesBounded
<1> QED
  BY <1>1, GuessesStart, GuessesNext, PTL DEF Spec

\* A lock was due, and only an address whose last guess locked it is turned away, no
\* longer than the lockout.
THEOREM LocksAreJustified == Spec => []LockJustified
<1>1. GuessesInv => LockJustified
  <2> SUFFICES ASSUME GuessesInv, NEW k \in Key
               PROVE  /\ \A n \in DOMAIN guesses[k] : guesses[k][n].locks => Due(k, n)
                      /\ locked[k] > now => LET last == Len(guesses[k]) IN
                           /\ last > 0 /\ guesses[k][last].locks
                           /\ locked[k] <= guesses[k][last].at + Lockout
    BY DEF LockJustified
  <2>1. TypeOK /\ Recorded(k) /\ LockedFor(k)
    BY DEF GuessesInv, KeyInv
  <2>2. \A n \in DOMAIN guesses[k] : guesses[k][n].locks => Due(k, n)
    BY <2>1, GuessTypes DEF Recorded
  <2>3. ASSUME locked[k] > now
        PROVE  LET last == Len(guesses[k]) IN
                 /\ last > 0 /\ guesses[k][last].locks
                 /\ locked[k] <= guesses[k][last].at + Lockout
    <3>1. locked[k] <= locked[k]
      BY <2>1, GuessTypes
    <3> QED
      BY <2>1, <2>3, <3>1 DEF LockedFor
  <2> QED
    BY <2>2, <2>3
<1> QED
  BY <1>1, GuessesStart, GuessesNext, PTL DEF Spec

\* No password of a locked address is looked at before its lockout is over,
\* whatever the other addresses do.
THEOREM LocksHold == Spec => LockHolds
<1>1. GuessesInv /\ [Next]_vars =>
        [\A k \in Key : guesses'[k] # guesses[k] =>
           LET last == Len(guesses[k]) IN
           last > 0 /\ guesses[k][last].locks => now >= guesses[k][last].at + Lockout]_vars
  <2> SUFFICES ASSUME GuessesInv, Next, NEW k \in Key, guesses'[k] # guesses[k],
                      Len(guesses[k]) > 0, guesses[k][Len(guesses[k])].locks
               PROVE  now >= guesses[k][Len(guesses[k])].at + Lockout
    OBVIOUS
  <2>1. PICK j \in Key : Succeed(j) \/ Fail(j)
    BY DEF Next, Tick, Refused
  <2>2. j = k
    BY <2>1 DEF Succeed, Fail, GuessesInv, TypeOK
  <2>3. StillLocked(k) = 0
    BY <2>1, <2>2 DEF Succeed, Fail
  <2>4. PICK last \in Nat : last = Len(guesses[k]) /\ last \in 1 .. Len(guesses[k])
    BY GuessTypes DEF GuessesInv
  <2>5. guesses[k][last].at \in Nat /\ now \in Nat /\ locked[k] \in Nat /\ Lockout \in Nat
    BY <2>4, GuessTypes DEF GuessesInv
  <2>6. locked[k] <= now
    BY <2>3, <2>5 DEF StillLocked
  <2>7. now < guesses[k][last].at + Lockout => locked[k] = guesses[k][last].at + Lockout
    BY <2>4 DEF GuessesInv, KeyInv, LockedFor
  <2> QED
    BY <2>4, <2>5, <2>6, <2>7
<1> QED
  BY <1>1, GuessesStart, GuessesNext, PTL DEF Spec, LockHolds
=============================================================================
