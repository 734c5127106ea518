----------------------------- MODULE AccountStore -----------------------------
(***************************************************************************)
(* AccountStore of server/accounts.py: the accounts of a JSON file, read   *)
(* again whenever a login finds that its modification time has changed.    *)
(*                                                                         *)
(* reload asks for the modification time and then reads the text; an       *)
(* editor in another process may write before, between and after.  A       *)
(* modification time is coarse, and a file moved into place brings its     *)
(* own, so a write may leave the file with any.                            *)
(***************************************************************************)
EXTENDS Integers

CONSTANTS
    Credential,  \* pairs of a name and a password
    Table,       \* what a well-formed file may hold: sets of credentials
    Mtime,       \* modification times
    Absent,      \* no file
    Torn,        \* a file that does not parse, such as one half written
    Nothing

Content == {Absent, Torn} \cup Table

ASSUME StoreAssumption ==
    /\ Table \subseteq SUBSET Credential
    /\ Absent \notin {Torn} \cup Table /\ Torn \notin Table
    /\ Nothing \notin Mtime

VARIABLES
    disk,     \* the file: its content and modification time
    users,    \* _users
    mtime,    \* _mtime
    reading,  \* the modification time reload has seen before it reads, or Nothing
    blurred   \* history: since then a write left the file with that same time

store == <<disk, users, mtime, reading, blurred>>

\* A missing or malformed file has no accounts.
Parsed(content) == IF content \in Table THEN content ELSE {}

\* The constructor forces a reload.
StoreInit ==
    /\ disk \in [content : {Absent}, mtime : {Nothing}]
                  \cup [content : Content \ {Absent}, mtime : Mtime]
    /\ users = {} /\ mtime = Nothing
    /\ reading = disk.mtime
    /\ blurred = FALSE

\* Mutant: only a newer file is read.
NotNewer(m1, m2) == m1 = m2 \/ (m2 # Nothing /\ m1 < m2)

Unchanged(m1, m2) == m1 = m2

\* Mutant: accounts are added to those known.
Merged(content) == users \cup Parsed(content)

Loaded(content) == Parsed(content)

\* stat finds no file, the time of the last reload, or another one.
NoFile ==
    /\ reading = Nothing /\ disk.content = Absent
    /\ users' = {} /\ mtime' = Nothing /\ blurred' = FALSE
    /\ UNCHANGED <<disk, reading>>

Cached ==
    /\ reading = Nothing /\ disk.content # Absent
    /\ Unchanged(disk.mtime, mtime)
    /\ UNCHANGED store

Stat ==
    /\ reading = Nothing /\ disk.content # Absent
    /\ ~ Unchanged(disk.mtime, mtime)
    /\ reading' = disk.mtime /\ blurred' = FALSE
    /\ UNCHANGED <<disk, users, mtime>>

\* read_text, long after stat for all reload knows; the time is the one seen then.
ReadText ==
    /\ reading # Nothing
    /\ users' = Loaded(disk.content)
    /\ mtime' = reading
    /\ reading' = Nothing
    /\ UNCHANGED <<disk, blurred>>

\* The editor truncates, completes, replaces or removes the file.
Write(content, m) ==
    /\ (content = Absent) <=> (m = Nothing)
    /\ disk' = [content |-> content, mtime |-> m]
    /\ blurred' = (blurred \/ (m # Nothing /\ m = IF reading # Nothing THEN reading ELSE mtime))
    /\ UNCHANGED <<users, mtime, reading>>
=============================================================================
