# A verification of p2p_file_sync

TLA+ models of the file-sharing program in this repository, TLC configurations
that check them on small instances, and theorems the TLAPS proof system checks
for every value of the constants.  Source paths below are relative to the
repository; `transfer.py` is `src/pfs/net/transfer.py`, and so on.

## The system

Users log in to a **signaling server** over websockets.  A **publisher** offers a
folder as a *share*; a **receiver** lists the shares, fetches a share's manifest,
and opens a WebRTC data channel to its publisher, negotiated through the server.
Over the channel it requests the file in chunks, writes them to a part file and
promotes that to the target once its digest agrees with the publisher's.  A Qt
GUI and a command line drive both sides.

### Inventory

| Component | State it keeps | Operations | Talks to | What is hard | What makes it correct |
|---|---|---|---|---|---|
| Resumable target: `PartialFile`, `chunker.py` | `<target>.pfs-part`, `.pfs-state`, `.pfs-state.tmp`, the target; `received` in memory | load, write_chunk, save_state, missing, compute_sha256, finish | called in threads by download_file | four files changed one after the other, a crash between any two; threads no cancel can stop; stale state of another size or content | a chunk claimed is on disk; claims are not lost; the target is one whole content; a retry gets there |
| Download: `FileClient.download_file`, `transfer.py` | queue of missing chunks, workers, a lock, expected digest | download_file, worker, request with retry, verify | PartialFile; FileServer over the channel | gather ends at the first exception and leaves siblings running; the source file changes meanwhile | nothing is written while verifying or promoting; every call ends |
| Chunk exchange: `FileServer`, `FileClient._request_*`, `protocol.py` | futures by request id, verify futures by path, send lock, frame being assembled | chunk, verify, error, late frames | data channel | timeouts racing late answers, errors without an id | an answer reaches the request it is for, or nobody |
| Signaling hub: `signal_server.py` | `clients`, `accounts` (peer ids by account), `Client.account` | login, publish, unpublish, list, manifest, connect, signal, disconnect | all clients; registry | every `send` awaits, so all other coroutines run in between, also inside one broadcast | index exact; shares have owners; announcements before what they announce; changes are heard |
| Registry: `registry.py` | share id -> share | publish, remove_peer, get, list | hub | a publisher that vanishes | one share per live publisher |
| Login throttle: `LoginThrottle` | failure times and lock end per address | retry_after, record_failure, reset, `_prune` | hub's login | equal times at the ends of window and lock; pruning for one address touches all | wrong passwords in a row bounded; locks justified and kept |
| Account store: `accounts.py` | users, modification time | reload, verify | hub's login, a file on disk | a file read while it is written | the accounts are those of the file |
| Signaling client: `signaling_client.py` | websocket, receive task | connect, send, receive loop, close | hub, services | a handler that raises ends the loop | messages keep being handled |
| Publisher service | peers, pending futures, share | publish, unpublish, add/drop peer, on message | hub, peers, FileServer | an old connection's close against a new one of the same receiver; unpublish against a peer_request | the live peers are those known |
| Receiver service | session, pending futures, manifests | list_shares, get_manifest, open_share | hub, peers, FileClient | one future per kind, no correlation; an error fails all | an answer resolves the call it is for |
| Peer (aiortc) | connection, channel | offer, answer, candidate, close | services | an end is told by several events, also while one is being handled | a peer that is gone is dropped, once |
| Manifest and selection | none | scan_folder, expand_selection | services, GUI | - | the selection is what the user ticked |
| GUI tabs, AsyncRunner | entries shown, current share, running download | refresh, select, download, cancel | services, across two threads | state read on one thread and changed on the other | what is requested is what was shown |
| Command line | none | list, get, publish | services | - | - |
| ICE path classification, settings, logging, formatting, TLS | none | pure | - | - | - |

`PROJECT.json` lists every component with its status, and under `hazards` every
place where this code is hard to test, with the properties that cover it.

## Modules

| Module | Models | State and actions |
|---|---|---|
| `ResumableDownload` | `chunker.py`, `download_file` in `transfer.py`, what FileServer's answers say | `part tmp state target`: the receiver's files; `ver man`: the publisher's file now and when scanned; `conn`: the open channel; `pc call fin` per call: where download_file stands, its PartialFile and queue, its `finish` thread; `wpc job` per worker. One action per step between two awaits or two system calls: `Take FetchChunk FetchFails Lock OpenPart WriteChunk SaveState ReplaceState ThreadRaises` for a worker and its thread, `DownloadFile Gathered Verify VerifyFails ComputeSha256` for the call, `ResizePart Promote RemoveState FinishRaises` for `finish`, and `Cancel Crash ChangeFile Republish`. |
| `VerifiedDownload` | the promise of `download_file` | `file`, `target`, where each call `standing`s and the content of the digest it was given (`agreed`). `Begin`, `LearnDigest`, `Replace` of the target in one step, `Return` only after that, `GiveUp` of any calls together, `Edit`. `ResumableDownload` implements it (`VerifiedSpec`): `Replace` is `Promote`, `Return` is `RemoveState`, everything about chunks, the part file and the state file stutters. |
| `ChunkFetch` | the promise of `_request_chunk_retry` and `_request_verify_retry` | `file`, what each caller asks for, the contents the file has had since, what was returned. `Ask`, `Return` of one of those contents, `Fail` of any callers together, `Edit`. |
| `ChunkExchange` | `FileServer`, the requests of `FileClient`, both channels; implements `ChunkFetch` | `call`: each caller's attempt, id and future; `rid`; `tasks`: requests on their way and the server's tasks; `cache`: its digest; `ctrl data`: messages coming back. `Begin Request RequestRaises Return Raise TimeOut` for a caller, `ReadChunk LookUpDigest HashFile Refuse SendFrame SendDigest` for a task, `OnData OnCtrl` for what arrives, `Cancel Lose Edit`. |
| `SignalHub` | `signal_server.py` but the throttle, `registry.py` | `clients account accounts shares minted`: the hub's tables; `link`: the sockets; `todo`: what each coroutine has still to send; `inbox`: what each client has come to know. `Connect`, `Login`, `Publish`, `Unpublish`, `ConnectTo`, `Signal`, `AnswerOnly`, `Drop`, `Cleanup` change the tables in one step, as the code does between two awaits; `Send` delivers one message to one client, so anything may happen between two. |
| `LoginThrottle` | `LoginThrottle` of `signal_server.py` | `now failures locked`, and as history (`guesses`) all wrong passwords since the last success, each with whether it locked; `Refused Succeed Fail Tick` |
| `AccountStore` | `accounts.py` | `disk`: the file and its modification time; `users mtime`: the copy in memory; `reading`: between stat and read; operators for the three outcomes of `reload` and for a write by somebody else |
| `HubLogin` | the login branch of `_handle`, composed of these two; implements `LoginThrottle` | `login`: the one that waits for the file. `TurnAway`, `LoginAtOnce`, `LoginReloads` and `LoginRead`, `Edit`, `TimePasses` |
| `PeerSessions` | `publisher/service.py`, the receive loop of `signaling_client.py`, `peer.py`, the connecting side of `receiver/service.py`, the list in `publish_tab.py` | `stage own tries gone`: the receivers' sides; `inbox`: the hub's messages; `listening busy`: the receive loop; `peer table`: Peer objects and which are known; `drops leaving`: tasks of `_drop_peer`; `stop`: a running unpublish or close; `news shown`: events and the list. `OpenShare Offer Quit`; `AddPeer TakeOffer Answer`; `Open OnClose DropPeer CloseReturns Left`; `Publish Unpublish Close CloseNext Stopped Shut Watch`. |
| `ReceiverCalls` | the futures of `receiver/service.py` | `call`: each coroutine, `holder`: whose future is registered for each kind of answer, `line`: requests the hub has still to answer, `connected`: whether a Peer of an earlier download is there, which the next one closes and awaits first. Operators that `ReceiverWindow` makes actions of. |
| `ReceiverWindow` | `receive_tab.py` and `status_tab.py` over `ReceiverCalls`, on the two threads of `async_runner.py` | `current`: the share set by a coroutine; `posts`: closures on their way to the Qt thread; `listed shown openBtn downloadBtn cancelBtn download busy`: the widgets. User: `Refresh Poll OpenSelected StartDownload CancelDownload`; coroutines: `Start Listed Opened Failed Finished Cancelled`; hub and channels: `Hub Connect`; closures: `OnShares OnPolled OnManifest OnOpenFailed OnDownloadFinished`. |
| `MCResumableDownload`, `MCSignalHub`, `MCHubLogin`, `MCPeerSessions` | - | sizes, budgets of faults and symmetry for TLC; the other modules are checked as they are |
| `ResumableDownloadProofs`, `ResumeSafeProofs`, `ChunkExchangeProofs`, `SignalHubProofs`, `LoginThrottleProofs`, `HubLoginProofs`, `PeerSessionsProofs`, `ReceiverWindowProofs` | - | the theorems, see below |

They fit together where one assumes what another shows.  `FetchChunk` and
`FetchFails` of the download are a call of `ChunkFetch` that returns or fails,
which is what `ChunkExchange` implements.  `PeerSessions` takes from `SignalHub`
that requests come before the signals they announce (`ReadyAfterRequest`,
`NoUnannouncedSignal`).  A transfer in `ReceiverWindow` ends because a download
does (`AttemptsEnd`).

### What the models abstract

*Download.*  A file is a function from chunk indices to cells; a cell is one
version's chunk, zeros (`Hole`), a torn write, or past the end.  Two versions
differ in every chunk, and a short read inside a chunk is not told from none.
A crash is the death of the process: what was written to a file stays (loss of
power, and with it a missing fsync, is not modelled); a chunk being written may be
torn.  The temporary state file is written in one step, because it is
only read after it was complete and replaced the state.  Hashing the part file is one step:
where calls do not overlap nothing can write meanwhile (`VerifiedUndisturbed`).
Each attempt opens a new connection, as `receive_tab.py` and `cli/main.py` do, so the
publisher's cache of digests never spans two attempts.  `Overlap` tells the GUI
(a new download may start while threads of a cancelled one still run) from the
command line (the process ends with its download).

*Exchange.*  One file is downloaded over one connection.  The bytes of a chunk and
a digest are the version they were read from, whole: the channels deliver in order and
without loss until the connection is lost.  A frame may arrive malformed: it fails the
future it names or is dropped.  Requests reach the server in any order, as its tasks run
in any order anyway.  A server's digest may be of an older content than that of now
(its cache is never emptied); that content is one the file had since the call began.  `request_manifest`, which only tests call, is left out.

*Hub.*  Contents of messages are left out, but for the accounts shown as
online and who was announced to whom.  A client's socket breaks silently (`Drop`)
and its coroutine notices when it next receives.  Recipients of a broadcast are
served in any order; the code uses the table's.  `Signal` only goes where
this repository's clients send signals: to an owner `peer_ready` named, or back to a peer that
signaled.

*Login.*  Time is counted in ticks; window and lockout are any natural numbers,
either the longer one, as the settings allow.  Negative settings are left out.
A write may leave the accounts file with any modification time, and with a content that does not
parse (`Torn`), as a file half written.  Hashing a password is a library call that says
whether a credential is in the table.

*Sessions.*  A connection is its state and the events it tells; ICE, DTLS and SCTP are the
library's.  One `on_close` stands for each of two channels and the connection, so up to three may
come.  A Peer that is being closed refuses an offer, as aiortc does.  The hub's messages come in
order, and unpublish, close and publish do not overlap, as the tab disables its buttons.
A receiver that leaves without a Peer does nothing anybody notices.
Traffic accounting is left out.

*Window.*  It starts with the first list of shares: login, shutdown and a websocket that closes
are left out.  Ticks are: the files of a download are among the entries shown, and the model
follows whose entries they are.  The answers of the hub carry the share they are about, because that
is what can be mixed up.  A coroutine always starts: `run_coroutine_threadsafe` queues its first step
before any cancel can be queued, so a cancel reaches it at an await, that of `peer.close` included.

## Runs

| Run | Instance | Shows |
|---|---|---|
| `dl_serial` | 2 chunks, 2 workers, 2 contents of one size; one failed request, cancel, crash, two edits | the target is a whole content (`TargetIsAVersion`), a claimed chunk is on disk (`ResumeSafe`), nobody writes while the file is verified (`VerifiedUndisturbed`), claims are never lost (`KeepsProgress`), calls keep the promise of `VerifiedDownload` (`VerifiedSpec`) |
| `dl_retry` | 2 chunks, a worker, 3 contents of 2, 1 and no chunks; a failed request, a cancel, a crash, two edits; the user tries again | what is promoted is a content the file had, at the size of a manifest (`TargetIsAVersionResized`), and the one whose digest that call was given (`VerifiedSpec`); the download succeeds in the end, unless the files are in one of three states for good (`RetrySucceedsUnlessStuck`) |
| `dl_ends` | 2 overlapping calls of 2 workers, one cancel | every call ends with all its workers and threads (`AttemptsEnd`) |
| `dl_orphan` | one worker, one crash | **violation** of `RetrySucceeds`: a crash between promotion and removal of the state makes every later download fail |
| `dl_shrink` | the file shrinks after the scan | **violation** of `TargetIsAVersion`: the verified file is padded with zeros and promoted |
| `exchange` | 2 callers, 2 chunks and the digest, 2 contents, one retry, no frame sent before the last has left; one edit, refusal, malformed frame, cancel or loss | the exchange implements `ChunkFetch` (`FetchSpec`): a call returns what it asked for, of a content the file had meanwhile; every call ends (`CallsEnd`) |
| `hub` | 2 connections, 2 accounts, 2 share ids, 5 messages, fair | `IndexExact`, `SharesHaveOwners`, `ReadyAfterRequest`, `NoUnannouncedSignal`, `ChangesAreHeard`, `DeadSharesVanish` |
| `hub_ghost` | 2 connections, 3 messages | **violation** of `OnlineMeansConnected`: a login under another name leaves the old account online for good |
| `login` | 2 addresses, 2 attempts, window 2, lockout 3, clock to 5; 2 contents of the accounts file, 2 modification times | no more wrong passwords within a window than the limit, unless a success or a lock falls among them (`GuessesBounded`), a lock has its reason (`LockJustified`) and lasts (`LockHolds`), verdicts follow the file (`VerdictsFollowFile`) |
| `sessions` | 2 receivers, 2 calls of open_share, one unpublish or close, each end told twice | a live connection is known (`LiveIsKnown`), the list is exact when nothing is under way (`ListExact`), once a connection has told its end a task is there to remove it (`ToldWillBeDropped`), nobody is cut without cause (`CutsExplained`), a connection whose other end is gone does not stay (`GoneDoNotStay`) |
| `sessions_deaf` | the same, without fairness | **violation** of `KeepsListening`: the receive loop ends while the hub's connection is up |
| `window` | 2 shares, 4 calls, fair | only replaced calls wait in vain (`WaitsInVainIfReplaced`), downloads are of the share connected to (`RightFiles`), the entries shown are of the current share (`CurrentIsShown`), the buttons and the poll come back (`OpenComesBack`, `DownloadComesBack`, `PollComesBack`) |

Each module's `TypeOK` (`LoginTypeOK`) is checked in its passing run.

**What the properties excuse.**  Eight of them hold of this code only with exceptions,
which they name: it is where the code is weaker than one would wish.

- `RetrySucceedsUnlessStuck`: `Orphaned` (a crash in `finish`), `Outdated` (claims or old bytes that
  outlive an edit, `chunker.py:57` and `58`, or a short answer from a file that was briefly shorter,
  which `write_chunk` counts as received, `chunker.py:78`), `Outgrown` (the manifest is older than the file).
- `VerdictsFollowFile`: a write that leaves the file with the modification time of the last
  reload (`blurred`); until the next write such a content is not noticed.
- `LiveIsKnown`: a Peer added while unpublish or close awaits the others (`late`,
  `publisher/service.py:95`): the table is cleared and nobody closes it.
- `ListExact`: an unpublish that ended with events still to be shown (`clean`, `publish_tab.py:240`).
- `RightFiles`: an answer taken for that to a later call, for the manifest or for peer_ready
  (`crossed`, `receiver/service.py:76`), and a share opened between tick and start
  (`receive_tab.py:365`).
- `CurrentIsShown`: a manifest taken for that of a later request (`crossed`): the window then shows
  the files of one share and downloads from another.  While a manifest is on its way to the Qt
  thread (`receive_tab.py:272`) the property is about the entries that will be shown then.
- `CutsExplained`: an older connection of the same receiver that tells its end after the
  receiver has connected again; `_drop_peer` goes by peer id and closes the newer one (`publisher/service.py:190`).
- `GoneDoNotStay`: a Peer that no offer has reached.  It has no other end yet: if its receiver gives up
  between `peer_ready` and the offer, no event of aiortc ends it, and no hub sends the
  `peer_left` the service handles, so it stays listed until unpublish (`publisher/service.py:150`).

`GuessesBounded` is no exception but a limit of what is promised: the count starts anew with each
success (`signal_server.py:99`), so wrong passwords between right ones are not bounded.

### Bounds

*Download:* two chunks and two workers are the least for which a chunk can be
claimed while another is being written, a lock be contended, and a worker outlive
the failure of its sibling.  One fault of each kind combines them pairwise; a
second edit brings the first content back, so a part file may mix both and still meet a
digest of either, and a file that was briefly shorter meets its old manifest.  `dl_retry`
has one worker instead of two: what two of them can do to the state file is in `dl_serial`.  *Exchange:* two callers and three items make a caller begin anew while
its old answer is on its way; one retry gives two attempts under different ids; one event falls
at every point of them.  `rid` needs no bound of its own: retries bound it.  *Hub:* two connections are enough for every pair of roles
(requester and owner, old and new owner of an account, sender and recipient of a broadcast);
five messages let a publisher log in and publish and another log in, connect and signal.
*Login:* the clock passes two windows, and a lockout and what follows it; two modification times let a
file go back to an older one.  *Sessions:* two tries let one receiver reconnect while its old
connection ends, or two compete; two events of one end are enough for the second to hit
the newer connection.  *Window:* four calls allow an open that is replaced or timed out, another, and
a download with one more call in between.  The theorems below hold without bounds.

Symmetry is declared only in runs without liveness.  `CHECK_DEADLOCK FALSE` stands where a
budget ends the behaviours: of messages (hub), calls (sessions, window) or requests (exchange,
whose queue empties).

### Fairness

`FairSpec` of the download: the event loop and the thread pool run
what is ready, and each request is answered or times out (`transfer.py` puts a
timeout on every wait, and `CallsEnd` shows what follows from it).  Nothing is assumed of cancels, crashes and edits.  `RetrySpec` adds a user who
starts again after every attempt that ended.  `FairSpec` of the exchange: the
client's event loop, one condition per caller; nothing of the publisher or the connection.
`FairSpec` of the hub: a coroutine with
something to send, or with a dead socket, goes on; a send to a
client that stopped reading fails when the websocket's keepalive does.
`FairSpec` of the window: the Qt thread runs what is posted, and some coroutine that can go on does
(waits have timeouts, a transfer ends); nothing of the hub, the publisher or the user.
`FairSpec` of the sessions: while a task of the publisher can go on or a connection has an end to
tell for the first time, something of that happens, as the event loop runs, closing ends and aiortc
notices a lost connection; nothing of the receivers, the user or the window.

## What is proved

All theorems are of the specifications the runs check, for every value of the
constants that the named assumptions admit; `PROJECT.json` lists them.

**The target** (`ResumableDownloadProofs`).  `TypeCorrect`; then, where calls do
not overlap, `Undisturbed`, `TargetVerified` and, if no edit changes the size,
`TargetWhole`.  The invariant is `TargetInv`: at most one call has anything left
(`OneCall`), so the workers are all off from verification to the end of `finish`
(`VerifiedUndisturbed`), so the part file still is what was verified when it is
resized and promoted (`FinishVerified`).  The target alone is not inductive: without
`OneCall` a thread of an older call could write between digest and promotion.

`ImplementsVerified`: without overlap the download implements `VerifiedDownload`.  It is why
`FinishVerified` names the digest of the call itself: that the part file is *some* content the file had
is enough for `TargetVerified`, not for a promise about the call that promotes it.  Lemmas say of each
step where it leaves the call (`Standing`): still, begun, given up, or one step further; `Crash`
and `Cancel` give up calls, but for one whose `finish` thread runs, which goes on.

**Resuming** (`ResumeSafeProofs`).  `ResumeIsSafe` and `ProgressIsKept`, where calls do not
overlap and edits keep the size (`EditsKeepSize`).  `ResumeInv` adds to `TargetInv`:

- `JobsInv`: each chunk of a live call is in one place only - queued, held by
  one worker, or received; a chunk being written is not claimed, which is
  why tearing it does no harm;
- `LockInv`: one worker at most is under the lock, also after a cancel has
  released it under a running thread;
- `ClaimsInv`: state file, temporary file and memory claim, in this order, more and
  more, and all of it is on disk; with no part file all or nothing is claimed (all: after a crash
  between promotion and removal of the state);
- `GatherInv`: while a call gathers, each chunk is claimed, queued or with a worker, so a
  call that verifies has saved them all.

The assumption on sizes is needed: with a manifest of another size, the old state
stays beside the new part file until the first save.

**The exchange** (`ChunkExchangeProofs`).  `ImplementsFetch`: initial states map to initial
states of `ChunkFetch`, and every step to a step of it or to a stutter, where a call asks
from `Begin` until it returns or raises.  `ExchangeInv` says why a late answer does no harm.
`Ids`: what is on its way bears an id given out before.  `Chunks`: what bears the id of a call that waits is of its
chunk, and was read since the call began.  `Digests`: a digest goes by path and not by id, and that is safe because it is asked
for by one call, at the end, and nothing was hashed before.  `Results`: a future that is done
holds what its call asked for.  `Asked`: the content of now is among those a call may return.

**The hub** (`SignalHubProofs`).  `TypeCorrect`; `IndexIsExact` and `SharesAreOwned` from
`TablesInv` (a connection never opened has no account; ids below the
counter); `OwnersAskedFirst` and `SignalsAnnounced` from `AnnouncedInv`.  What it adds is about queues:
a `peer_ready` still to be sent stands behind the `peer_request` of the same pair or that
one has been sent (`QueueInOrder`), and whoever was signaled by a peer may answer it.

*Types.*  `ExchangeTypeCorrect` has bounds in it: no id is larger than callers, items and retries
allow.  `Budget` counts them: requests given out, plus those to come (of calls in progress,
each with its attempts left, and of items still queued), never grow.

**The throttle** (`LoginThrottleProofs`).  `ThrottleTypes`, `GuessesAreBounded`, `LocksAreJustified` and
`LocksHold` rest on `GuessesInv`, which relates the deque and the lock of an address to
all its wrong passwords since the last success.  `Kept`: the deque is the end of that
history, shorter than the limit and without a lock, and what is not in it is out of the window or
followed by a lock.  `InTime`: times only grow.  `Recorded`: a guess locked exactly when that was due.
`LockedFor`: until the lockout is over, the entry in `_locked` is the end of the lock set by the last
guess.  So pruning for others, which may run at any time, never drops a failure or a lock that counts.
Nothing is assumed of window and lockout but that they are natural numbers.

**Logins** (`HubLoginProofs`).  `ImplementsThrottle`: `HubLogin` implements
`LoginThrottle`, so that `LoginLocksHold`, `LoginGuessesBounded` and `LoginLocksJustified` follow
from the theorems about it.  `LoginTypeCorrect`
and `VerdictsByFile` rest on `StoreInv`: if the file has the time of the last reload, and no
write made that time ambiguous, the accounts in memory are those of the file.

**Sessions** (`PeerSessionsProofs`).  `LiveConnectionsKnown` and `CutsAreExplained` from
`SessionsInv`: an unpublish or close that runs has yet to close every connection that was
there before it (`AllStopped`), the connection in the table is the last of its receiver
(`LatestKnown`), every task of `_drop_peer` comes from an event (`DropsTold`), and only
the end of a connection is told (`ToldWhenGone`).  `LatestKnown` is what makes the victim of a late
event a newer connection of the same receiver, and nobody else's.

`SessionsTypeCorrect`, `ListIsExact` and `ToldAreDropped` from `SessionsAll`.  The list is not exact
at any moment, so the invariant counts (`ListLags`): what is shown of a receiver, plus the
additions and minus the removals on their way, is one if it is in the table, plus one for each task
of `_drop_peer` that has taken it out and not yet told so; and no prefix of the events makes it
negative, so no removal finds nothing to remove.  `EndsTold`: a connection in the table that has
told its end has a task of `_drop_peer` waiting.

**The window** (`ReceiverWindowProofs`).  `WindowTypeCorrect`, `VainWaitsReplaced`,
`FilesAreRight` and `CurrentShown` from `WindowInv`.  Of the calls: they start in the order they were
submitted (`InOrder`), no request in line is later than the future registered for its kind
(`Holders`, `Lines`), a call that waits has its request in line or was replaced
(`Askers`), and the answer taken by a call that is not crossed is its own (`Answers`).  Of the
window: the last entries posted are of the current share (`Shows`).

Strengthenings were checked by TLC on the instances above where they are finite.

Every invariant and every action property of a passing run is a theorem, and so are the three
refinements.

**Only model-checked:** liveness under fairness (`RetrySucceedsUnlessStuck`, `AttemptsEnd`, `CallsEnd`,
`ChangesAreHeard`, `DeadSharesVanish`, `OpenComesBack`, `DownloadComesBack`, `PollComesBack`, `GoneDoNotStay`), which is
out of the prover's reach; and that overlapping calls end.

## What the models found

1. *Orphaned state* (`dl_orphan`, `chunker.py:93`): `finish` replaces the target,
   then removes the state.  After a crash in between, the state claims every
   chunk, nothing is requested, and the absent part file never has the digest.
2. *Padding* (`dl_shrink`, `chunker.py:89`): the size of the manifest is forced on the
   part file after its digest was compared.
3. *Ghost account* (`hub_ghost`, `signal_server.py:241`): the emptied set stays as a key.
4. *Deaf publisher* (`sessions_deaf`, `signaling_client.py:76`): an offer handled while that
   connection is being closed raises out of the receive loop, which takes it for the end of the
   websocket.  The hub still lists the publisher's next share, and nobody can connect to it.

Met in the models too, with no run of their own: with overlapping
calls and a slow disk, a thread of a cancelled download can put back an older
state (`KeepsProgress` fails with `Overlap = TRUE`, against the message shown at `receive_tab.py:360`) or
empty the part file (`ResumeSafe` fails, `chunker.py:73`); and every exception listed under
"What the properties excuse" is needed: without it TLC finds its property violated in the same run.

## Plan

Done: the download, the exchange and its abstract specification, the hub, logins, sessions, the
receiver's window; theorems about each, for every safety property the runs check.  What is left, in this order:

1. The window's beginning and end: login, `shutdown` and `_drain` of the runner, a
   websocket that closes, as more operations of `ReceiverWindow`.
2. Ticks and `expand_selection`, against a reference definition of what is selected.
3. Several files of one job over one connection in `ChunkExchange`, with the server's cache of digests
   by path.
4. Theorems: resume safety for edits that change the size, in the form that does hold; an abstract
   directory of shares that the hub implements.

## Not modelled

- ICE, DTLS and SCTP, password hashing: the libraries'.
- The byte layout of frames, TLS options, settings, logging, formatting, widgets, deployment
  scripts, the health endpoint: pure I/O, or no state of their own.
- `scan_folder`: reading a folder.  `expand_selection`, ticks: sequential code a unit test
  reaches.
- The classification of ICE paths and traffic accounting: labels shown to the
  user, corrected by the next classification.
- Loss of power.  Several
  files in one download job run one after the other through the same `download_file`.
- Two broadcasts overtaking each other on one socket (`signal_server.py:141`): it depends on how the websocket
  library suspends writers.
