---------------------------- MODULE ReceiverWindow ----------------------------
(***************************************************************************)
(* The receiver's window, from the first list of shares on: the tabs of    *)
(* src/pfs/gui/receive_tab.py and status_tab.py on the Qt thread, their    *)
(* coroutines on the event loop thread (async_runner.py), and the calls    *)
(* these make of one ReceiverService (ReceiverCalls).                      *)
(*                                                                         *)
(* The Qt thread submits coroutines and cancels them; coroutines post      *)
(* closures, which the Qt thread runs in order.                            *)
(***************************************************************************)
EXTENDS ReceiverCalls

VARIABLES
    current,      \* _current_share, set on the event loop thread
    posts,        \* closures posted and not yet run
    listed,       \* the list of shares is not empty
    shown,        \* the entries in the tree and whose they are, or Nothing
    openBtn, downloadBtn, cancelBtn,  \* which buttons are enabled
    download,     \* the call behind _download_future, or Nothing
    busy          \* StatusTab._busy

window == <<listed, shown, openBtn, downloadBtn, cancelBtn, download, busy>>
vars   == <<calls, current, posts, window>>

Init ==
    /\ CallsInit
    /\ current = Nothing /\ posts = <<>>
    /\ listed = TRUE /\ shown = Nothing
    /\ openBtn = TRUE /\ downloadBtn = FALSE /\ cancelBtn = FALSE
    /\ download = Nothing /\ busy = FALSE

-----------------------------------------------------------------------------
(* The Qt thread: what the user and the timer do. *)

Refresh ==
    /\ Submit("refresh", Nothing, Nothing)
    /\ UNCHANGED <<current, posts, window>>

\* The status tab polls when its last poll has come back.
Poll ==
    /\ ~ busy
    /\ Submit("poll", Nothing, Nothing)
    /\ busy' = TRUE
    /\ UNCHANGED <<current, posts, listed, shown, openBtn, downloadBtn, cancelBtn, download>>

OpenSelected(s) ==
    /\ openBtn /\ listed
    /\ Submit("open", s, Nothing)
    /\ openBtn' = FALSE
    /\ UNCHANGED <<current, posts, listed, shown, downloadBtn, cancelBtn, download, busy>>

\* A concurrent future is done as soon as it is cancelled.
InProgress ==
    /\ download # Nothing
    /\ call[download].st # "ended" /\ ~ call[download].cancelled

\* The files ticked are among the entries shown; the share is looked up later.
StartDownload ==
    /\ downloadBtn /\ ~ InProgress
    /\ current # Nothing /\ shown # Nothing
    /\ Submit("download", Nothing, shown)
    /\ download' = Len(call')
    /\ downloadBtn' = FALSE /\ cancelBtn' = TRUE
    /\ UNCHANGED <<current, posts, listed, shown, openBtn, busy>>

CancelDownload ==
    /\ cancelBtn /\ InProgress
    /\ RequestCancel(download)
    /\ UNCHANGED <<current, posts, window>>

-----------------------------------------------------------------------------
(* The event loop thread: _do_refresh of both tabs, _do_open, _download. *)

Post(what) == posts' = Append(posts, what)

\* A download connects to the share that is current when it starts.
ShareOf(i) ==
    IF call[i].op = "download" /\ call[i].st = "submitted" THEN current ELSE call[i].share

\* Mutant: the share is current as soon as one tries to open it.
StartCurrent(i) ==
    /\ Close(i, ShareOf(i)) \/ Ask(i, ShareOf(i))
    /\ current' = IF call[i].op = "open" THEN call[i].share ELSE current
    /\ UNCHANGED <<posts, window>>

Start(i) ==
    /\ Close(i, ShareOf(i)) \/ Ask(i, ShareOf(i))
    /\ UNCHANGED <<current, posts, window>>

Hub == (Answered \/ Refused) /\ UNCHANGED <<current, posts, window>>

\* What download_file's steps come to; they are those of ResumableDownload.
Connect(i) == (Offer(i) \/ OnOpen(i) \/ Run(i)) /\ UNCHANGED <<current, posts, window>>

Listed(i) ==
    /\ call[i].op \in {"refresh", "poll"} /\ Done(i)
    /\ End(i)
    /\ \E nonempty \in BOOLEAN :
         Post(IF call[i].op = "poll" THEN [what |-> "on_data"]
              ELSE [what |-> "on_shares", nonempty |-> nonempty])
    /\ UNCHANGED <<current, window>>

\* The share is current at once, the entries are shown when the Qt thread gets there.
Opened(i) ==
    /\ call[i].op = "open" /\ Done(i)
    /\ End(i)
    /\ current' = call[i].share
    /\ Post([what |-> "on_manifest",
             from |-> [asked |-> call[i].share, holds |-> call[i].got, crossed |-> call[i].crossed]])
    /\ UNCHANGED window

\* Mutants: a poll, opening a share, or a download that fails is only logged.
SilentPoll(op) ==
    CASE op = "open" -> <<[what |-> "on_open_failed"]>>
      [] op = "download" -> <<[what |-> "on_download_finished"]>>
      [] OTHER -> <<>>

SilentOpen(op) ==
    CASE op = "poll" -> <<[what |-> "on_error"]>>
      [] op = "download" -> <<[what |-> "on_download_finished"]>>
      [] OTHER -> <<>>

SilentDownload(op) ==
    CASE op = "poll" -> <<[what |-> "on_error"]>>
      [] op = "open" -> <<[what |-> "on_open_failed"]>>
      [] OTHER -> <<>>

\* What the coroutine of an operation that fails posts; a refresh only logs.
Failure(op) ==
    CASE op = "poll" -> <<[what |-> "on_error"]>>
      [] op = "open" -> <<[what |-> "on_open_failed"]>>
      [] op = "download" -> <<[what |-> "on_download_finished"]>>
      [] OTHER -> <<>>

Failed(i) ==
    /\ Raises(i)
    /\ End(i)
    /\ posts' = posts \o Failure(call[i].op)
    /\ UNCHANGED <<current, window>>

\* The transfer is over, well or not.
Finished(i) ==
    /\ call[i].st = "running"
    /\ End(i)
    /\ Post([what |-> "on_download_finished"])
    /\ UNCHANGED <<current, window>>

\* The task is cancelled at an await, never before it started: submitting it queues its
\* first step, and the cancel is queued behind that.
Cancelled(i) ==
    /\ call[i].cancelled /\ call[i].st # "submitted"
    /\ End(i)
    /\ posts' = posts \o Failure("download")
    /\ UNCHANGED <<current, window>>

-----------------------------------------------------------------------------
(* The Qt thread runs a closure. *)

Handed(what) == posts # <<>> /\ Head(posts).what = what /\ posts' = Tail(posts)

OnShares ==
    /\ Handed("on_shares")
    /\ listed' = Head(posts).nonempty /\ openBtn' = Head(posts).nonempty
    /\ UNCHANGED <<calls, current, shown, downloadBtn, cancelBtn, download, busy>>

OnPolled ==
    /\ Handed("on_data") \/ Handed("on_error")
    /\ busy' = FALSE
    /\ UNCHANGED <<calls, current, listed, shown, openBtn, downloadBtn, cancelBtn, download>>

OnManifest ==
    /\ Handed("on_manifest")
    /\ shown' = Head(posts).from
    /\ downloadBtn' = TRUE /\ openBtn' = TRUE
    /\ UNCHANGED <<calls, current, listed, cancelBtn, download, busy>>

OnOpenFailed ==
    /\ Handed("on_open_failed")
    /\ openBtn' = TRUE
    /\ UNCHANGED <<calls, current, listed, shown, downloadBtn, cancelBtn, download, busy>>

OnDownloadFinished ==
    /\ Handed("on_download_finished")
    /\ downloadBtn' = TRUE /\ cancelBtn' = FALSE
    /\ UNCHANGED <<calls, current, listed, shown, openBtn, download, busy>>

-----------------------------------------------------------------------------
User == Refresh \/ Poll \/ (\E s \in Share : OpenSelected(s)) \/ StartDownload \/ CancelDownload

Qt == OnShares \/ OnPolled \/ OnManifest \/ OnOpenFailed \/ OnDownloadFinished

Coroutine(i) ==
    \/ Start(i) \/ Listed(i) \/ Opened(i) \/ Failed(i) \/ Finished(i) \/ Cancelled(i)

Next ==
    \/ User \/ Qt \/ Hub
    \/ \E i \in Made : Coroutine(i) \/ Connect(i)

Spec == Init /\ [][Next]_vars

\* Both threads run, waits time out, and a transfer ends (ResumableDownload).
\* Nothing is assumed of the hub, the publisher or the user.
FairSpec ==
    /\ Spec
    /\ WF_vars(Qt)
    /\ WF_vars(\E i \in Made : Coroutine(i))

-----------------------------------------------------------------------------
(* Properties. *)

TypeOK ==
    /\ CallsTypeOK
    /\ current \in {Nothing} \cup Share
    /\ listed \in BOOLEAN /\ busy \in BOOLEAN
    /\ openBtn \in BOOLEAN /\ downloadBtn \in BOOLEAN /\ cancelBtn \in BOOLEAN
    /\ shown \in {Nothing} \cup [asked : Share, holds : Share, crossed : BOOLEAN]
    /\ download \in {Nothing} \cup Made

\* A download connects to the publisher of the share its files are of.  It can only be
\* otherwise if an answer was taken for that to a later call, because the earlier one
\* had timed out or been replaced (crossed), or if another share was opened between
\* the tick and the start.
RightFiles ==
    \A i \in Made :
        call[i].st \in {"offered", "running"} /\ call[i].got # call[i].from.holds =>
            call[i].crossed \/ call[i].from.crossed \/ call[i].share # call[i].from.asked

\* Entries of the share the next download goes to.  They can only be of another one if an
\* answer due to an earlier call was taken for them (crossed).
OfCurrent(entries) ==
    IF current = Nothing THEN entries = Nothing
    ELSE /\ entries # Nothing
         /\ entries.holds = current \/ (entries.crossed /\ entries.asked = current)

LastManifest(n) ==
    /\ posts[n].what = "on_manifest"
    /\ \A m \in n + 1 .. Len(posts) : posts[m].what # "on_manifest"

\* The entries shown are of the share the next download goes to - or, while a manifest is
\* on its way from one thread to the other, the entries that will then be shown are.
CurrentIsShown ==
    IF \A n \in 1 .. Len(posts) : posts[n].what # "on_manifest"
    THEN OfCurrent(shown)
    ELSE \A n \in 1 .. Len(posts) : LastManifest(n) => OfCurrent(posts[n].from)

\* However calls fail, time out or are refused, one can open a share again.
OpenComesBack == []<>(openBtn \/ ~ listed)

\* However a download fails, times out or is cancelled, at whatever point, one can start
\* another.
DownloadComesBack == []<>(downloadBtn \/ shown = Nothing)

\* The status tab does not stop polling.
PollComesBack == []<>~busy
=============================================================================
