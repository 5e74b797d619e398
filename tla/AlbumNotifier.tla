----------------------------- MODULE AlbumNotifier -----------------------------
(***************************************************************************)
(* The announcement of new photo albums (services/photos/album_notifier):  *)
(* after every tick of the synchronisation a replica takes the existing    *)
(* albums as a baseline once, registers the new ones, waits until they     *)
(* stop growing, claims them under a lease and queues their push.  A step  *)
(* is one statement, one transaction or one call of the notification       *)
(* service.                                                                *)
(***************************************************************************)
EXTENDS Naturals

CONSTANTS
    Albums, Notifiers,
    MaxPhotoCount,      \* bound: photos of an album
    MaxAlbumChanges,    \* bound: commits of the synchronisation
    MaxAlbumTrouble,    \* bound: pushes refused, statements and processes that fail
    MaxAnnounceAttempts

\* An album may hold a photo.
ASSUME AlbumsAssumption ==
    /\ MaxPhotoCount \in Nat \ {0}
    /\ {MaxAlbumChanges, MaxAlbumTrouble, MaxAnnounceAttempts} \subseteq Nat

VARIABLES
    album,         \* photo_albums, as the synchronisation left them
    fullSync,      \* what photo_sync_state says of the full runs
    baselined,     \* photo_notify_state.baselined_at is set
    notice,        \* photo_album_notifications
    albumPush,     \* pushes stored, by dedupe key; counted
    notifier,      \* calls of AlbumNotifier.Run under way
    firstAlbums,   \* history: albums of the first full sync, shown ever since
    albumChanges, albumTrouble

albumVars == << album, fullSync, firstAlbums, albumChanges >>
noticeVars == << baselined, notice, albumPush, notifier, albumTrouble >>

-----------------------------------------------------------------------------
(* State *)

\* shown: published and not deleted; nested: it has a parent album.
AlbumRow == [count : 0 .. MaxPhotoCount, shown : BOOLEAN, nested : BOOLEAN]

\* settled: count_changed_at is older than the settle delay; due: retry_at has passed.
Notice == [status : {"none", "baseline", "pending", "sending", "sent", "failed"},
           count : 0 .. MaxPhotoCount, settled : BOOLEAN, attempts : 0 .. MaxAnnounceAttempts,
           due : BOOLEAN, lease : {"none", "running", "over"}]
NoNotice == [status |-> "none", count |-> 0, settled |-> FALSE, attempts |-> 0, due |-> TRUE,
             lease |-> "none"]

Notifier == [pc : {"idle", "register", "growth", "close", "claim", "announce", "queued", "refused"},
             batch : SUBSET Albums, at : SUBSET Albums]
NoNotifier == [pc |-> "idle", batch |-> {}, at |-> {}]

AlbumsTypeOK ==
    /\ album \in [Albums -> AlbumRow]
    /\ fullSync \in {"never", "first", "done", "again"}
    /\ baselined \in BOOLEAN
    /\ notice \in [Albums -> Notice]
    /\ albumPush \in [Albums -> 0 .. 2]
    /\ notifier \in [Notifiers -> Notifier]
    /\ firstAlbums \subseteq Albums
    /\ albumChanges \in 0 .. MaxAlbumChanges
    /\ albumTrouble \in 0 .. MaxAlbumTrouble

AlbumsInit ==
    /\ album = [a \in Albums |-> [count |-> 0, shown |-> TRUE, nested |-> FALSE]]
    /\ fullSync = "never"
    /\ baselined = FALSE
    /\ notice = [a \in Albums |-> NoNotice]
    /\ albumPush = [a \in Albums |-> 0]
    /\ notifier = [n \in Notifiers |-> NoNotifier]
    /\ firstAlbums = {}
    /\ albumChanges = 0
    /\ albumTrouble = 0

available(a) == album[a].shown /\ album[a].count > 0
announceable(a) == available(a) /\ ~album[a].nested

-----------------------------------------------------------------------------
(* What the synchronisation commits *)

CommitsAlbums(rows) ==
    /\ albumChanges < MaxAlbumChanges /\ albumChanges' = albumChanges + 1
    /\ album' = rows
    /\ firstAlbums' = {a \in firstAlbums : baselined \/ (rows[a].shown /\ rows[a].count > 0)}
    /\ UNCHANGED noticeVars

\* The counts are computed when a run ends; the first full run may stop half-way.
FullSyncBegins ==
    /\ fullSync \in {"never", "done"}
    /\ fullSync' = IF fullSync = "never" THEN "first" ELSE "again"
    /\ UNCHANGED << album, firstAlbums, albumChanges, noticeVars >>

FirstSyncEnds(S, nested) ==
    /\ fullSync = "first"
    /\ fullSync' = "done"
    /\ album' = [a \in Albums |-> [count |-> IF a \in S THEN 1 ELSE 0, shown |-> TRUE,
                                   nested |-> a \in nested]]
    /\ firstAlbums' = S
    /\ UNCHANGED << albumChanges, noticeVars >>

FullSyncEnds ==
    /\ fullSync = "again"
    /\ fullSync' = "done"
    /\ UNCHANGED << album, firstAlbums, albumChanges, noticeVars >>

\* Photos come and go; the folder is renamed, moved, hidden or published.
AlbumChanges(a, row) ==
    /\ fullSync \in {"done", "again"} /\ row # album[a]
    /\ CommitsAlbums([album EXCEPT ![a] = row])
    /\ UNCHANGED fullSync

-----------------------------------------------------------------------------
(* AlbumNotifier.Run *)

NotifierGoes(n, s) == notifier' = [notifier EXCEPT ![n] = s]

\* Faulty variant: the baseline leaves nested albums out.
BaselineTopLevel(a) == announceable(a) /\ notice[a].status = "none"

IntoBaseline(a) == available(a) /\ notice[a].status = "none"

synced == fullSync = "done"

\* ensureBaseline: one transaction that holds the row of photo_notify_state.
ensureBaseline(n) ==
    /\ notifier[n].pc = "idle"
    /\ baselined \/ synced
    /\ baselined' = TRUE
    /\ notice' = IF baselined THEN notice
                 ELSE [a \in Albums |-> IF IntoBaseline(a)
                         THEN [NoNotice EXCEPT !.status = "baseline", !.count = album[a].count]
                         ELSE notice[a]]
    /\ NotifierGoes(n, [NoNotifier EXCEPT !.pc = "register"])
    /\ UNCHANGED << albumVars, albumPush, albumTrouble >>

\* observe: new albums are registered, those that grow settle again, and a claim
\* whose owner vanished on the last attempt is closed.
registerNew(n) ==
    /\ notifier[n].pc = "register"
    /\ notice' = [a \in Albums |->
           IF announceable(a) /\ notice[a].status = "none"
           THEN [NoNotice EXCEPT !.status = "pending", !.count = album[a].count] ELSE notice[a]]
    /\ NotifierGoes(n, [NoNotifier EXCEPT !.pc = "growth"])
    /\ UNCHANGED << albumVars, baselined, albumPush, albumTrouble >>

trackGrowth(n) ==
    /\ notifier[n].pc = "growth"
    /\ notice' = [a \in Albums |->
           IF notice[a].status = "pending" /\ notice[a].count # album[a].count
           THEN [notice[a] EXCEPT !.count = album[a].count, !.settled = FALSE] ELSE notice[a]]
    /\ NotifierGoes(n, [NoNotifier EXCEPT !.pc = "close"])
    /\ UNCHANGED << albumVars, baselined, albumPush, albumTrouble >>

\* Faulty variant: a claim that expired on the last attempt stays open.
LeaveExpired(n) ==
    /\ notifier[n].pc = "close"
    /\ NotifierGoes(n, [NoNotifier EXCEPT !.pc = "claim"])
    /\ UNCHANGED << albumVars, baselined, notice, albumPush, albumTrouble >>

closeExpired(n) ==
    /\ notifier[n].pc = "close"
    /\ notice' = [a \in Albums |->
           IF notice[a].status = "sending" /\ notice[a].lease = "over"
              /\ notice[a].attempts >= MaxAnnounceAttempts
           THEN [notice[a] EXCEPT !.status = "failed"] ELSE notice[a]]
    /\ NotifierGoes(n, [NoNotifier EXCEPT !.pc = "claim"])
    /\ UNCHANGED << albumVars, baselined, albumPush, albumTrouble >>

Ready(a) ==
    /\ announceable(a) /\ notice[a].attempts < MaxAnnounceAttempts
    /\ \/ notice[a].status = "pending" /\ notice[a].settled /\ notice[a].due
       \/ notice[a].status = "sending" /\ notice[a].lease = "over"

RestOfBatch(batch) ==
    IF batch = {} THEN NoNotifier ELSE [pc |-> "announce", batch |-> batch, at |-> {}]

claimAlbums(n) ==
    LET S == {a \in Albums : Ready(a)} IN
    /\ notifier[n].pc = "claim"
    /\ notice' = [a \in Albums |-> IF a \in S
           THEN [notice[a] EXCEPT !.status = "sending", !.attempts = @ + 1, !.lease = "running"]
           ELSE notice[a]]
    /\ NotifierGoes(n, RestOfBatch(S))
    /\ UNCHANGED << albumVars, baselined, albumPush, albumTrouble >>

\* Faulty variant: the push has no key that names the album.
QueueAgain(a) == albumPush' = [albumPush EXCEPT ![a] = IF @ < 2 THEN @ + 1 ELSE @]

\* queuePhotoAlbum: stored unless the push of the album is.
queuePhotoAlbum(a) == albumPush' = [albumPush EXCEPT ![a] = 1]

announce(n, a) ==
    /\ notifier[n].pc = "announce" /\ a \in notifier[n].batch
    /\ queuePhotoAlbum(a)
    /\ NotifierGoes(n, [notifier[n] EXCEPT !.pc = "queued", !.batch = @ \ {a}, !.at = {a}])
    /\ UNCHANGED << albumVars, baselined, notice, albumTrouble >>

\* The service returns an error or panics; what it inserted may be committed.
announceRefused(n, a) ==
    /\ notifier[n].pc = "announce" /\ a \in notifier[n].batch
    /\ albumTrouble < MaxAlbumTrouble /\ albumTrouble' = albumTrouble + 1
    /\ queuePhotoAlbum(a) \/ UNCHANGED albumPush
    /\ NotifierGoes(n, [notifier[n] EXCEPT !.pc = "refused", !.batch = @ \ {a}, !.at = {a}])
    /\ UNCHANGED << albumVars, baselined, notice >>

\* Faulty variant: a refused announcement is recorded like a queued one.
RefusedIsFinal(m) == [m EXCEPT !.status = "sent", !.lease = "none"]

AfterRefusal(m) ==
    [m EXCEPT !.status = IF m.attempts >= MaxAnnounceAttempts THEN "failed" ELSE "pending",
              !.due = FALSE, !.lease = "none"]

\* The outcome is recorded while the row is being sent, whoever claimed it last.
recordOutcome(n) ==
    /\ notifier[n].pc \in {"queued", "refused"}
    /\ notice' = [a \in Albums |->
           IF a \notin notifier[n].at \/ notice[a].status # "sending" THEN notice[a]
           ELSE IF notifier[n].pc = "queued" THEN [notice[a] EXCEPT !.status = "sent", !.lease = "none"]
           ELSE AfterRefusal(notice[a])]
    /\ NotifierGoes(n, RestOfBatch(notifier[n].batch))
    /\ UNCHANGED << albumVars, baselined, albumPush, albumTrouble >>

\* The process dies, a statement fails and the call returns, or an outcome is lost.
notifierStops(n) ==
    /\ notifier[n].pc # "idle" /\ albumTrouble < MaxAlbumTrouble
    /\ albumTrouble' = albumTrouble + 1
    /\ \/ NotifierGoes(n, NoNotifier)
       \/ notifier[n].pc \in {"queued", "refused"} /\ NotifierGoes(n, RestOfBatch(notifier[n].batch))
    /\ UNCHANGED << albumVars, baselined, notice, albumPush >>

AlbumClock(a) ==
    /\ \/ notice[a].status = "pending" /\ ~notice[a].settled
          /\ notice' = [notice EXCEPT ![a].settled = TRUE]
       \/ ~notice[a].due /\ notice' = [notice EXCEPT ![a].due = TRUE]
       \/ notice[a].lease = "running" /\ notice' = [notice EXCEPT ![a].lease = "over"]
    /\ UNCHANGED << albumVars, baselined, albumPush, notifier, albumTrouble >>

-----------------------------------------------------------------------------
(* Specification *)

NotifierStep(n) ==
    \/ ensureBaseline(n) \/ registerNew(n) \/ trackGrowth(n) \/ closeExpired(n)
    \/ claimAlbums(n) \/ recordOutcome(n)
    \/ \E a \in Albums : announce(n, a)

AlbumsNext ==
    \/ FullSyncBegins \/ FullSyncEnds
    \/ \E S, nested \in SUBSET Albums : FirstSyncEnds(S, nested)
    \/ \E a \in Albums, row \in AlbumRow : AlbumChanges(a, row)
    \/ \E n \in Notifiers :
        \/ NotifierStep(n) \/ notifierStops(n)
        \/ \E a \in Albums : announceRefused(n, a)
    \/ \E a \in Albums : AlbumClock(a)

AlbumsSpec == AlbumsInit /\ [][AlbumsNext]_<<albumVars, noticeVars>>

-----------------------------------------------------------------------------
(* What must hold *)

\* Indexing the Drive for the first time announces nothing: whatever stops half-way
\* and whichever replica comes first, an album of the first full sync that was
\* shown until the baseline is never pushed (album_notifier.go:102).
FirstAlbumsStayQuiet == \A a \in firstAlbums : albumPush[a] = 0

\* A restart, a retry or a second instance can neither lose nor repeat an
\* announcement (album_notifier.go:38): a push is stored once, and a row says sent
\* only when it was.
AnnouncedOnce ==
    \A a \in Albums :
        /\ albumPush[a] <= 1
        /\ notice[a].status = "sent" => albumPush[a] = 1

\* What the rows say, seen from outside.
StandingOf == [none |-> "unknown", baseline |-> "set_aside", pending |-> "waiting",
               sending |-> "waiting", sent |-> "sent", failed |-> "given_up"]
AlbumBox == INSTANCE Outbox WITH
                Items <- Albums, told <- albumPush,
                standing <- [a \in Albums |-> StandingOf[notice[a].status]]

\* The notifier keeps the promise of Outbox: an album is announced once, recorded only when
\* it was, never announced once it is part of the baseline, and no late outcome revises an
\* ending (recordOutcome writes only while the row is being sent; album_notifier.go:38).
AlbumsKeepTheOutbox == AlbumBox!OutboxSpec

\* An album that can be announced ends announced, given up or part of the baseline,
\* also when whoever claimed it vanished.
NoticeEnds(a) ==
    baselined /\ announceable(a) => notice[a].status \in {"baseline", "sent", "failed"}
EveryAlbumIsSettled == \A a \in Albums : []<>NoticeEnds(a)

=============================================================================
