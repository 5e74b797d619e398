---------------------------- MODULE ServicesProofs ----------------------------
(* Photo reports, album announcements and the menu, for all senders, replicas, checks and rows. *)
EXTENDS MCServices, FiniteSetTheorems, WellFoundedInduction, TLAPS

-----------------------------------------------------------------------------
(* Album announcements *)

NoticeRow == [status : {"none", "baseline", "pending", "sending", "sent", "failed"},
              count : 0 .. MaxPhotoCount, settled : BOOLEAN, attempts : Nat,
              due : BOOLEAN, lease : {"none", "running", "over"}]

AlbumsTyped ==
    /\ album \in [Albums -> AlbumRow]
    /\ fullSync \in {"never", "first", "done", "again"}
    /\ baselined \in BOOLEAN
    /\ notice \in [Albums -> NoticeRow]
    /\ albumPush \in [Albums -> 0 .. 1]
    /\ notifier \in [Notifiers -> Notifier]
    /\ firstAlbums \subseteq Albums

Held(n) == notifier[n].batch \cup notifier[n].at

\* Nothing is held, stored or registered before the baseline, and what it must cover is shown.
QuietBefore ==
    ~baselined =>
        /\ \A a \in Albums : notice[a] = NoNotice /\ albumPush[a] = 0
        /\ \A n \in Notifiers : notifier[n] = NoNotifier
        /\ \A a \in firstAlbums : available(a)

\* The baseline is a final state that no notifier picks up.
QuietAfter ==
    baselined => \A a \in firstAlbums :
        /\ notice[a].status = "baseline" /\ albumPush[a] = 0
        /\ \A n \in Notifiers : a \notin Held(n)

BaselineIsLate == fullSync \in {"never", "first"} => ~baselined /\ firstAlbums = {}

QueuedIsStored ==
    \A n \in Notifiers : notifier[n].pc = "queued" =>
        \A a \in notifier[n].at : albumPush[a] = 1

SentIsStored == \A a \in Albums : notice[a].status = "sent" => albumPush[a] = 1

AlbumsInv ==
    AlbumsTyped /\ QuietBefore /\ QuietAfter /\ BaselineIsLate /\ QueuedIsStored /\ SentIsStored

LEMMA NoNotifierTyped ==
    /\ NoNotifier \in Notifier
    /\ NoNotifier.pc = "idle" /\ NoNotifier.batch = {} /\ NoNotifier.at = {}
  BY DEF NoNotifier, Notifier

\* A notifier that steps after the baseline: what it holds it held or has just claimed, what
\* the baseline covers stays covered, and what it calls queued or sent is stored.
LEMMA NotifierKeepsAlbums ==
    ASSUME AlbumsInv, NEW n \in Notifiers, NEW s \in Notifier, NotifierGoes(n, s),
           baselined, baselined' = TRUE, UNCHANGED albumVars,
           notice' \in [Albums -> NoticeRow], albumPush' \in [Albums -> 0 .. 1],
           \A a \in Albums : notice[a].status = "baseline" =>
               /\ notice'[a].status = "baseline"
               /\ a \in s.batch \cup s.at => a \in Held(n)
               /\ a \notin Held(n) => albumPush'[a] = albumPush[a],
           \A a \in Albums : albumPush[a] = 1 => albumPush'[a] = 1,
           s.pc = "queued" => \A a \in s.at : albumPush'[a] = 1,
           \A a \in Albums : notice'[a].status = "sent" => albumPush'[a] = 1
    PROVE  AlbumsInv'
  <1>1. \A m \in Notifiers : notifier'[m] = IF m = n THEN s ELSE notifier[m]
    BY DEF NotifierGoes, AlbumsInv, AlbumsTyped
  <1>2. AlbumsTyped'
    BY <1>1 DEF AlbumsInv, AlbumsTyped, NotifierGoes, albumVars
  <1>3. QuietAfter'
    <2>1. \A a \in firstAlbums : a \in Albums /\ notice[a].status = "baseline" /\ albumPush[a] = 0
                                 /\ \A m \in Notifiers : a \notin Held(m)
      BY DEF AlbumsInv, AlbumsTyped, QuietAfter
    <2>2. \A a \in firstAlbums, m \in Notifiers : a \notin Held(m)'
      BY <1>1, <2>1 DEF Held
    <2> QED BY <2>1, <2>2 DEF QuietAfter, albumVars
  <1>4. BaselineIsLate' /\ QuietBefore'
    BY DEF AlbumsInv, BaselineIsLate, QuietBefore, albumVars
  <1>5. QueuedIsStored'
    <2>1. \A m \in Notifiers, a \in Albums : a \in notifier[m].at /\ notifier[m].pc = "queued"
                                             => albumPush[a] = 1
      BY DEF AlbumsInv, QueuedIsStored
    <2>2. \A m \in Notifiers : notifier[m].at \subseteq Albums
      BY DEF AlbumsInv, AlbumsTyped, Notifier
    <2> QED BY <1>1, <2>1, <2>2 DEF QueuedIsStored
  <1> QED BY <1>2, <1>3, <1>4, <1>5 DEF AlbumsInv, SentIsStored

LEMMA RestTyped ==
    ASSUME NEW S \in SUBSET Albums
    PROVE  /\ RestOfBatch(S) \in Notifier
           /\ RestOfBatch(S).batch \cup RestOfBatch(S).at = S
           /\ RestOfBatch(S).pc # "queued"
  BY NoNotifierTyped DEF RestOfBatch, Notifier, NoNotifier

\* Before the baseline only the synchronisation and the first ensureBaseline act.
LEMMA SyncKeepsAlbums ==
    ASSUME AlbumsInv, UNCHANGED noticeVars,
           album' \in [Albums -> AlbumRow], firstAlbums' \subseteq Albums,
           fullSync' \in {"never", "first", "done", "again"},
           baselined => firstAlbums' \subseteq firstAlbums,
           ~baselined => \A a \in firstAlbums' : album'[a].shown /\ album'[a].count > 0,
           fullSync' \in {"never", "first"} => fullSync \in {"never", "first"} /\ firstAlbums' = firstAlbums
    PROVE  AlbumsInv'
  <1>1. AlbumsTyped'
    BY DEF AlbumsInv, AlbumsTyped, noticeVars
  <1>2. QuietBefore'
    BY DEF AlbumsInv, QuietBefore, noticeVars, available
  <1>3. QuietAfter'
    BY DEF AlbumsInv, QuietAfter, Held, noticeVars
  <1>4. BaselineIsLate'
    BY DEF AlbumsInv, BaselineIsLate, noticeVars
  <1>5. QueuedIsStored' /\ SentIsStored'
    BY DEF AlbumsInv, QueuedIsStored, SentIsStored, noticeVars
  <1> QED BY <1>1, <1>2, <1>3, <1>4, <1>5 DEF AlbumsInv

LEMMA SyncActionsKeepAlbums ==
    ASSUME AlbumsInv,
           \/ FullSyncBegins \/ FullSyncEnds
           \/ \E S, nested \in SUBSET Albums : FirstSyncEnds(S, nested)
           \/ \E a \in Albums, row \in AlbumRow : AlbumChanges(a, row)
    PROVE  AlbumsInv'
  <1>0. AlbumsTyped /\ \A a \in firstAlbums : ~baselined => album[a].shown /\ album[a].count > 0
    BY DEF AlbumsInv, QuietBefore, available
  <1>1. CASE FullSyncBegins \/ FullSyncEnds
    <2>1. UNCHANGED << album, firstAlbums, noticeVars >>
          /\ fullSync' \in {"first", "again", "done"}
          /\ (fullSync' = "first" => fullSync = "never")
      BY <1>1 DEF FullSyncBegins, FullSyncEnds
    <2> QED BY <1>0, <2>1, SyncKeepsAlbums DEF AlbumsTyped
  <1>2. ASSUME NEW S \in SUBSET Albums, NEW nested \in SUBSET Albums, FirstSyncEnds(S, nested)
        PROVE  AlbumsInv'
    <2>1. ~baselined
      BY <1>2 DEF FirstSyncEnds, AlbumsInv, BaselineIsLate
    <2>2. album' \in [Albums -> AlbumRow]
      BY <1>2, AlbumsAssumption DEF FirstSyncEnds, AlbumRow
    <2>3. \A a \in S : album'[a].shown /\ album'[a].count > 0
      BY <1>2 DEF FirstSyncEnds
    <2>4. firstAlbums' = S /\ fullSync' = "done" /\ UNCHANGED noticeVars
      BY <1>2 DEF FirstSyncEnds
    <2> QED BY <2>1, <2>2, <2>3, <2>4, SyncKeepsAlbums
  <1>3. ASSUME NEW a \in Albums, NEW row \in AlbumRow, AlbumChanges(a, row) PROVE AlbumsInv'
    <2>1. album' = [album EXCEPT ![a] = row]
          /\ firstAlbums' = {b \in firstAlbums : baselined \/ (album'[b].shown /\ album'[b].count > 0)}
          /\ fullSync \in {"done", "again"} /\ fullSync' = fullSync /\ UNCHANGED noticeVars
      BY <1>3 DEF AlbumChanges, CommitsAlbums
    <2>2. album' \in [Albums -> AlbumRow] /\ firstAlbums' \subseteq firstAlbums
      BY <1>0, <2>1 DEF AlbumsTyped
    <2>3. firstAlbums' \subseteq Albums /\ fullSync' \in {"done", "again"}
      BY <1>0, <2>1, <2>2 DEF AlbumsTyped
    <2>4. ~baselined => \A b \in firstAlbums' : album'[b].shown /\ album'[b].count > 0
      BY <2>1
    <2> QED BY <2>1, <2>2, <2>3, <2>4, SyncKeepsAlbums
  <1> QED BY <1>1, <1>2, <1>3

LEMMA BaselineKeepsAlbums ==
    ASSUME AlbumsInv, NEW n \in Notifiers, ensureBaseline(n)
    PROVE  AlbumsInv'
  <1> DEFINE s == [NoNotifier EXCEPT !.pc = "register"]
  <1>0. s \in Notifier /\ s.pc = "register" /\ s.batch = {} /\ s.at = {} /\ NotifierGoes(n, s)
    BY NoNotifierTyped DEF ensureBaseline, Notifier, NoNotifier
  <1>1. CASE baselined
    <2>1. notice' = notice /\ baselined' = TRUE /\ UNCHANGED << albumVars, albumPush >>
      BY <1>1 DEF ensureBaseline
    <2>2. AlbumsTyped /\ SentIsStored
      BY DEF AlbumsInv
    <2> HIDE DEF s
    <2> QED BY <1>0, <1>1, <2>1, <2>2, NotifierKeepsAlbums DEF AlbumsTyped, SentIsStored
  <1>2. CASE ~baselined
    <2>1. /\ \A a \in Albums : notice[a] = NoNotice /\ albumPush[a] = 0
          /\ \A m \in Notifiers : notifier[m] = NoNotifier
          /\ \A a \in firstAlbums : available(a) /\ a \in Albums
          /\ AlbumsTyped /\ synced
      BY <1>2 DEF AlbumsInv, QuietBefore, AlbumsTyped, ensureBaseline
    <2>2. NoNotice.status = "none"
      BY DEF NoNotice
    <2>3. ASSUME NEW a \in Albums
          PROVE  /\ [NoNotice EXCEPT !.status = "baseline", !.count = album[a].count] \in NoticeRow
                 /\ [NoNotice EXCEPT !.status = "baseline", !.count = album[a].count].status = "baseline"
      <3>1. album[a].count \in 0 .. MaxPhotoCount
        BY <2>1 DEF AlbumsTyped, AlbumRow
      <3> QED BY <3>1 DEF NoNotice, NoticeRow
    <2>4. \A a \in Albums : notice'[a] = IF IntoBaseline(a)
             THEN [NoNotice EXCEPT !.status = "baseline", !.count = album[a].count] ELSE notice[a]
      BY <1>2 DEF ensureBaseline
    <2>5. notice' \in [Albums -> NoticeRow]
      <3>1. notice' = [a \in Albums |-> IF IntoBaseline(a)
               THEN [NoNotice EXCEPT !.status = "baseline", !.count = album[a].count] ELSE notice[a]]
        BY <1>2 DEF ensureBaseline
      <3> QED BY <2>1, <2>3, <3>1 DEF AlbumsTyped
    <2>6. UNCHANGED << albumVars, albumPush >> /\ baselined' = TRUE
      BY DEF ensureBaseline
    <2>7. \A m \in Notifiers : notifier'[m] = IF m = n THEN s ELSE notifier[m]
      BY <1>0, <2>1 DEF NotifierGoes, AlbumsTyped
    <2>8. \A m \in Notifiers : notifier'[m].batch = {} /\ notifier'[m].at = {} /\ notifier'[m].pc # "queued"
      BY <1>0, <2>1, <2>7, NoNotifierTyped
    <2>9. AlbumsTyped'
      <3>1. notifier' \in [Notifiers -> Notifier]
        BY <1>0, <2>1 DEF NotifierGoes, AlbumsTyped
      <3> QED BY <2>1, <2>5, <2>6, <3>1 DEF AlbumsTyped, albumVars
    <2>10. \A a \in Albums : notice'[a].status # "sent"
      BY <2>1, <2>2, <2>3, <2>4
    <2>11. \A a \in firstAlbums : notice'[a].status = "baseline" /\ albumPush[a] = 0
      BY <2>1, <2>2, <2>3, <2>4 DEF IntoBaseline
    <2>12. QuietAfter'
      BY <2>6, <2>8, <2>11 DEF QuietAfter, Held, albumVars
    <2>13. BaselineIsLate' /\ QuietBefore'
      BY <2>1, <2>6 DEF BaselineIsLate, QuietBefore, synced, albumVars
    <2> QED BY <2>8, <2>9, <2>10, <2>12, <2>13 DEF AlbumsInv, QueuedIsStored, SentIsStored
  <1> QED BY <1>1, <1>2

LEMMA WorkingIsLate ==
    ASSUME AlbumsInv, NEW n \in Notifiers, notifier[n].pc # "idle"
    PROVE  baselined /\ baselined = TRUE
  BY NoNotifierTyped DEF AlbumsInv, QuietBefore, AlbumsTyped

LEMMA RowsTyped ==
    ASSUME AlbumsInv, NEW a \in Albums
    PROVE  /\ notice[a] \in NoticeRow /\ album[a].count \in 0 .. MaxPhotoCount
           /\ notice[a].attempts + 1 \in Nat
           /\ NoNotice.status = "none"
  BY DEF AlbumsInv, AlbumsTyped, NoticeRow, AlbumRow, NoNotice

LEMMA ObservingKeepsAlbums ==
    ASSUME AlbumsInv, NEW n \in Notifiers, registerNew(n) \/ trackGrowth(n) \/ closeExpired(n)
    PROVE  AlbumsInv'
  <1>0. AlbumsTyped /\ SentIsStored /\ baselined /\ baselined = TRUE
    BY WorkingIsLate DEF AlbumsInv, registerNew, trackGrowth, closeExpired
  <1>1. PICK pc \in {"growth", "close", "claim"} : NotifierGoes(n, [NoNotifier EXCEPT !.pc = pc])
    BY DEF registerNew, trackGrowth, closeExpired
  <1>2. /\ [NoNotifier EXCEPT !.pc = pc] \in Notifier /\ [NoNotifier EXCEPT !.pc = pc].pc = pc
        /\ [NoNotifier EXCEPT !.pc = pc].batch = {} /\ [NoNotifier EXCEPT !.pc = pc].at = {}
    BY DEF NoNotifier, Notifier
  <1>3. UNCHANGED << albumVars, baselined, albumPush >>
    BY DEF registerNew, trackGrowth, closeExpired
  <1>4. /\ notice' \in [Albums -> NoticeRow]
        /\ \A a \in Albums : /\ notice[a].status = "baseline" => notice'[a].status = "baseline"
                             /\ notice'[a].status = "sent" => notice[a].status = "sent"
    <2>1. CASE registerNew(n)
      <3>1. ASSUME NEW a \in Albums
            PROVE  LET m == [NoNotice EXCEPT !.status = "pending", !.count = album[a].count]
                   IN  m \in NoticeRow /\ m.status = "pending"
        BY RowsTyped DEF NoNotice, NoticeRow
      <3>2. notice' = [a \in Albums |->
               IF announceable(a) /\ notice[a].status = "none"
               THEN [NoNotice EXCEPT !.status = "pending", !.count = album[a].count] ELSE notice[a]]
        BY <2>1 DEF registerNew
      <3> QED BY <3>1, <3>2, RowsTyped
    <2>2. CASE trackGrowth(n)
      <3>1. ASSUME NEW a \in Albums
            PROVE  LET m == [notice[a] EXCEPT !.count = album[a].count, !.settled = FALSE]
                   IN  m \in NoticeRow /\ m.status = notice[a].status
        BY RowsTyped DEF NoticeRow
      <3>2. notice' = [a \in Albums |->
               IF notice[a].status = "pending" /\ notice[a].count # album[a].count
               THEN [notice[a] EXCEPT !.count = album[a].count, !.settled = FALSE] ELSE notice[a]]
        BY <2>2 DEF trackGrowth
      <3> QED BY <3>1, <3>2, RowsTyped
    <2>3. CASE closeExpired(n)
      <3>1. ASSUME NEW a \in Albums
            PROVE  LET m == [notice[a] EXCEPT !.status = "failed"]
                   IN  m \in NoticeRow /\ m.status = "failed"
        BY RowsTyped DEF NoticeRow
      <3>2. notice' = [a \in Albums |->
               IF notice[a].status = "sending" /\ notice[a].lease = "over"
                  /\ notice[a].attempts >= MaxAnnounceAttempts
               THEN [notice[a] EXCEPT !.status = "failed"] ELSE notice[a]]
        BY <2>3 DEF closeExpired
      <3> QED BY <3>1, <3>2, RowsTyped
    <2> QED BY <2>1, <2>2, <2>3
  <1> QED BY <1>0, <1>1, <1>2, <1>3, <1>4, NotifierKeepsAlbums DEF AlbumsTyped, SentIsStored

LEMMA ClaimingKeepsAlbums ==
    ASSUME AlbumsInv, NEW n \in Notifiers, claimAlbums(n)
    PROVE  AlbumsInv'
  <1> DEFINE S == {a \in Albums : Ready(a)}
  <1>0. AlbumsTyped /\ SentIsStored /\ baselined /\ baselined = TRUE
    BY WorkingIsLate DEF AlbumsInv, claimAlbums
  <1>1. UNCHANGED << albumVars, baselined, albumPush >> /\ NotifierGoes(n, RestOfBatch(S))
    BY DEF claimAlbums
  <1>2. ASSUME NEW a \in Albums
        PROVE  LET m == [notice[a] EXCEPT !.status = "sending", !.attempts = @ + 1, !.lease = "running"]
               IN  m \in NoticeRow /\ m.status = "sending"
    BY RowsTyped DEF NoticeRow
  <1>3. notice' = [a \in Albums |-> IF a \in S
           THEN [notice[a] EXCEPT !.status = "sending", !.attempts = @ + 1, !.lease = "running"]
           ELSE notice[a]]
    BY DEF claimAlbums
  <1>4. \A a \in S : notice[a].status \in {"pending", "sending"}
    BY DEF Ready
  <1>5. S \in SUBSET Albums
    OBVIOUS
  <1> HIDE DEF S
  <1>6. /\ notice' \in [Albums -> NoticeRow]
        /\ \A a \in Albums : /\ notice[a].status = "baseline" => notice'[a].status = "baseline" /\ a \notin S
                             /\ notice'[a].status = "sent" => notice[a].status = "sent"
    BY <1>2, <1>3, <1>4, RowsTyped
  <1> QED BY <1>0, <1>1, <1>5, <1>6, RestTyped, NotifierKeepsAlbums DEF AlbumsTyped, SentIsStored

LEMMA AnnouncingKeepsAlbums ==
    ASSUME AlbumsInv, NEW n \in Notifiers, NEW a \in Albums, announce(n, a) \/ announceRefused(n, a)
    PROVE  AlbumsInv'
  <1>0. /\ AlbumsTyped /\ SentIsStored /\ baselined /\ baselined = TRUE
        /\ a \in notifier[n].batch /\ UNCHANGED << albumVars, baselined, notice >>
    BY WorkingIsLate DEF AlbumsInv, announce, announceRefused
  <1>1. PICK pc \in {"queued", "refused"} :
           /\ NotifierGoes(n, [notifier[n] EXCEPT !.pc = pc, !.batch = @ \ {a}, !.at = {a}])
           /\ albumPush' = [albumPush EXCEPT ![a] = 1] \/ (pc = "refused" /\ albumPush' = albumPush)
    BY DEF announce, announceRefused, queuePhotoAlbum
  <1> DEFINE s == [notifier[n] EXCEPT !.pc = pc, !.batch = @ \ {a}, !.at = {a}]
  <1>2. /\ s \in Notifier /\ s.pc = pc /\ s.at = {a} /\ s.batch = notifier[n].batch \ {a}
    BY <1>0 DEF AlbumsTyped, Notifier
  <1>3. s.batch \cup s.at \subseteq Held(n)
    BY <1>0, <1>2 DEF Held
  <1>4. /\ albumPush' \in [Albums -> 0 .. 1]
        /\ \A b \in Albums : /\ albumPush[b] = 1 => albumPush'[b] = 1
                             /\ b # a => albumPush'[b] = albumPush[b]
        /\ pc = "queued" => albumPush'[a] = 1
    BY <1>0, <1>1 DEF AlbumsTyped
  <1>5. a \in Held(n)
    BY <1>0 DEF Held
  <1>6. NotifierGoes(n, s)
    BY <1>1
  <1> HIDE DEF s
  <1> QED BY <1>0, <1>2, <1>3, <1>4, <1>5, <1>6, NotifierKeepsAlbums DEF AlbumsTyped, SentIsStored

LEMMA RecordingKeepsAlbums ==
    ASSUME AlbumsInv, NEW n \in Notifiers, recordOutcome(n)
    PROVE  AlbumsInv'
  <1>0. /\ AlbumsTyped /\ SentIsStored /\ baselined /\ baselined = TRUE
        /\ UNCHANGED << albumVars, baselined, albumPush >>
        /\ NotifierGoes(n, RestOfBatch(notifier[n].batch))
        /\ notifier[n].batch \in SUBSET Albums
    BY WorkingIsLate DEF AlbumsInv, AlbumsTyped, recordOutcome, Notifier
  <1>1. ASSUME NEW a \in Albums
        PROVE  /\ AfterRefusal(notice[a]) \in NoticeRow
               /\ AfterRefusal(notice[a]).status \in {"failed", "pending"}
               /\ [notice[a] EXCEPT !.status = "sent", !.lease = "none"] \in NoticeRow
    BY RowsTyped DEF NoticeRow, AfterRefusal
  <1>2. notice' = [a \in Albums |->
           IF a \notin notifier[n].at \/ notice[a].status # "sending" THEN notice[a]
           ELSE IF notifier[n].pc = "queued" THEN [notice[a] EXCEPT !.status = "sent", !.lease = "none"]
           ELSE AfterRefusal(notice[a])]
    BY DEF recordOutcome
  <1>3. /\ notice' \in [Albums -> NoticeRow]
        /\ \A a \in Albums : notice[a].status = "baseline" => notice'[a].status = "baseline"
    BY <1>1, <1>2, RowsTyped
  <1>4. \A a \in notifier[n].at : notifier[n].pc = "queued" => albumPush[a] = 1
    BY DEF AlbumsInv, QueuedIsStored
  <1>5. \A a \in Albums : notice'[a].status = "sent" => albumPush[a] = 1
    BY <1>0, <1>1, <1>2, <1>4 DEF SentIsStored
  <1>6. notifier[n].batch \subseteq Held(n)
    BY DEF Held
  <1> QED BY <1>0, <1>3, <1>5, <1>6, RestTyped, NotifierKeepsAlbums DEF AlbumsTyped

LEMMA StoppingKeepsAlbums ==
    ASSUME AlbumsInv, NEW n \in Notifiers, notifierStops(n)
    PROVE  AlbumsInv'
  <1>0. /\ AlbumsTyped /\ SentIsStored /\ baselined /\ baselined = TRUE
        /\ UNCHANGED << albumVars, baselined, albumPush, notice >>
        /\ notifier[n].batch \in SUBSET Albums
    BY WorkingIsLate DEF AlbumsInv, AlbumsTyped, notifierStops, Notifier
  <1>1. notifier[n].batch \subseteq Held(n)
    BY DEF Held
  <1>2. CASE NotifierGoes(n, NoNotifier)
    BY <1>0, <1>2, NoNotifierTyped, NotifierKeepsAlbums DEF AlbumsTyped, SentIsStored
  <1>3. CASE NotifierGoes(n, RestOfBatch(notifier[n].batch))
    BY <1>0, <1>1, <1>3, RestTyped, NotifierKeepsAlbums DEF AlbumsTyped, SentIsStored
  <1> QED BY <1>2, <1>3 DEF notifierStops

LEMMA ClockKeepsAlbums ==
    ASSUME AlbumsInv, NEW a \in Albums, AlbumClock(a)
    PROVE  AlbumsInv'
  <1>0. UNCHANGED << albumVars, baselined, albumPush, notifier >> /\ AlbumsTyped
    BY DEF AlbumClock, AlbumsInv
  <1>1. PICK r \in NoticeRow : notice' = [notice EXCEPT ![a] = r] /\ r.status = notice[a].status
    <2>1. ASSUME notice' = [notice EXCEPT ![a].settled = TRUE]
          PROVE  /\ notice' = [notice EXCEPT ![a] = [notice[a] EXCEPT !.settled = TRUE]]
                 /\ [notice[a] EXCEPT !.settled = TRUE] \in NoticeRow
                 /\ [notice[a] EXCEPT !.settled = TRUE].status = notice[a].status
      BY <2>1, RowsTyped DEF NoticeRow
    <2>2. ASSUME notice' = [notice EXCEPT ![a].due = TRUE]
          PROVE  /\ notice' = [notice EXCEPT ![a] = [notice[a] EXCEPT !.due = TRUE]]
                 /\ [notice[a] EXCEPT !.due = TRUE] \in NoticeRow
                 /\ [notice[a] EXCEPT !.due = TRUE].status = notice[a].status
      BY <2>2, RowsTyped DEF NoticeRow
    <2>3. ASSUME notice' = [notice EXCEPT ![a].lease = "over"]
          PROVE  /\ notice' = [notice EXCEPT ![a] = [notice[a] EXCEPT !.lease = "over"]]
                 /\ [notice[a] EXCEPT !.lease = "over"] \in NoticeRow
                 /\ [notice[a] EXCEPT !.lease = "over"].status = notice[a].status
      BY <2>3, RowsTyped DEF NoticeRow
    <2> QED BY <2>1, <2>2, <2>3 DEF AlbumClock
  <1>2. /\ notice' \in [Albums -> NoticeRow]
        /\ \A b \in Albums : notice'[b].status = notice[b].status
    BY <1>0, <1>1 DEF AlbumsTyped
  <1>3. AlbumsTyped'
    BY <1>0, <1>2 DEF AlbumsTyped, albumVars
  <1>4. baselined
    <2>1. NoNotice.status = "none" /\ NoNotice.due = TRUE /\ NoNotice.lease = "none"
      BY DEF NoNotice
    <2> QED BY <2>1 DEF AlbumClock, AlbumsInv, QuietBefore
  <1>5. QuietBefore' /\ BaselineIsLate' /\ QuietAfter' /\ QueuedIsStored' /\ SentIsStored'
    <2>1. QuietBefore' /\ BaselineIsLate'
      BY <1>0, <1>4 DEF QuietBefore, BaselineIsLate, AlbumsInv, albumVars
    <2>2. QuietAfter'
      BY <1>0, <1>2 DEF QuietAfter, Held, AlbumsInv, AlbumsTyped, albumVars
    <2>3. QueuedIsStored' /\ SentIsStored'
      BY <1>0, <1>2 DEF QueuedIsStored, SentIsStored, AlbumsInv
    <2> QED BY <2>1, <2>2, <2>3
  <1> QED BY <1>3, <1>5 DEF AlbumsInv

LEMMA AlbumsInvariant == AlbumsSpec => []AlbumsInv
  <1>1. AlbumsInit => AlbumsInv
    <2> SUFFICES ASSUME AlbumsInit PROVE AlbumsInv
      OBVIOUS
    <2>1. AlbumsTyped
      <3>1. NoNotice \in NoticeRow
        BY AlbumsAssumption DEF NoNotice, NoticeRow
      <3>2. album \in [Albums -> AlbumRow]
        BY AlbumsAssumption DEF AlbumsInit, AlbumRow
      <3>3. notice \in [Albums -> NoticeRow]
        BY <3>1 DEF AlbumsInit
      <3>4. albumPush \in [Albums -> 0 .. 1]
        BY DEF AlbumsInit
      <3>5. notifier \in [Notifiers -> Notifier]
        BY NoNotifierTyped DEF AlbumsInit
      <3>6. firstAlbums = {} /\ fullSync = "never" /\ baselined = FALSE
        BY DEF AlbumsInit
      <3> QED BY <3>2, <3>3, <3>4, <3>5, <3>6 DEF AlbumsTyped
    <2>2. QuietBefore /\ QuietAfter /\ BaselineIsLate
      BY DEF AlbumsInit, QuietBefore, QuietAfter, BaselineIsLate
    <2>3. QueuedIsStored /\ SentIsStored
      BY NoNotifierTyped DEF AlbumsInit, QueuedIsStored, SentIsStored, NoNotice
    <2> QED BY <2>1, <2>2, <2>3 DEF AlbumsInv
  <1>2. AlbumsInv /\ [AlbumsNext]_<<albumVars, noticeVars>> => AlbumsInv'
    <2>1. AlbumsInv /\ UNCHANGED << albumVars, noticeVars >> => AlbumsInv'
      BY DEF albumVars, noticeVars, AlbumsInv, AlbumsTyped, QuietBefore, QuietAfter, BaselineIsLate,
             QueuedIsStored, SentIsStored, Held, available
    <2> QED BY <2>1, SyncActionsKeepAlbums, BaselineKeepsAlbums, ObservingKeepsAlbums,
               ClaimingKeepsAlbums, AnnouncingKeepsAlbums, RecordingKeepsAlbums,
               StoppingKeepsAlbums, ClockKeepsAlbums DEF AlbumsNext, NotifierStep
  <1> QED BY <1>1, <1>2, PTL DEF AlbumsSpec

\* A push is stored once for an album, and a row says sent only when it was, for any number
\* of replicas that stop, outlive their lease and are refused (claim, announce, recordOutcome).
THEOREM AlbumsAnnouncedOnce == AlbumsSpec => []AnnouncedOnce
  <1>1. AlbumsInv => AnnouncedOnce
    BY DEF AlbumsInv, AlbumsTyped, SentIsStored, AnnouncedOnce
  <1> QED BY <1>1, AlbumsInvariant, PTL

\* Whichever replica takes the baseline first, and wherever the others stop, no album of the
\* first full sync is ever announced (ensureBaseline).
THEOREM FirstSyncIsQuiet == AlbumsSpec => []FirstAlbumsStayQuiet
  <1>1. AlbumsInv => FirstAlbumsStayQuiet
    BY DEF AlbumsInv, AlbumsTyped, QuietBefore, QuietAfter, FirstAlbumsStayQuiet
  <1> QED BY <1>1, AlbumsInvariant, PTL

\* No album is announced more often than the code allows, nor are the bounds passed.
AlbumsRest ==
    /\ \A a \in Albums : notice[a].attempts <= MaxAnnounceAttempts
    /\ albumChanges \in 0 .. MaxAlbumChanges
    /\ albumTrouble \in 0 .. MaxAlbumTrouble

LEMMA AlbumsRestKept ==
    ASSUME AlbumsInv, AlbumsRest, AlbumsNext PROVE AlbumsRest'
  <1>0. /\ MaxAlbumChanges \in Nat /\ MaxAlbumTrouble \in Nat /\ MaxAnnounceAttempts \in Nat
        /\ \A a \in Albums : notice[a] \in NoticeRow /\ notice[a].attempts <= MaxAnnounceAttempts
        /\ notice \in [Albums -> NoticeRow]
        /\ albumChanges \in 0 .. MaxAlbumChanges /\ albumTrouble \in 0 .. MaxAlbumTrouble
    BY AlbumsAssumption DEF AlbumsInv, AlbumsTyped, AlbumsRest
  <1>1. ASSUME UNCHANGED noticeVars,
               \/ UNCHANGED albumChanges
               \/ albumChanges < MaxAlbumChanges /\ albumChanges' = albumChanges + 1
        PROVE  AlbumsRest'
    BY <1>0, <1>1 DEF noticeVars, AlbumsRest
  <1>2. ASSUME UNCHANGED << albumChanges, notice >>,
               \/ UNCHANGED albumTrouble
               \/ albumTrouble < MaxAlbumTrouble /\ albumTrouble' = albumTrouble + 1
        PROVE  AlbumsRest'
    BY <1>0, <1>2 DEF AlbumsRest
  <1>3. ASSUME UNCHANGED << albumChanges, albumTrouble >>,
               \A a \in Albums : notice'[a].attempts \in Nat
                                 /\ notice'[a].attempts <= MaxAnnounceAttempts
        PROVE  AlbumsRest'
    BY <1>0, <1>3 DEF AlbumsRest
  <1>4. CASE \/ FullSyncBegins \/ FullSyncEnds
             \/ \E S, nested \in SUBSET Albums : FirstSyncEnds(S, nested)
             \/ \E a \in Albums, row \in AlbumRow : AlbumChanges(a, row)
    BY <1>1, <1>4 DEF FullSyncBegins, FullSyncEnds, FirstSyncEnds, AlbumChanges, CommitsAlbums
  <1>5. ASSUME NEW n \in Notifiers,
               \/ notifierStops(n)
               \/ \E a \in Albums : announceRefused(n, a) \/ announce(n, a)
        PROVE  AlbumsRest'
    BY <1>2, <1>5 DEF notifierStops, announceRefused, announce, albumVars
  <1>6. ASSUME NEW n \in Notifiers, ensureBaseline(n) \/ registerNew(n) PROVE AlbumsRest'
    <2>1. \A a \in Albums : notice'[a] = notice[a] \/ notice'[a].attempts = 0
      BY <1>6 DEF ensureBaseline, registerNew, NoNotice
    <2>2. UNCHANGED << albumChanges, albumTrouble >>
      BY <1>6 DEF ensureBaseline, registerNew, albumVars
    <2>3. \A a \in Albums : notice[a].attempts \in Nat
      BY <1>0 DEF NoticeRow
    <2> QED BY <1>0, <1>3, <2>1, <2>2, <2>3
  <1>7. ASSUME NEW n \in Notifiers, trackGrowth(n) \/ closeExpired(n) \/ recordOutcome(n)
        PROVE  AlbumsRest'
    <2>1. \A a \in Albums : notice'[a].attempts = notice[a].attempts
      <3>1. CASE trackGrowth(n)
        BY <1>0, <3>1 DEF trackGrowth, NoticeRow
      <3>2. CASE closeExpired(n)
        BY <1>0, <3>2 DEF closeExpired, NoticeRow
      <3>3. CASE recordOutcome(n)
        <4>1. \A a \in Albums : AfterRefusal(notice[a]).attempts = notice[a].attempts
          BY <1>0 DEF AfterRefusal, NoticeRow
        <4>2. \A a \in Albums :
                [notice[a] EXCEPT !.status = "sent", !.lease = "none"].attempts = notice[a].attempts
          BY <1>0 DEF NoticeRow
        <4>3. \A a \in Albums :
                \/ notice'[a] = notice[a] \/ notice'[a] = AfterRefusal(notice[a])
                \/ notice'[a] = [notice[a] EXCEPT !.status = "sent", !.lease = "none"]
          BY <3>3 DEF recordOutcome
        <4> QED BY <4>1, <4>2, <4>3
      <3> QED BY <1>7, <3>1, <3>2, <3>3
    <2>2. UNCHANGED << albumChanges, albumTrouble >>
      BY <1>7 DEF trackGrowth, closeExpired, recordOutcome, albumVars
    <2>3. \A a \in Albums : notice[a].attempts \in Nat
      BY <1>0 DEF NoticeRow
    <2> QED BY <1>0, <1>3, <2>1, <2>2, <2>3
  <1>8. ASSUME NEW n \in Notifiers, claimAlbums(n) PROVE AlbumsRest'
    <2>1. \A a \in Albums : notice'[a].attempts =
              IF Ready(a) THEN notice[a].attempts + 1 ELSE notice[a].attempts
      BY <1>0, <1>8 DEF claimAlbums, NoticeRow
    <2>2. UNCHANGED << albumChanges, albumTrouble >>
      BY <1>8 DEF claimAlbums, albumVars
    <2>3. \A a \in Albums : notice[a].attempts \in Nat
      BY <1>0 DEF NoticeRow
    <2>4. \A a \in Albums : Ready(a) => notice[a].attempts < MaxAnnounceAttempts
      BY DEF Ready
    <2> QED BY <1>0, <1>3, <2>1, <2>2, <2>3, <2>4
  <1>9. ASSUME NEW a \in Albums, AlbumClock(a) PROVE AlbumsRest'
    <2>1. \A b \in Albums : notice'[b].attempts = notice[b].attempts
      BY <1>0, <1>9 DEF AlbumClock, NoticeRow
    <2>2. UNCHANGED << albumChanges, albumTrouble >>
      BY <1>9 DEF AlbumClock, albumVars
    <2>3. \A b \in Albums : notice[b].attempts \in Nat
      BY <1>0 DEF NoticeRow
    <2> QED BY <1>0, <1>3, <2>1, <2>2, <2>3
  <1> QED BY <1>4, <1>5, <1>6, <1>7, <1>8, <1>9 DEF AlbumsNext, NotifierStep

\* The announcements keep their types, for any albums and replicas; in particular none is
\* attempted more often than the code allows, whoever claims it (claim, closeExpired).
THEOREM AlbumsStayTyped == AlbumsSpec => []AlbumsTypeOK
  <1>1. AlbumsInit => AlbumsRest
    BY AlbumsAssumption DEF AlbumsInit, AlbumsRest, NoNotice
  <1>2. AlbumsInv /\ AlbumsRest /\ [AlbumsNext]_<<albumVars, noticeVars>> => AlbumsRest'
    BY AlbumsRestKept DEF albumVars, noticeVars, AlbumsRest
  <1>3. AlbumsInv /\ AlbumsRest => AlbumsTypeOK
    <2> SUFFICES ASSUME AlbumsInv, AlbumsRest PROVE AlbumsTypeOK
      OBVIOUS
    <2>1. \A a \in Albums : notice[a] \in Notice
      BY AlbumsAssumption DEF AlbumsInv, AlbumsTyped, AlbumsRest, NoticeRow, Notice
    <2>2. notice \in [Albums -> Notice]
      BY <2>1 DEF AlbumsInv, AlbumsTyped
    <2> QED BY <2>2 DEF AlbumsInv, AlbumsTyped, AlbumsRest, AlbumsTypeOK
  <1> QED BY <1>1, <1>2, <1>3, AlbumsInvariant, PTL DEF AlbumsSpec

LEMMA StandingKnown ==
    /\ StandingOf["none"] = "unknown" /\ StandingOf["baseline"] = "set_aside"
    /\ StandingOf["pending"] = "waiting" /\ StandingOf["sending"] = "waiting"
    /\ StandingOf["sent"] = "sent" /\ StandingOf["failed"] = "given_up"
  BY DEF StandingOf

\* What a notifier holds it claimed: neither new nor part of the baseline, then or ever.
Known(a) == notice[a].status \notin {"none", "baseline"}
HeldIsKnown == \A n \in Notifiers : \A a \in Held(n) : Known(a)

\* The statuses after a step of a notifier, row by row.
LEMMA StatusAfter ==
    ASSUME AlbumsInv, NEW n \in Notifiers, NEW a \in Albums
    PROVE  /\ ensureBaseline(n) => notice'[a].status =
                 IF ~baselined /\ IntoBaseline(a) THEN "baseline" ELSE notice[a].status
           /\ registerNew(n) => notice'[a].status =
                 IF announceable(a) /\ notice[a].status = "none" THEN "pending" ELSE notice[a].status
           /\ trackGrowth(n) => notice'[a].status = notice[a].status
           /\ closeExpired(n) => \/ notice'[a].status = notice[a].status
                                 \/ notice[a].status = "sending" /\ notice'[a].status = "failed"
           /\ claimAlbums(n) =>
                 \/ notice'[a].status = notice[a].status /\ ~Ready(a)
                 \/ notice[a].status \in {"pending", "sending"} /\ notice'[a].status = "sending"
           /\ recordOutcome(n) =>
                 \/ notice'[a].status = notice[a].status
                 \/ /\ notice[a].status = "sending" /\ a \in notifier[n].at
                    /\ \/ notifier[n].pc = "queued" /\ notice'[a].status = "sent"
                       \/ notifier[n].pc = "refused" /\ notice'[a].status \in {"failed", "pending"}
  <1>0. notice[a] \in NoticeRow /\ NoNotice \in NoticeRow /\ notice \in [Albums -> NoticeRow]
    BY AlbumsAssumption DEF AlbumsInv, AlbumsTyped, NoNotice, NoticeRow
  <1>1. ensureBaseline(n) => notice'[a].status =
                 IF ~baselined /\ IntoBaseline(a) THEN "baseline" ELSE notice[a].status
    BY <1>0 DEF ensureBaseline, NoNotice
  <1>2. registerNew(n) => notice'[a].status =
                 IF announceable(a) /\ notice[a].status = "none" THEN "pending" ELSE notice[a].status
    BY <1>0 DEF registerNew, NoNotice
  <1>3. trackGrowth(n) => notice'[a].status = notice[a].status
    <2>1. [notice[a] EXCEPT !.count = album[a].count, !.settled = FALSE].status = notice[a].status
      BY <1>0 DEF NoticeRow
    <2> QED BY <2>1 DEF trackGrowth
  <1>4. closeExpired(n) => \/ notice'[a].status = notice[a].status
                           \/ notice[a].status = "sending" /\ notice'[a].status = "failed"
    BY <1>0 DEF closeExpired, NoticeRow
  <1>5. claimAlbums(n) =>
                 \/ notice'[a].status = notice[a].status /\ ~Ready(a)
                 \/ notice[a].status \in {"pending", "sending"} /\ notice'[a].status = "sending"
    <2>1. [notice[a] EXCEPT !.status = "sending", !.attempts = @ + 1, !.lease = "running"].status
              = "sending"
      BY <1>0 DEF NoticeRow
    <2> QED BY <2>1 DEF claimAlbums, Ready
  <1>6. ASSUME recordOutcome(n), a \in notifier[n].at, notice[a].status = "sending"
        PROVE  \/ notifier[n].pc = "queued" /\ notice'[a].status = "sent"
               \/ notifier[n].pc = "refused" /\ notice'[a].status \in {"failed", "pending"}
    <2>1. AfterRefusal(notice[a]).status \in {"failed", "pending"}
      BY <1>0 DEF AfterRefusal, NoticeRow
    <2>2. [notice[a] EXCEPT !.status = "sent", !.lease = "none"].status = "sent"
      BY <1>0 DEF NoticeRow
    <2> QED BY <1>6, <2>1, <2>2 DEF recordOutcome
  <1>7. recordOutcome(n) /\ ~(a \in notifier[n].at /\ notice[a].status = "sending")
        => notice'[a].status = notice[a].status
    BY DEF recordOutcome
  <1> QED BY <1>1, <1>2, <1>3, <1>4, <1>5, <1>6, <1>7

\* A step that is not one of a notifier leaves the statuses alone.
LEMMA ClockKeepsStatuses ==
    ASSUME AlbumsInv, NEW a \in Albums, AlbumClock(a)
    PROVE  /\ UNCHANGED << albumPush, notifier >>
           /\ \A b \in Albums : notice'[b].status = notice[b].status
  <1>1. notice \in [Albums -> NoticeRow]
    BY DEF AlbumsInv, AlbumsTyped
  <1> QED BY <1>1 DEF AlbumClock, NoticeRow

LEMMA SyncKeepsNotices ==
    ASSUME \/ FullSyncBegins \/ FullSyncEnds
           \/ \E S, nested \in SUBSET Albums : FirstSyncEnds(S, nested)
           \/ \E a \in Albums, row \in AlbumRow : AlbumChanges(a, row)
    PROVE  UNCHANGED << notice, albumPush, notifier >>
  BY DEF FullSyncBegins, FullSyncEnds, FirstSyncEnds, AlbumChanges, CommitsAlbums, noticeVars

LEMMA HeldStaysKnown ==
    ASSUME AlbumsInv, HeldIsKnown, AlbumsNext PROVE HeldIsKnown'
  <1>0. /\ notifier \in [Notifiers -> Notifier]
        /\ \A n \in Notifiers : Held(n) \subseteq Albums
        /\ \A n \in Notifiers : \A a \in Held(n) : Known(a)
    BY DEF AlbumsInv, AlbumsTyped, Notifier, Held, HeldIsKnown
  <1>1. ASSUME UNCHANGED notifier, \A a \in Albums : Known(a) => Known(a)' PROVE HeldIsKnown'
    BY <1>0, <1>1 DEF HeldIsKnown, Held
  <1>2. ASSUME NEW n \in Notifiers, NEW s, NotifierGoes(n, s),
               \A a \in Albums : Known(a) => Known(a)',
               \A a \in s.batch \cup s.at : a \in Held(n) \/ Known(a)'
        PROVE  HeldIsKnown'
    <2>1. \A m \in Notifiers : notifier'[m] = IF m = n THEN s ELSE notifier[m]
      BY <1>0, <1>2 DEF NotifierGoes
    <2> QED BY <1>0, <1>2, <2>1 DEF HeldIsKnown, Held
  <1>3. ASSUME NEW n \in Notifiers, NotifierStep(n) PROVE \A a \in Albums : Known(a) => Known(a)'
    BY <1>3, StatusAfter DEF NotifierStep, announce, Known, IntoBaseline
  <1>4. ASSUME NEW n \in Notifiers,
               ensureBaseline(n) \/ registerNew(n) \/ trackGrowth(n) \/ closeExpired(n)
        PROVE  HeldIsKnown'
    <2>1. PICK pc \in {"register", "growth", "close", "claim"} :
              NotifierGoes(n, [NoNotifier EXCEPT !.pc = pc])
      BY <1>4 DEF ensureBaseline, registerNew, trackGrowth, closeExpired
    <2>2. [NoNotifier EXCEPT !.pc = pc].batch = {} /\ [NoNotifier EXCEPT !.pc = pc].at = {}
      BY DEF NoNotifier
    <2>3. \A a \in Albums : Known(a) => Known(a)'
      BY <1>3, <1>4 DEF NotifierStep
    <2> QED BY <1>2, <2>1, <2>2, <2>3
  <1>5. ASSUME NEW n \in Notifiers, claimAlbums(n) PROVE HeldIsKnown'
    <2> DEFINE S == {a \in Albums : Ready(a)}
    <2>1. S \in SUBSET Albums /\ NotifierGoes(n, RestOfBatch(S))
      BY <1>5 DEF claimAlbums
    <2>2. \A a \in S : a \in Albums /\ Ready(a)
      OBVIOUS
    <2>3. \A a \in S : Known(a)'
      BY <1>5, <2>2, StatusAfter DEF Known
    <2>4. \A a \in Albums : Known(a) => Known(a)'
      BY <1>3, <1>5 DEF NotifierStep
    <2> HIDE DEF S
    <2> QED BY <1>2, <2>1, <2>3, <2>4, RestTyped
  <1>6. ASSUME NEW n \in Notifiers, NEW a \in Albums, announce(n, a) \/ announceRefused(n, a)
        PROVE  HeldIsKnown'
    <2>1. PICK pc \in {"queued", "refused"} :
             NotifierGoes(n, [notifier[n] EXCEPT !.pc = pc, !.batch = @ \ {a}, !.at = {a}])
      BY <1>6 DEF announce, announceRefused
    <2>2. /\ [notifier[n] EXCEPT !.pc = pc, !.batch = @ \ {a}, !.at = {a}].batch = notifier[n].batch \ {a}
          /\ [notifier[n] EXCEPT !.pc = pc, !.batch = @ \ {a}, !.at = {a}].at = {a}
          /\ a \in notifier[n].batch
      BY <1>0, <1>6 DEF Notifier, announce, announceRefused
    <2>3. \A b \in Albums : Known(b) => Known(b)'
      BY <1>6 DEF Known, announce, announceRefused
    <2> QED BY <1>2, <2>1, <2>2, <2>3 DEF Held
  <1>7. ASSUME NEW n \in Notifiers, recordOutcome(n) PROVE HeldIsKnown'
    <2>1. notifier[n].batch \in SUBSET Albums /\ NotifierGoes(n, RestOfBatch(notifier[n].batch))
      BY <1>0, <1>7 DEF recordOutcome, Notifier
    <2>2. \A a \in Albums : Known(a) => Known(a)'
      BY <1>3, <1>7 DEF NotifierStep
    <2> QED BY <1>2, <2>1, <2>2, RestTyped DEF Held
  <1>8. ASSUME NEW n \in Notifiers, notifierStops(n) PROVE HeldIsKnown'
    <2>1. \A a \in Albums : Known(a) => Known(a)'
      BY <1>8 DEF notifierStops, Known
    <2>2. CASE NotifierGoes(n, NoNotifier)
      BY <1>2, <2>1, <2>2, NoNotifierTyped
    <2>3. CASE NotifierGoes(n, RestOfBatch(notifier[n].batch))
      <3>1. notifier[n].batch \in SUBSET Albums
        BY <1>0 DEF Notifier
      <3> QED BY <1>2, <2>1, <2>3, <3>1, RestTyped DEF Held
    <2> QED BY <1>8, <2>2, <2>3 DEF notifierStops
  <1>9. ASSUME NEW a \in Albums, AlbumClock(a) PROVE HeldIsKnown'
    BY <1>1, <1>9, ClockKeepsStatuses DEF Known
  <1>10. CASE \/ FullSyncBegins \/ FullSyncEnds
              \/ \E S, nested \in SUBSET Albums : FirstSyncEnds(S, nested)
              \/ \E a \in Albums, row \in AlbumRow : AlbumChanges(a, row)
    BY <1>1, <1>10, SyncKeepsNotices DEF Known
  <1> QED BY <1>4, <1>5, <1>6, <1>7, <1>8, <1>9, <1>10 DEF AlbumsNext, NotifierStep

\* A step that moves no status and stores no push is not seen from outside.
LEMMA AlbumBoxRests ==
    ASSUME \A a \in Albums : notice'[a].status = notice[a].status, UNCHANGED albumPush
    PROVE  UNCHANGED AlbumBox!outboxVars
  BY DEF AlbumBox!outboxVars

LEMMA AlbumBoxMoves ==
    ASSUME NEW S \in SUBSET Albums, AlbumBox!RecordSent(S) \/ AlbumBox!GiveUp(S)
    PROVE  AlbumBox!OutboxNext
  <1>1. \E T \in SUBSET Albums :
            AlbumBox!RecordSent(T) \/ AlbumBox!GiveUp(T) \/ AlbumBox!Withdraw(T)
    <2> WITNESS S \in SUBSET Albums
    <2> QED OBVIOUS
  <1> QED BY <1>1 DEF AlbumBox!OutboxNext

\* What each step is, seen from outside.
LEMMA AlbumStepsOutside ==
    ASSUME AlbumsInv, HeldIsKnown, AlbumsNext
    PROVE  [AlbumBox!OutboxNext]_(AlbumBox!outboxVars)
  <1>0. /\ \A a \in Albums : notice[a].status \in
                {"none", "baseline", "pending", "sending", "sent", "failed"}
        /\ albumPush \in [Albums -> 0 .. 1]
    BY DEF AlbumsInv, AlbumsTyped, NoticeRow
  <1>1. ASSUME NEW n \in Notifiers, ensureBaseline(n)
        PROVE  [AlbumBox!OutboxNext]_(AlbumBox!outboxVars)
    <2>0. PICK aside \in SUBSET Albums : aside = {a \in Albums : ~baselined /\ IntoBaseline(a)}
      OBVIOUS
    <2>1. AlbumBox!Enter({}, {}, aside)
      <3>1. \A a \in aside : a \in Albums /\ notice[a].status = "none"
        BY <2>0 DEF IntoBaseline
      <3>2. \A a \in Albums : notice'[a].status = IF a \in aside THEN "baseline" ELSE notice[a].status
        BY <1>1, <2>0, StatusAfter
      <3>3. albumPush' = [a \in Albums |-> IF a \in {} THEN 1 ELSE albumPush[a]]
        BY <1>0, <1>1 DEF ensureBaseline
      <3> QED BY <3>1, <3>2, <3>3, StandingKnown DEF AlbumBox!Enter
    <2>2. {} \in SUBSET Albums /\ {} \in SUBSET {}
      OBVIOUS
    <2> QED BY <2>1, <2>2 DEF AlbumBox!OutboxNext
  <1>2. ASSUME NEW n \in Notifiers, registerNew(n)
        PROVE  [AlbumBox!OutboxNext]_(AlbumBox!outboxVars)
    <2>0. PICK S \in SUBSET Albums : S = {a \in Albums : announceable(a) /\ notice[a].status = "none"}
      OBVIOUS
    <2>1. AlbumBox!Enter(S, {}, {})
      <3>1. \A a \in S : a \in Albums /\ notice[a].status = "none"
        BY <2>0
      <3>2. \A a \in Albums : notice'[a].status = IF a \in S THEN "pending" ELSE notice[a].status
        BY <1>2, <2>0, StatusAfter
      <3>3. albumPush' = [a \in Albums |-> IF a \in {} THEN 1 ELSE albumPush[a]]
        BY <1>0, <1>2 DEF registerNew
      <3> QED BY <3>1, <3>2, <3>3, StandingKnown DEF AlbumBox!Enter
    <2>2. {} \in SUBSET Albums /\ {} \in SUBSET S
      OBVIOUS
    <2> QED BY <2>1, <2>2 DEF AlbumBox!OutboxNext
  <1>3. ASSUME NEW n \in Notifiers, trackGrowth(n) \/ claimAlbums(n)
        PROVE  [AlbumBox!OutboxNext]_(AlbumBox!outboxVars)
    <2>1. \A a \in Albums : StandingOf[notice'[a].status] = StandingOf[notice[a].status]
      BY <1>3, StatusAfter, StandingKnown
    <2>2. UNCHANGED albumPush
      BY <1>3 DEF trackGrowth, claimAlbums
    <2> QED BY <2>1, <2>2 DEF AlbumBox!outboxVars
  <1>4. ASSUME NEW n \in Notifiers, closeExpired(n)
        PROVE  [AlbumBox!OutboxNext]_(AlbumBox!outboxVars)
    <2>0. PICK S \in SUBSET Albums : S = {a \in Albums : notice'[a].status # notice[a].status}
      OBVIOUS
    <2>1. \A a \in S : notice[a].status = "sending" /\ notice'[a].status = "failed"
      BY <1>4, <2>0, StatusAfter
    <2>2. \A a \in Albums : a \notin S => notice'[a].status = notice[a].status
      BY <2>0
    <2>3. UNCHANGED albumPush
      BY <1>4 DEF closeExpired
    <2>4. AlbumBox!GiveUp(S)
      BY <2>1, <2>2, <2>3, StandingKnown DEF AlbumBox!GiveUp, AlbumBox!Stand
    <2> QED BY <2>4, AlbumBoxMoves
  <1>5. ASSUME NEW n \in Notifiers, NEW a \in Albums, announce(n, a) \/ announceRefused(n, a)
        PROVE  [AlbumBox!OutboxNext]_(AlbumBox!outboxVars)
    <2>1. /\ \A b \in Albums : notice'[b].status = notice[b].status
          /\ UNCHANGED albumPush \/ albumPush' = [albumPush EXCEPT ![a] = 1]
      BY <1>5 DEF announce, announceRefused, queuePhotoAlbum
    <2>2. StandingOf[notice[a].status] \notin {"unknown", "set_aside"}
      <3>1. a \in Held(n)
        BY <1>5 DEF announce, announceRefused, Held
      <3>2. notice[a].status \in {"pending", "sending", "sent", "failed"}
        BY <1>0, <3>1 DEF HeldIsKnown, Known
      <3> QED BY <3>2, StandingKnown
    <2>3. CASE UNCHANGED albumPush
      BY <2>1, <2>3, AlbumBoxRests
    <2>4. CASE albumPush' # albumPush /\ albumPush' = [albumPush EXCEPT ![a] = 1]
      <3>1. albumPush[a] = 0
        BY <1>0, <2>4
      <3>2. AlbumBox!Tell(a)
        BY <2>1, <2>2, <2>4, <3>1 DEF AlbumBox!Tell
      <3> QED BY <3>2 DEF AlbumBox!OutboxNext
    <2> QED BY <2>1, <2>3, <2>4
  <1>6. ASSUME NEW n \in Notifiers, recordOutcome(n)
        PROVE  [AlbumBox!OutboxNext]_(AlbumBox!outboxVars)
    <2>1. UNCHANGED albumPush
      BY <1>6 DEF recordOutcome
    <2>2. CASE notifier[n].pc = "queued"
      <3>0. PICK S \in SUBSET Albums : S = {a \in Albums : notice'[a].status # notice[a].status}
        OBVIOUS
      <3>1. \A a \in S : /\ notice[a].status = "sending" /\ notice'[a].status = "sent"
                         /\ albumPush[a] = 1
        BY <1>6, <2>2, <3>0, StatusAfter DEF AlbumsInv, QueuedIsStored
      <3>2. \A a \in Albums : a \notin S => notice'[a].status = notice[a].status
        BY <3>0
      <3>3. AlbumBox!RecordSent(S)
        BY <2>1, <3>1, <3>2, StandingKnown DEF AlbumBox!RecordSent, AlbumBox!Stand
      <3> QED BY <3>3, AlbumBoxMoves
    <2>3. CASE notifier[n].pc = "refused"
      <3>0. PICK S \in SUBSET Albums :
                S = {a \in Albums : StandingOf[notice'[a].status] # StandingOf[notice[a].status]}
        OBVIOUS
      <3>1. \A a \in S : notice[a].status = "sending" /\ notice'[a].status = "failed"
        BY <1>6, <2>3, <3>0, StatusAfter, StandingKnown
      <3>2. \A a \in Albums : a \notin S => StandingOf[notice'[a].status] = StandingOf[notice[a].status]
        BY <3>0
      <3>3. AlbumBox!GiveUp(S)
        BY <2>1, <3>1, <3>2, StandingKnown DEF AlbumBox!GiveUp, AlbumBox!Stand
      <3> QED BY <3>3, AlbumBoxMoves
    <2> QED BY <1>6, <2>2, <2>3 DEF recordOutcome
  <1>7. ASSUME NEW n \in Notifiers, notifierStops(n)
        PROVE  [AlbumBox!OutboxNext]_(AlbumBox!outboxVars)
    BY <1>7, AlbumBoxRests DEF notifierStops
  <1>8. ASSUME NEW a \in Albums, AlbumClock(a)
        PROVE  [AlbumBox!OutboxNext]_(AlbumBox!outboxVars)
    BY <1>8, AlbumBoxRests, ClockKeepsStatuses
  <1>9. CASE \/ FullSyncBegins \/ FullSyncEnds
             \/ \E S, nested \in SUBSET Albums : FirstSyncEnds(S, nested)
             \/ \E a \in Albums, row \in AlbumRow : AlbumChanges(a, row)
    BY <1>9, AlbumBoxRests, SyncKeepsNotices
  <1> QED BY <1>1, <1>2, <1>3, <1>4, <1>5, <1>6, <1>7, <1>8, <1>9 DEF AlbumsNext, NotifierStep

\* The notifier implements Outbox, for any albums and replicas: an album is announced once and
\* never out of the baseline, recorded as sent only when it was, and an ending stays whoever
\* answers late (ensureBaseline, registerNew, announce, recordOutcome, closeExpired).
THEOREM AlbumsImplementTheOutbox == AlbumsSpec => AlbumsKeepTheOutbox
  <1>1. AlbumsInit => HeldIsKnown /\ AlbumBox!OutboxInit
    <2> SUFFICES ASSUME AlbumsInit PROVE HeldIsKnown /\ AlbumBox!OutboxInit
      OBVIOUS
    <2>1. HeldIsKnown
      BY NoNotifierTyped DEF AlbumsInit, HeldIsKnown, Held
    <2>2. \A a \in Albums : StandingOf[notice[a].status] = "unknown"
      BY StandingKnown DEF AlbumsInit, NoNotice
    <2>3. albumPush = [a \in Albums |-> 0]
      BY DEF AlbumsInit
    <2> QED BY <2>1, <2>2, <2>3 DEF AlbumBox!OutboxInit
  <1>2. AlbumsInv /\ HeldIsKnown /\ [AlbumsNext]_<<albumVars, noticeVars>> => HeldIsKnown'
    BY HeldStaysKnown DEF HeldIsKnown, Held, Known, noticeVars
  <1>3. AlbumsInv /\ HeldIsKnown /\ [AlbumsNext]_<<albumVars, noticeVars>>
        => [AlbumBox!OutboxNext]_(AlbumBox!outboxVars)
    <2>1. UNCHANGED << albumVars, noticeVars >> => UNCHANGED AlbumBox!outboxVars
      BY DEF noticeVars, AlbumBox!outboxVars
    <2> QED BY <2>1, AlbumStepsOutside
  <1> QED BY <1>1, <1>2, <1>3, AlbumsInvariant, PTL
          DEF AlbumsSpec, AlbumsKeepTheOutbox, AlbumBox!OutboxSpec

-----------------------------------------------------------------------------
(* Mails of the reports *)

MailRow == [status : {"none", "pending", "sending", "sent", "failed"}, attempts : Nat,
            due : BOOLEAN, lease : {"none", "running", "over"}]

MailsTyped ==
    /\ reports \in Seq(Report)
    /\ submitter \in [Submitters -> Submission]
    /\ mails \in [MailRows -> MailRow]
    /\ sender \in [Senders -> Sender]
    /\ mailLeft \in [MailRows -> 0 .. 3]
    /\ mailDoubt \subseteq MailRows

\* The rows of a report that is not stored yet do not exist.
RowsOfReports == \A k \in MailRows : k[1] > Len(reports) => mails[k].status = "none"

Mailing(p, k) == sender[p].pc \in {"sent", "refused"} /\ sender[p].at = k
Holds(p, k) == k \in sender[p].batch \/ Mailing(p, k)

\* A row whose lease never ran out, and whose mail never left with an error for an answer, is
\* held by one sender, while it is being sent; and no mail of it has left while it waits, or is
\* about to be mailed, or was refused.
Calm(k) ==
    /\ mails[k].lease # "over" /\ mailLeft[k] <= 1
    /\ mails[k].status \notin {"sending", "sent"} => mailLeft[k] = 0
    /\ \A p \in Senders :
        /\ Holds(p, k) => mails[k].status = "sending" /\ \A q \in Senders : Holds(q, k) => q = p
        /\ k \in sender[p].batch => mailLeft[k] = 0 /\ ~Mailing(p, k)
        /\ Mailing(p, k) /\ sender[p].pc = "refused" => mailLeft[k] = 0

HeldRowsExist == \A p \in Senders, k \in MailRows : Holds(p, k) => mails[k].status # "none"

MailsInv ==
    MailsTyped /\ RowsOfReports /\ HeldRowsExist /\ \A k \in MailRows \ mailDoubt : Calm(k)

\* A row that a step leaves alone, and that nobody takes.
LEMMA LeftAlone ==
    ASSUME NEW k \in MailRows, Calm(k), mailLeft'[k] = mailLeft[k],
           mails'[k].lease # "over", mails'[k].status = mails[k].status,
           \A q \in Senders : /\ k \in sender'[q].batch => k \in sender[q].batch
                              /\ Mailing(q, k)' => Mailing(q, k) /\ sender'[q].pc = sender[q].pc
    PROVE  Calm(k)'
  <1>1. \A q \in Senders : Holds(q, k)' => Holds(q, k)
    BY DEF Holds
  <1> QED BY <1>1 DEF Calm

\* A row that waits, and is still in nobody's hands.
LEMMA StillWaits ==
    ASSUME NEW k \in MailRows, Calm(k), mailLeft'[k] = mailLeft[k],
           mails'[k].lease # "over", mails[k].status \notin {"sending", "sent"},
           UNCHANGED sender \/ \A q \in Senders : ~Holds(q, k)'
    PROVE  Calm(k)'
  <1>1. \A q \in Senders : ~Holds(q, k)
    BY DEF Calm
  <1>2. \A q \in Senders : ~Holds(q, k)'
    BY <1>1 DEF Holds, Mailing
  <1> QED BY <1>2 DEF Calm, Holds

LEMMA SenderAlone ==
    ASSUME MailsInv, NEW p \in Senders, NEW s \in Sender, SenderGoes(p, s)
    PROVE  /\ sender' \in [Senders -> Sender]
           /\ \A q \in Senders : sender'[q] = IF q = p THEN s ELSE sender[q]
  BY DEF SenderGoes, MailsInv, MailsTyped

LEMMA NoSenderTyped ==
    /\ NoSender \in Sender
    /\ NoSender.pc = "idle" /\ NoSender.batch = {} /\ NoSender.at = NoMailRow
  BY DEF NoSender, Sender, Providers

\* What is left of a batch holds nothing more, and is mailing nothing.
LEMMA RestOfTyped ==
    ASSUME MailsInv, NEW p \in Senders
    PROVE  /\ RestOf(p) \in Sender /\ RestOf(p).batch \subseteq sender[p].batch
           /\ RestOf(p).pc \notin {"sent", "refused"}
  <1>1. sender[p] \in Sender
    BY DEF MailsInv, MailsTyped
  <1>2. CASE sender[p].batch # {}
    BY <1>1, <1>2 DEF RestOf, Sender
  <1>3. CASE sender[p].batch = {} /\ sender[p].full
    BY <1>3, NoSenderTyped DEF RestOf, Sender
  <1>4. CASE sender[p].batch = {} /\ ~sender[p].full
    BY <1>4, NoSenderTyped DEF RestOf, Sender
  <1> QED BY <1>2, <1>3, <1>4

\* Submissions and the age of reports do not touch the rows, except new ones.
LEMMA SubmissionsKeepMails ==
    ASSUME MailsInv, UNCHANGED mailVars, reports' \in Seq(Report), Len(reports') >= Len(reports),
           submitter' \in [Submitters -> Submission]
    PROVE  MailsInv'
  <1>1. MailsTyped'
    BY DEF MailsInv, MailsTyped, mailVars
  <1>2. RowsOfReports'
    <2>1. \A k \in MailRows : k[1] \in Nat
      BY DEF MailRows
    <2>2. Len(reports) \in Nat /\ Len(reports') \in Nat
      BY DEF MailsInv, MailsTyped
    <2> QED BY <2>1, <2>2 DEF MailsInv, RowsOfReports, mailVars
  <1>3. HeldRowsExist' /\ \A k \in MailRows \ mailDoubt : Calm(k)'
    BY DEF MailsInv, HeldRowsExist, Calm, Holds, Mailing, mailVars
  <1> QED BY <1>1, <1>2, <1>3 DEF MailsInv, mailVars

LEMMA SubmittingKeepsMails ==
    ASSUME MailsInv,
           \/ \E p \in Submitters :
                 \/ \E w \in Reporters, s \in Subjects : Submit(p, w, s)
                 \/ CheckSubmission(p) \/ SubmissionFails(p)
           \/ \E i \in DOMAIN reports : ReportAges(i)
    PROVE  MailsInv'
  <1>0. /\ MailsTyped /\ Len(reports) \in Nat
        /\ \A p \in Submitters : submitter[p] \in Submission
    BY DEF MailsInv, MailsTyped
  <1>1. ASSUME NEW p \in Submitters, NEW s \in Submission, submitter' = [submitter EXCEPT ![p] = s],
               UNCHANGED << reports, mailVars >>
        PROVE  MailsInv'
    BY <1>0, <1>1, SubmissionsKeepMails DEF MailsTyped
  <1>2. ASSUME NEW p \in Submitters, NEW w \in Reporters, NEW s \in Subjects, Submit(p, w, s)
        PROVE  MailsInv'
    <2>1. [pc |-> "check", who |-> w, subject |-> s] \in Submission
      BY DEF Submission
    <2> QED BY <1>1, <1>2, <2>1 DEF Submit
  <1>3. ASSUME NEW p \in Submitters, CheckSubmission(p) \/ SubmissionFails(p) PROVE MailsInv'
    <2>1. submitter[p] \in Submission /\ [submitter[p] EXCEPT !.pc = "store"] \in Submission
      BY <1>0 DEF Submission
    <2>2. NoSubmission \in Submission
      BY <2>1 DEF Submission, NoSubmission
    <2>3. \/ submitter' = [submitter EXCEPT ![p] = NoSubmission]
          \/ submitter' = [submitter EXCEPT ![p] = [submitter[p] EXCEPT !.pc = "store"]]
      BY <1>3 DEF CheckSubmission, SubmissionFails
    <2>4. UNCHANGED << reports, mailVars >>
      BY <1>3 DEF CheckSubmission, SubmissionFails
    <2> QED BY <1>1, <2>1, <2>2, <2>3, <2>4
  <1>4. ASSUME NEW i \in DOMAIN reports, ReportAges(i) PROVE MailsInv'
    <2>1. PICK g \in {"today", "old"} : reports' = [reports EXCEPT ![i].age = g]
      BY <1>4 DEF ReportAges
    <2>2. reports \in Seq(Report) /\ i \in 1 .. Len(reports) /\ reports[i] \in Report
      BY <1>0 DEF MailsTyped
    <2>3. [reports[i] EXCEPT !.age = g] \in Report
      BY <2>2 DEF Report
    <2>4. reports' = [reports EXCEPT ![i] = [reports[i] EXCEPT !.age = g]]
      BY <2>1
    <2>5. reports' \in Seq(Report) /\ Len(reports') = Len(reports)
      BY <2>2, <2>3, <2>4
    <2>6. UNCHANGED mailVars /\ submitter' = submitter
      BY <1>4 DEF ReportAges
    <2> QED BY <1>0, <2>5, <2>6, SubmissionsKeepMails DEF MailsTyped
  <1> QED BY <1>2, <1>3, <1>4

LEMMA StoringKeepsMails ==
    ASSUME MailsInv, NEW p \in Submitters, NEW R \in SUBSET Recipients, StoreReport(p, R)
    PROVE  MailsInv'
  <1>0. /\ MailsTyped /\ RowsOfReports /\ Len(reports) \in Nat
        /\ submitter[p] \in Submission
    BY DEF MailsInv, MailsTyped
  <1>1. [who |-> submitter[p].who, subject |-> submitter[p].subject, age |-> "recent"] \in Report
        /\ NoSubmission \in Submission
    BY <1>0, ReportsAssumption DEF Submission, Report, NoSubmission
  <1>2. reports' \in Seq(Report) /\ Len(reports') = Len(reports) + 1
    BY <1>0, <1>1 DEF StoreReport, MailsTyped
  <1>3. NewMail \in MailRow /\ NewMail.status = "pending" /\ NewMail.lease = "none"
    BY DEF NewMail, NoMail, MailRow
  <1>4. mails' = [k \in MailRows |-> IF k[1] = Len(reports') /\ k[2] \in R THEN NewMail ELSE mails[k]]
        /\ UNCHANGED << sender, mailLeft, mailDoubt >>
        /\ submitter' = [submitter EXCEPT ![p] = NoSubmission]
    BY DEF StoreReport
  <1>5. MailsTyped'
    <2>1. mails' \in [MailRows -> MailRow]
      BY <1>0, <1>3, <1>4 DEF MailsTyped
    <2>2. submitter' \in [Submitters -> Submission]
      BY <1>0, <1>1, <1>4 DEF MailsTyped
    <2> QED BY <1>0, <1>2, <1>4, <2>1, <2>2 DEF MailsTyped
  <1>6. \A k \in MailRows : k[1] \in Nat
    BY DEF MailRows
  <1>7. RowsOfReports'
    BY <1>0, <1>2, <1>4, <1>6 DEF RowsOfReports
  <1>8. ASSUME NEW k \in MailRows \ mailDoubt PROVE Calm(k)'
    <2>1. Calm(k) /\ mailLeft'[k] = mailLeft[k]
      BY <1>4 DEF MailsInv
    <2>2. CASE k[1] = Len(reports') /\ k[2] \in R
      <3>1. mails[k].status = "none" /\ mails'[k].lease # "over"
        BY <1>0, <1>2, <1>3, <1>4, <1>6, <2>2 DEF RowsOfReports
      <3> QED BY <1>4, <2>1, <3>1, StillWaits
    <2>3. CASE ~(k[1] = Len(reports') /\ k[2] \in R)
      <3>1. mails'[k] = mails[k]
        BY <1>4, <2>3
      <3>2. mails'[k].lease # "over"
        BY <2>1, <3>1 DEF Calm
      <3> QED BY <1>4, <2>1, <3>1, <3>2, LeftAlone DEF Mailing
    <2> QED BY <2>2, <2>3
  <1>9. HeldRowsExist'
    BY <1>3, <1>4 DEF MailsInv, HeldRowsExist, Holds, Mailing
  <1> QED BY <1>4, <1>5, <1>7, <1>8, <1>9 DEF MailsInv

\* A step of a sender that changes no row, takes none and mails nothing: it begins, lets go
\* of its rows, or is refused one it holds.
LEMMA LettingGoKeepsMails ==
    ASSUME MailsInv, NEW p \in Senders, NEW s \in Sender, SenderGoes(p, s),
           s.batch \subseteq sender[p].batch, s.pc \notin {"sent", "refused"},
           UNCHANGED << reportVars, mailLeft, mailDoubt >>,
           mails' \in [MailRows -> MailRow],
           \A k \in MailRows : mails'[k].status = "none" <=> mails[k].status = "none",
           \A k \in MailRows \ mailDoubt :
              \/ mails'[k].lease # "over" /\ mails'[k].status = mails[k].status
              \/ /\ mails[k].status = "failed" /\ mails'[k].lease # "over"
              \/ /\ Mailing(p, k) /\ mails'[k].lease # "over"
                 /\ sender[p].pc = "refused" \/ mails'[k].status = "sent"
    PROVE  MailsInv'
  <1>1. \A q \in Senders : sender'[q] = IF q = p THEN s ELSE sender[q]
    BY SenderAlone
  <1>2. MailsTyped'
    BY SenderAlone DEF MailsInv, MailsTyped, reportVars
  <1>3. RowsOfReports'
    BY DEF MailsInv, RowsOfReports, reportVars
  <1>4. \A k \in MailRows, q \in Senders :
           /\ k \in sender'[q].batch => k \in sender[q].batch
           /\ Mailing(q, k)' => q # p /\ Mailing(q, k) /\ sender'[q].pc = sender[q].pc
    BY <1>1 DEF Mailing
  <1>5. ASSUME NEW k \in MailRows \ mailDoubt PROVE Calm(k)'
    <2>1. Calm(k) /\ mailLeft'[k] = mailLeft[k]
      BY DEF MailsInv
    <2>2. CASE mails'[k].lease # "over" /\ mails'[k].status = mails[k].status
      BY <1>4, <2>1, <2>2, LeftAlone
    <2>3. CASE mails[k].status = "failed" /\ mails'[k].lease # "over"
      <3>1. \A q \in Senders : ~Holds(q, k)'
        BY <1>4, <2>1, <2>3 DEF Calm, Holds
      <3> QED BY <2>1, <2>3, <3>1, StillWaits
    <2>4. CASE /\ Mailing(p, k) /\ mails'[k].lease # "over"
               /\ sender[p].pc = "refused" \/ mails'[k].status = "sent"
      <3>1. \A q \in Senders : ~Holds(q, k)'
        BY <1>1, <1>4, <2>1, <2>4 DEF Calm, Holds
      <3>2. sender[p].pc = "refused" => mailLeft[k] = 0
        BY <2>1, <2>4 DEF Calm
      <3> QED BY <2>1, <2>4, <3>1, <3>2 DEF Calm, Holds
    <2> QED BY <2>2, <2>3, <2>4
  <1>6. HeldRowsExist'
    BY <1>4 DEF MailsInv, HeldRowsExist, Holds
  <1> QED BY <1>2, <1>3, <1>5, <1>6 DEF MailsInv

LEMMA MailsKnown ==
    ASSUME MailsInv
    PROVE  /\ mails \in [MailRows -> MailRow]
           /\ \A k \in MailRows : mails[k] \in MailRow
           /\ \A k \in MailRows \ mailDoubt : mails[k].lease # "over"
  BY DEF MailsInv, MailsTyped, Calm

LEMMA BeginningKeepsMails ==
    ASSUME MailsInv, NEW p \in Senders,
           \/ DeliverDue(p) \/ CloseInterrupted(p)
           \/ \E i \in 1 .. MaxReports : RetryFailed(p, i)
    PROVE  MailsInv'
  <1>1. PICK pc \in {"sweep", "claim"} : SenderGoes(p, [NoSender EXCEPT !.pc = pc])
    BY DEF DeliverDue, CloseInterrupted, RetryFailed
  <1>2. /\ [NoSender EXCEPT !.pc = pc] \in Sender /\ [NoSender EXCEPT !.pc = pc].pc = pc
        /\ [NoSender EXCEPT !.pc = pc].batch = {}
    BY NoSenderTyped DEF NoSender, Sender
  <1>3. UNCHANGED << reportVars, mailLeft, mailDoubt >>
    BY DEF DeliverDue, CloseInterrupted, RetryFailed
  <1>4. CASE DeliverDue(p)
    <2>1. mails' = mails
      BY <1>4 DEF DeliverDue
    <2> QED BY <1>1, <1>2, <1>3, <2>1, MailsKnown, LettingGoKeepsMails
  <1>5. CASE CloseInterrupted(p)
    <2>1. mails' = [k \in MailRows |->
             IF mails[k].status = "sending" /\ mails[k].lease = "over" /\ mails[k].attempts >= MaxAttempts
             THEN [mails[k] EXCEPT !.status = "failed"] ELSE mails[k]]
      BY <1>5 DEF CloseInterrupted
    <2>2. \A k \in MailRows : [mails[k] EXCEPT !.status = "failed"] \in MailRow
      BY MailsKnown DEF MailRow
    <2>3. mails' \in [MailRows -> MailRow]
      BY <2>1, <2>2, MailsKnown
    <2>4. \A k \in MailRows : mails'[k].status = "none" <=> mails[k].status = "none"
      <3>1. \A k \in MailRows : [mails[k] EXCEPT !.status = "failed"].status = "failed"
        BY MailsKnown DEF MailRow
      <3> QED BY <2>1, <3>1
    <2>5. \A k \in MailRows \ mailDoubt : mails'[k] = mails[k]
      BY <2>1, MailsKnown
    <2> QED BY <1>1, <1>2, <1>3, <2>3, <2>4, <2>5, MailsKnown, LettingGoKeepsMails
  <1>6. ASSUME NEW i \in 1 .. MaxReports, RetryFailed(p, i) PROVE MailsInv'
    <2>1. mails' = [k \in MailRows |->
             IF k[1] = i /\ mails[k].status = "failed" THEN NewMail ELSE mails[k]]
      BY <1>6 DEF RetryFailed
    <2>2. NewMail \in MailRow /\ NewMail.status = "pending" /\ NewMail.lease = "none"
      BY DEF NewMail, NoMail, MailRow
    <2>3. mails' \in [MailRows -> MailRow]
      BY <2>1, <2>2, MailsKnown
    <2>4. \A k \in MailRows : mails'[k].status = "none" <=> mails[k].status = "none"
      BY <2>1, <2>2
    <2>5. \A k \in MailRows \ mailDoubt :
             mails'[k] = mails[k] \/ (mails[k].status = "failed" /\ mails'[k].lease # "over")
      BY <2>1, <2>2
    <2> QED BY <1>1, <1>2, <1>3, <2>3, <2>4, <2>5, MailsKnown, LettingGoKeepsMails
  <1> QED BY <1>4, <1>5, <1>6

LEMMA EndingKeepsMails ==
    ASSUME MailsInv, NEW p \in Senders, RecordSent(p) \/ RecordFailed(p) \/ SenderStops(p)
    PROVE  MailsInv'
  <1>0. UNCHANGED << reportVars, mailLeft, mailDoubt >>
    BY DEF RecordSent, RecordFailed, SenderStops
  <1>1. RestOf(p) \in Sender /\ RestOf(p).batch \subseteq sender[p].batch
        /\ RestOf(p).pc \notin {"sent", "refused"}
    BY RestOfTyped
  <1>2. CASE SenderStops(p)
    <2>1. mails' = mails
      BY <1>2 DEF SenderStops
    <2>2. CASE SenderGoes(p, NoSender)
      BY <1>0, <2>1, <2>2, NoSenderTyped, MailsKnown, LettingGoKeepsMails
    <2>3. CASE SenderGoes(p, RestOf(p))
      BY <1>0, <1>1, <2>1, <2>3, MailsKnown, LettingGoKeepsMails
    <2> QED BY <1>2, <2>2, <2>3 DEF SenderStops
  <1> DEFINE at == sender[p].at
  <1>3. ASSUME NEW m \in MailRow, at \in MailRows => m.status \in {"sent", "failed"},
               at \in MailRows => m.lease = "none",
               mails' = [mails EXCEPT ![at] = m], SenderGoes(p, RestOf(p)),
               sender[p].pc \in {"sent", "refused"},
               sender[p].pc = "refused" \/ m.status = "sent"
        PROVE  MailsInv'
    <2>1. mails' \in [MailRows -> MailRow]
          /\ \A k \in MailRows : mails'[k] = IF k = at THEN m ELSE mails[k]
      BY <1>3, MailsKnown
    <2>2. \A k \in MailRows : k = at => Mailing(p, k)
      BY <1>3 DEF Mailing
    <2>3. \A k \in MailRows \ mailDoubt : IF k = at THEN Mailing(p, k) /\ mails'[k].lease # "over"
                                         ELSE mails'[k] = mails[k]
      BY <1>3, <2>1, <2>2
    <2>4. \A k \in MailRows : mails'[k].status = "none" <=> mails[k].status = "none"
      BY <1>3, <2>1, <2>2 DEF MailsInv, HeldRowsExist, Holds
    <2> QED BY <1>0, <1>1, <1>3, <2>1, <2>3, <2>4, MailsKnown, LettingGoKeepsMails
  <1>4. CASE at \in MailRows /\ (RecordSent(p) \/ RecordFailed(p))
    <2> DEFINE m == IF RecordSent(p) THEN [mails[at] EXCEPT !.status = "sent", !.lease = "none"]
                    ELSE [mails[at] EXCEPT !.status = "failed", !.lease = "none", !.due = FALSE]
    <2>1. /\ m \in MailRow /\ m.lease = "none"
          /\ m.status = IF RecordSent(p) THEN "sent" ELSE "failed"
      BY <1>4, MailsKnown DEF MailRow
    <2>2. mails' = [mails EXCEPT ![at] = m]
      <3>1. CASE RecordSent(p)
        BY <3>1 DEF RecordSent
      <3>2. CASE ~RecordSent(p)
        BY <1>4, <3>2 DEF RecordFailed
      <3> QED BY <3>1, <3>2
    <2>3. SenderGoes(p, RestOf(p)) /\ sender[p].pc = IF RecordSent(p) THEN "sent" ELSE "refused"
      BY <1>4 DEF RecordSent, RecordFailed
    <2> HIDE DEF m
    <2> QED BY <1>3, <2>1, <2>2, <2>3
  <1>5. CASE at \notin MailRows /\ (RecordSent(p) \/ RecordFailed(p))
    <2>1. SenderGoes(p, RestOf(p)) /\ mails' = mails
      BY <1>5, MailsKnown DEF RecordSent, RecordFailed
    <2> QED BY <1>0, <1>1, <2>1, MailsKnown, LettingGoKeepsMails
  <1> QED BY <1>2, <1>4, <1>5

\* What a call of SendEmail makes of its sender: the row is still to be mailed, or recorded.
LEMMA MailEndsTyped ==
    ASSUME MailsInv, NEW p \in Senders, NEW k \in MailRows, NEW pc \in {"sent", "refused"},
           MailEnds(p, k, pc)
    PROVE  \E s \in Sender : SenderGoes(p, s) /\ s.pc = pc /\ s.at = k /\ s.batch = sender[p].batch \ {k}
  <1> DEFINE s == [sender[p] EXCEPT !.pc = pc, !.batch = @ \ {k}, !.at = k, !.via = 1]
  <1>1. sender[p] \in Sender
    BY DEF MailsInv, MailsTyped
  <1>2. /\ sender[p].batch \ {k} \in SUBSET MailRows /\ 1 \in 1 .. Providers
        /\ pc \in {"idle", "sweep", "claim", "next", "sent", "refused"}
        /\ k \in MailRows \cup {NoMailRow}
    BY <1>1 DEF Sender, Providers
  <1>4. s \in Sender /\ s.pc = pc /\ s.at = k /\ s.batch = sender[p].batch \ {k}
    BY <1>1, <1>2 DEF Sender
  <1>3. SenderGoes(p, s)
    BY DEF MailEnds
  <1> QED BY <1>4, <1>3

LEMMA FallBackTyped ==
    ASSUME MailsInv, NEW p \in Senders, NEW k \in MailRows, FallBack(p, k), sender[p].pc = "next"
    PROVE  \E s \in Sender :
              /\ SenderGoes(p, s)
              /\ \/ s.pc = "refused" /\ s.at = k /\ s.batch = sender[p].batch \ {k}
                 \/ s.pc = "next" /\ s.batch = sender[p].batch
  <1>1. CASE sender[p].via < Providers
    <2> DEFINE s == [sender[p] EXCEPT !.at = k, !.via = @ + 1]
    <2>1. sender[p] \in Sender /\ sender[p].via + 1 \in 1 .. Providers
      BY <1>1 DEF MailsInv, MailsTyped, Sender, Providers
    <2>2. s \in Sender /\ s.pc = "next" /\ s.batch = sender[p].batch
      BY <2>1 DEF Sender
    <2>3. SenderGoes(p, s)
      BY <1>1 DEF FallBack
    <2> QED BY <2>2, <2>3
  <1>2. CASE ~(sender[p].via < Providers)
    BY <1>2, MailEndsTyped DEF FallBack
  <1> QED BY <1>1, <1>2

LEMMA LeavingCounted ==
    ASSUME MailsInv, NEW k \in MailRows, MailLeaves(k)
    PROVE  /\ mailLeft' \in [MailRows -> 0 .. 3]
           /\ \A j \in MailRows \ {k} : mailLeft'[j] = mailLeft[j]
           /\ mailLeft[k] = 0 => mailLeft'[k] = 1
  <1>1. PICK n \in 0 .. 3 : mailLeft' = [mailLeft EXCEPT ![k] = n] /\ (mailLeft[k] = 0 => n = 1)
    <2>1. mailLeft[k] \in 0 .. 3
      BY DEF MailsInv, MailsTyped
    <2> DEFINE n == IF mailLeft[k] < 3 THEN mailLeft[k] + 1 ELSE mailLeft[k]
    <2>2. n \in 0 .. 3 /\ (mailLeft[k] = 0 => n = 1)
      BY <2>1
    <2>3. mailLeft' = [mailLeft EXCEPT ![k] = n]
      BY DEF MailLeaves
    <2> HIDE DEF n
    <2> QED BY <2>2, <2>3
  <1> QED BY <1>1 DEF MailsInv, MailsTyped

\* A row that leaves the batch is in the same hand, being mailed; only this row's mail may leave,
\* and when it leaves with an error for an answer nothing is claimed of the row any more.
LEMMA MailingKeepsMails ==
    ASSUME MailsInv, NEW p \in Senders, NEW k \in MailRows,
           SendAccepted(p, k) \/ SendRefused(p, k) \/ AnswerLost(p, k)
    PROVE  MailsInv'
  <1>0. /\ k \in sender[p].batch /\ sender[p].pc = "next" /\ sender[p] \in Sender
        /\ UNCHANGED << reportVars, mails >> /\ MailsTyped
    BY DEF SendAccepted, SendRefused, AnswerLost, Mails, MailsInv, MailsTyped
  <1>1. PICK s \in Sender :
           /\ SenderGoes(p, s)
           /\ \/ s.pc \in {"sent", "refused"} /\ s.at = k /\ s.batch = sender[p].batch \ {k}
              \/ s.pc = "next" /\ s.batch = sender[p].batch
           /\ SendAccepted(p, k) => s.pc = "sent"
           /\ ~SendAccepted(p, k) => s.pc # "sent"
    <2>1. CASE SendAccepted(p, k)
      BY <2>1, MailEndsTyped DEF SendAccepted
    <2>2. CASE ~SendAccepted(p, k)
      <3>1. FallBack(p, k) \/ MailEnds(p, k, "refused")
        BY <2>2 DEF SendRefused, AnswerLost
      <3> QED BY <1>0, <2>2, <3>1, FallBackTyped, MailEndsTyped
    <2> QED BY <2>1, <2>2
  <1>4. sender' \in [Senders -> Sender]
        /\ \A q \in Senders : sender'[q] = IF q = p THEN s ELSE sender[q]
    BY <1>1, SenderAlone
  <1>5. mailLeft' \in [MailRows -> 0 .. 3] /\ \A j \in MailRows \ {k} : mailLeft'[j] = mailLeft[j]
    <2>1. MailLeaves(k) \/ mailLeft' = mailLeft
      BY DEF SendAccepted, SendRefused, AnswerLost
    <2> QED BY <1>0, <2>1, LeavingCounted DEF MailsTyped
  <1>6. /\ mailDoubt' \in {mailDoubt, mailDoubt \cup {k}}
        /\ mailLeft[k] = 0 /\ k \notin mailDoubt' =>
               mailLeft'[k] <= 1 /\ (s.pc # "sent" => mailLeft'[k] = 0)
    <2>1. CASE SendAccepted(p, k)
      BY <1>1, <2>1, LeavingCounted DEF SendAccepted
    <2>2. CASE SendRefused(p, k)
      BY <2>2 DEF SendRefused
    <2>3. CASE AnswerLost(p, k)
      BY <2>3 DEF AnswerLost
    <2> QED BY <2>1, <2>2, <2>3
  <1>7. MailsTyped' /\ RowsOfReports'
    BY <1>0, <1>4, <1>5, <1>6 DEF MailsInv, MailsTyped, RowsOfReports, reportVars
  <1>8. \A q \in Senders, j \in MailRows :
           /\ Holds(q, j)' => Holds(q, j)
           /\ j \in sender'[q].batch => j \in sender[q].batch
           /\ j # k => (Mailing(q, j)' => Mailing(q, j) /\ sender'[q].pc = sender[q].pc)
    BY <1>0, <1>1, <1>4 DEF Holds, Mailing
  <1>9. HeldRowsExist'
    BY <1>0, <1>8 DEF MailsInv, HeldRowsExist
  <1>10. ASSUME NEW j \in MailRows \ mailDoubt' PROVE Calm(j)'
    <2>1. Calm(j)
      BY <1>6 DEF MailsInv
    <2>2. CASE j # k
      <3>1. mails'[j].lease # "over" /\ mails'[j].status = mails[j].status
        BY <1>0, <2>1 DEF Calm
      <3>2. mailLeft'[j] = mailLeft[j]
        BY <1>5, <2>2
      <3> QED BY <1>8, <2>1, <2>2, <3>1, <3>2, LeftAlone
    <2>3. CASE j = k
      <3>1. mails[k].status = "sending" /\ mailLeft[k] = 0 /\ \A q \in Senders : Holds(q, k) => q = p
        BY <1>0, <2>1, <2>3 DEF Calm, Holds
      <3>2. \A q \in Senders : Holds(q, k)' => q = p
        BY <1>8, <3>1
      <3>3. mailLeft'[k] <= 1 /\ (s.pc # "sent" => mailLeft'[k] = 0)
        BY <1>6, <2>3, <3>1
      <3>4. /\ k \in sender'[p].batch => s.pc = "next" /\ ~Mailing(p, k)'
            /\ sender'[p].pc = s.pc
        BY <1>1, <1>4 DEF Mailing
      <3>5. \A q \in Senders :
               /\ k \in sender'[q].batch => mailLeft'[k] = 0 /\ ~Mailing(q, k)'
               /\ Mailing(q, k)' /\ sender'[q].pc = "refused" => mailLeft'[k] = 0
        BY <3>2, <3>3, <3>4 DEF Holds
      <3>6. mails'[k].status = "sending" /\ mails'[k].lease # "over"
        BY <1>0, <2>1, <2>3, <3>1 DEF Calm
      <3> QED BY <2>3, <3>2, <3>3, <3>5, <3>6 DEF Calm
    <2> QED BY <2>2, <2>3
  <1> QED BY <1>0, <1>7, <1>9, <1>10 DEF MailsInv

\* A claim takes rows that wait, or whose lease ran out: nobody else holds the calm ones.
LEMMA ClaimingKeepsMails ==
    ASSUME MailsInv, NEW p \in Senders, claimDue(p)
    PROVE  MailsInv'
  <1>0. MailsTyped /\ sender[p].pc = "claim" /\ UNCHANGED << reportVars, mailLeft, mailDoubt >>
    BY DEF claimDue, MailsInv
  <1>1. PICK S \in SUBSET {k \in MailRows : MailIsDue(mails[k])} :
           /\ mails' = [k \in MailRows |-> IF k \in S
                  THEN [mails[k] EXCEPT !.status = "sending", !.attempts = mails[k].attempts + 1,
                                        !.lease = "running"]
                  ELSE mails[k]]
           /\ SenderGoes(p, IF S = {} THEN NoSender
                    ELSE [NoSender EXCEPT !.pc = "next", !.batch = S,
                                          !.full = Cardinality(S) = BatchSize])
    BY DEF claimDue
  <1>2. PICK s \in Sender : SenderGoes(p, s) /\ s.batch = S /\ s.pc \in {"idle", "next"}
    <2> DEFINE s == [NoSender EXCEPT !.pc = "next", !.batch = S, !.full = Cardinality(S) = BatchSize]
    <2>1. s \in Sender /\ s.batch = S /\ s.pc = "next"
      BY NoSenderTyped DEF NoSender, Sender
    <2> HIDE DEF s
    <2>2. SenderGoes(p, IF S = {} THEN NoSender ELSE s)
      BY <1>1 DEF s
    <2> QED BY <2>1, <2>2, NoSenderTyped
  <1>3. /\ S \subseteq MailRows
        /\ \A k \in S : mails[k].status \in {"pending", "failed"}
                        \/ (mails[k].status = "sending" /\ mails[k].lease = "over")
    BY DEF MailIsDue
  <1>4. ASSUME NEW k \in MailRows
        PROVE  LET m == [mails[k] EXCEPT !.status = "sending", !.attempts = mails[k].attempts + 1,
                                         !.lease = "running"]
               IN  m \in MailRow /\ m.status = "sending" /\ m.lease = "running"
    <2>1. mails[k] \in MailRow /\ mails[k].attempts + 1 \in Nat
      BY MailsKnown DEF MailRow
    <2> QED BY <2>1 DEF MailRow
  <1>5. /\ mails' \in [MailRows -> MailRow]
        /\ \A k \in MailRows : IF k \in S THEN mails'[k].status = "sending" /\ mails'[k].lease = "running"
                               ELSE mails'[k] = mails[k]
    BY <1>1, <1>4, MailsKnown
  <1>6. sender' \in [Senders -> Sender]
        /\ \A q \in Senders : sender'[q] = IF q = p THEN s ELSE sender[q]
    BY <1>2, SenderAlone
  <1>7. MailsTyped'
    BY <1>0, <1>5, <1>6 DEF MailsTyped, reportVars
  <1>8. RowsOfReports' /\ HeldRowsExist'
    <2>1. RowsOfReports'
      BY <1>0, <1>3, <1>5 DEF MailsInv, RowsOfReports, reportVars
    <2>2. HeldRowsExist'
      BY <1>2, <1>5, <1>6 DEF MailsInv, HeldRowsExist, Holds, Mailing
    <2> QED BY <2>1, <2>2
  <1>9. \A q \in Senders, k \in MailRows :
           /\ Holds(q, k)' => (q = p /\ k \in S) \/ (q # p /\ Holds(q, k))
           /\ Mailing(q, k)' => q # p /\ Mailing(q, k) /\ sender'[q].pc = sender[q].pc
           /\ k \in sender'[q].batch => (q = p /\ k \in S) \/ k \in sender[q].batch
    BY <1>2, <1>6 DEF Holds, Mailing
  <1>10. ASSUME NEW k \in MailRows \ mailDoubt PROVE Calm(k)'
    <2>1. Calm(k) /\ mailLeft'[k] = mailLeft[k]
      BY <1>0 DEF MailsInv
    <2>2. CASE k \notin S
      <3>1. mails'[k].lease # "over" /\ mails'[k].status = mails[k].status
        BY <1>5, <2>1, <2>2 DEF Calm
      <3> QED BY <1>9, <2>1, <2>2, <3>1, LeftAlone
    <2>3. CASE k \in S
      <3>1. mails[k].status \in {"pending", "failed"} /\ mailLeft[k] = 0
            /\ \A q \in Senders : ~Holds(q, k)
        BY <1>3, <2>1, <2>3 DEF Calm
      <3>2. \A q \in Senders : (Holds(q, k)' => q = p) /\ ~Mailing(q, k)'
        BY <1>9, <3>1 DEF Holds
      <3>3. mails'[k].status = "sending" /\ mails'[k].lease # "over"
        BY <1>5, <2>3
      <3> QED BY <2>1, <3>1, <3>2, <3>3 DEF Calm
    <2> QED BY <2>2, <2>3
  <1> QED BY <1>0, <1>7, <1>8, <1>10 DEF MailsInv

LEMMA TimeKeepsMails ==
    ASSUME MailsInv, NEW k \in MailRows, RetryDelayEnds(k) \/ LeaseEnds(k)
    PROVE  MailsInv'
  <1>0. UNCHANGED << reportVars, sender, mailLeft >> /\ MailsTyped /\ mails[k] \in MailRow
    BY DEF RetryDelayEnds, LeaseEnds, MailsInv, MailsTyped
  <1>1. PICK r \in MailRow :
           /\ mails' = [mails EXCEPT ![k] = r] /\ r.status = mails[k].status
           /\ \/ r.lease = mails[k].lease /\ mailDoubt' = mailDoubt
              \/ mailDoubt' = mailDoubt \cup {k}
    <2>1. CASE RetryDelayEnds(k)
      <3>1. mails' = [mails EXCEPT ![k] = [mails[k] EXCEPT !.due = TRUE]] /\ mailDoubt' = mailDoubt
        BY <2>1 DEF RetryDelayEnds
      <3>2. /\ [mails[k] EXCEPT !.due = TRUE] \in MailRow
            /\ [mails[k] EXCEPT !.due = TRUE].status = mails[k].status
            /\ [mails[k] EXCEPT !.due = TRUE].lease = mails[k].lease
        BY <1>0 DEF MailRow
      <3> QED BY <3>1, <3>2
    <2>2. CASE LeaseEnds(k)
      <3>1. mails' = [mails EXCEPT ![k] = [mails[k] EXCEPT !.lease = "over"]]
            /\ mailDoubt' = mailDoubt \cup {k}
        BY <2>2 DEF LeaseEnds
      <3>2. /\ [mails[k] EXCEPT !.lease = "over"] \in MailRow
            /\ [mails[k] EXCEPT !.lease = "over"].status = mails[k].status
        BY <1>0 DEF MailRow
      <3> QED BY <3>1, <3>2
    <2> QED BY <2>1, <2>2
  <1>2. /\ mails' \in [MailRows -> MailRow]
        /\ \A j \in MailRows : mails'[j].status = mails[j].status
        /\ \A j \in MailRows \ mailDoubt' : mails'[j].lease = mails[j].lease
    BY <1>0, <1>1 DEF MailsTyped
  <1>3. MailsTyped' /\ RowsOfReports' /\ HeldRowsExist'
    <2>1. mailDoubt' \subseteq MailRows
      BY <1>0, <1>1 DEF MailsTyped
    <2>2. MailsTyped'
      BY <1>0, <1>2, <2>1 DEF MailsTyped, reportVars
    <2>3. RowsOfReports' /\ HeldRowsExist'
      BY <1>0, <1>2 DEF MailsInv, RowsOfReports, HeldRowsExist, Holds, Mailing, reportVars
    <2> QED BY <2>2, <2>3
  <1>4. ASSUME NEW j \in MailRows \ mailDoubt' PROVE Calm(j)'
    <2>1. Calm(j) /\ mailLeft'[j] = mailLeft[j]
      BY <1>0, <1>1 DEF MailsInv
    <2>2. mails'[j].lease # "over" /\ mails'[j].status = mails[j].status
      BY <1>2, <2>1 DEF Calm
    <2> QED BY <1>0, <2>1, <2>2, LeftAlone DEF Mailing
  <1> QED BY <1>3, <1>4 DEF MailsInv

LEMMA MailsInvariant == ReportsSpec => []MailsInv
  <1>1. ReportsInit => MailsInv
    <2> SUFFICES ASSUME ReportsInit PROVE MailsInv
      OBVIOUS
    <2>1. NoMail \in MailRow /\ NoMail.status = "none" /\ NoMail.lease = "none"
      BY DEF NoMail, MailRow
    <2>2. mails \in [MailRows -> MailRow] /\ mailLeft \in [MailRows -> 0 .. 3]
      BY <2>1 DEF ReportsInit
    <2>3. reports \in Seq(Report) /\ mailDoubt = {} /\ sender \in [Senders -> Sender]
      BY NoSenderTyped DEF ReportsInit
    <2>4. submitter \in [Submitters -> Submission]
      <3>1. NoSubmission \in Submission
        BY ReportsAssumption DEF NoSubmission, Submission
      <3> QED BY <3>1 DEF ReportsInit
    <2>5. HeldRowsExist /\ \A k \in MailRows : Calm(k)
      BY <2>1, NoSenderTyped DEF ReportsInit, HeldRowsExist, Calm, Holds, Mailing
    <2>6. RowsOfReports
      BY <2>1 DEF ReportsInit, RowsOfReports
    <2> QED BY <2>2, <2>3, <2>4, <2>5, <2>6 DEF MailsInv, MailsTyped
  <1>2. MailsInv /\ [ReportsNext]_<<reportVars, mailVars>> => MailsInv'
    <2>1. MailsInv /\ UNCHANGED << reportVars, mailVars >> => MailsInv'
      BY DEF reportVars, mailVars, MailsInv, MailsTyped, RowsOfReports, HeldRowsExist, Calm, Holds, Mailing
    <2> QED BY <2>1, SubmittingKeepsMails, StoringKeepsMails, BeginningKeepsMails, EndingKeepsMails,
               MailingKeepsMails, ClaimingKeepsMails, TimeKeepsMails
            DEF ReportsNext, SubmitNext, SenderStep, MailClock
  <1> QED BY <1>1, <1>2, PTL DEF ReportsSpec

\* A recipient is mailed once about a report, for any number of senders that claim, stop, are
\* refused, fall back to other providers and are retried by an administrator, unless a lease ran
\* out or a provider took the mail and answered with an error (claimDue, deliver, SendEmail,
\* RetryFailed).
THEOREM ReportsMailedOnce == ReportsSpec => []MailedOnce
  <1>1. MailsInv => MailedOnce
    BY DEF MailsInv, Calm, MailedOnce
  <1> QED BY <1>1, MailsInvariant, PTL

\* No mail is attempted more often than the code allows, nor are the bounds passed.
MailsRest ==
    /\ Len(reports) <= MaxReports
    /\ \A k \in MailRows : mails[k].attempts <= MaxAttempts
    /\ mailTrouble \in 0 .. MaxMailTrouble

LEMMA MailsRestKept ==
    ASSUME MailsInv, MailsRest, ReportsNext PROVE MailsRest'
  <1>0. /\ MaxReports \in Nat /\ MaxMailTrouble \in Nat /\ MaxAttempts \in Nat
        /\ mails \in [MailRows -> MailRow]
        /\ \A k \in MailRows : mails[k].attempts \in Nat /\ mails[k].attempts <= MaxAttempts
        /\ reports \in Seq(Report) /\ Len(reports) \in Nat /\ Len(reports) <= MaxReports
        /\ mailTrouble \in 0 .. MaxMailTrouble
    BY LimitsAssumption DEF MailsInv, MailsTyped, MailRow, MailsRest
  <1>1. ASSUME UNCHANGED << reports, mails >>,
               \/ UNCHANGED mailTrouble
               \/ mailTrouble < MaxMailTrouble /\ mailTrouble' = mailTrouble + 1
        PROVE  MailsRest'
    BY <1>0, <1>1 DEF MailsRest
  <1>2. ASSUME UNCHANGED reports, mailTrouble' \in 0 .. MaxMailTrouble,
               \A k \in MailRows : mails'[k].attempts <= MaxAttempts
        PROVE  MailsRest'
    BY <1>0, <1>2 DEF MailsRest
  <1>3. ASSUME NEW p \in Submitters, NEW w \in Reporters, NEW s \in Subjects,
               Submit(p, w, s) \/ CheckSubmission(p) \/ SubmissionFails(p)
        PROVE  MailsRest'
    BY <1>1, <1>3 DEF Submit, CheckSubmission, SubmissionFails, mailVars
  <1>4. ASSUME NEW p \in Submitters, NEW R \in SUBSET Recipients, StoreReport(p, R)
        PROVE  MailsRest'
    <2>1. \E x : reports' = Append(reports, x)
      BY <1>4 DEF StoreReport
    <2>2. Len(reports') = Len(reports) + 1 /\ Len(reports) < MaxReports
      BY <1>0, <1>4, <2>1 DEF StoreReport
    <2>3. \A k \in MailRows : mails'[k] = mails[k] \/ mails'[k].attempts = 0
      BY <1>4 DEF StoreReport, NewMail, NoMail
    <2>4. mailTrouble' = mailTrouble
      BY <1>4 DEF StoreReport
    <2> QED BY <1>0, <2>2, <2>3, <2>4 DEF MailsRest
  <1>5. ASSUME NEW i \in DOMAIN reports, ReportAges(i) PROVE MailsRest'
    <2>1. Len(reports') = Len(reports)
      BY <1>0, <1>5 DEF ReportAges
    <2> QED BY <1>0, <1>5, <2>1 DEF ReportAges, mailVars, MailsRest
  <1>6. ASSUME NEW p \in Senders,
               \/ DeliverDue(p) \/ SenderStops(p)
               \/ \E k \in MailRows : SendAccepted(p, k) \/ SendRefused(p, k) \/ AnswerLost(p, k)
        PROVE  MailsRest'
    BY <1>1, <1>6 DEF DeliverDue, SenderStops, SendAccepted, SendRefused, AnswerLost, reportVars
  <1>7. ASSUME NEW p \in Senders, CloseInterrupted(p) \/ RecordSent(p) \/ RecordFailed(p)
        PROVE  MailsRest'
    <2>1. \A k \in MailRows : mails'[k].attempts = mails[k].attempts
      BY <1>0, <1>7 DEF CloseInterrupted, RecordSent, RecordFailed, MailRow
    <2>2. UNCHANGED << reports, mailTrouble >>
      BY <1>7 DEF CloseInterrupted, RecordSent, RecordFailed, reportVars
    <2> QED BY <1>0, <1>2, <2>1, <2>2
  <1>8. ASSUME NEW p \in Senders, claimDue(p) PROVE MailsRest'
    <2>1. PICK S \in SUBSET {k \in MailRows : MailIsDue(mails[k])} :
              mails' = [k \in MailRows |-> IF k \in S
                  THEN [mails[k] EXCEPT !.status = "sending", !.attempts = @ + 1, !.lease = "running"]
                  ELSE mails[k]]
      BY <1>8 DEF claimDue
    <2>2. \A k \in S : mails[k].attempts < MaxAttempts
      BY <2>1 DEF MailIsDue
    <2>3. \A k \in MailRows : mails'[k].attempts =
              IF k \in S THEN mails[k].attempts + 1 ELSE mails[k].attempts
      BY <1>0, <2>1 DEF MailRow
    <2>4. UNCHANGED << reports, mailTrouble >>
      BY <1>8 DEF claimDue, reportVars
    <2> QED BY <1>0, <1>2, <2>2, <2>3, <2>4
  <1>9. ASSUME NEW p \in Senders, NEW i \in 1 .. MaxReports, RetryFailed(p, i) PROVE MailsRest'
    <2>1. \A k \in MailRows : mails'[k] = mails[k] \/ mails'[k].attempts = 0
      BY <1>9 DEF RetryFailed, NewMail, NoMail
    <2>2. reports' = reports /\ mailTrouble' \in 0 .. MaxMailTrouble
      BY <1>0, <1>9 DEF RetryFailed, reportVars
    <2> QED BY <1>0, <1>2, <2>1, <2>2
  <1>10. ASSUME NEW k \in MailRows, RetryDelayEnds(k) \/ LeaseEnds(k) PROVE MailsRest'
    <2>1. \A j \in MailRows : mails'[j].attempts = mails[j].attempts
      <3>1. CASE RetryDelayEnds(k)
        <4>1. \A j \in MailRows : mails'[j] = IF j = k THEN [mails[j] EXCEPT !.due = TRUE] ELSE mails[j]
          BY <1>0, <3>1 DEF RetryDelayEnds
        <4> QED BY <1>0, <4>1 DEF MailRow
      <3>2. CASE LeaseEnds(k)
        <4>1. \A j \in MailRows : mails'[j] = IF j = k THEN [mails[j] EXCEPT !.lease = "over"] ELSE mails[j]
          BY <1>0, <3>2 DEF LeaseEnds
        <4> QED BY <1>0, <4>1 DEF MailRow
      <3> QED BY <1>10, <3>1, <3>2
    <2>2. UNCHANGED << reports, mailTrouble >>
      BY <1>10 DEF RetryDelayEnds, LeaseEnds, reportVars
    <2> QED BY <1>0, <1>2, <2>1, <2>2
  <1> QED BY <1>3, <1>4, <1>5, <1>6, <1>7, <1>8, <1>9, <1>10, ReportsAssumption
          DEF ReportsNext, SubmitNext, SenderStep, MailClock

\* Reports and mails keep their types, for any reporters, recipients and senders; in particular
\* a mail is attempted at most as often as the code allows between two retries by an
\* administrator, whoever claims it (claimDue, RetryFailed).
THEOREM ReportsStayTyped == ReportsSpec => []ReportsTypeOK
  <1>1. ReportsInit => MailsRest
    BY LimitsAssumption DEF ReportsInit, MailsRest, NoMail
  <1>2. MailsInv /\ MailsRest /\ [ReportsNext]_<<reportVars, mailVars>> => MailsRest'
    BY MailsRestKept DEF reportVars, mailVars, MailsRest
  <1>3. MailsInv /\ MailsRest => ReportsTypeOK
    <2> SUFFICES ASSUME MailsInv, MailsRest PROVE ReportsTypeOK
      OBVIOUS
    <2>1. \A k \in MailRows : mails[k] \in Mail
      BY LimitsAssumption DEF MailsInv, MailsTyped, MailsRest, MailRow, Mail
    <2>2. mails \in [MailRows -> Mail]
      BY <2>1 DEF MailsInv, MailsTyped
    <2> QED BY <2>2 DEF MailsInv, MailsTyped, MailsRest, ReportsTypeOK
  <1> QED BY <1>1, <1>2, <1>3, MailsInvariant, PTL DEF ReportsSpec

-----------------------------------------------------------------------------
(* The restaurant menu *)

\* Only a check that announced the menu of the day records it.
RecordsWhatIsQueued == \A c \in Checkers : checker[c].pc = "record" => menuPushes[Today] = 1

MenuInv == MenuTypeOK /\ MenuAnnouncedOnce /\ RecordsWhatIsQueued

USE DEF pageVars, allergenHistory

LEMMA NoCheckerTyped == NoChecker \in Checker /\ NoChecker.pc = "idle"
  BY MenuAssumption DEF NoChecker, Checker

\* A step of a check leaves the others alone.
LEMMA CheckerAlone ==
    ASSUME MenuTypeOK, NEW c \in Checkers, NEW k \in Checker, CheckerGoes(c, k)
    PROVE  /\ checker' \in [Checkers -> Checker]
           /\ checker'[c] = k
           /\ \A d \in Checkers \ {c} : checker'[d] = checker[d]
  BY DEF MenuTypeOK, CheckerGoes

\* A set of days that is not empty has a last one.
LEMMA LastOfDays ==
    ASSUME NEW S \in SUBSET MenuDays, S # {}
    PROVE  \E d \in S : \A e \in S : e <= d
  <1> DEFINE After(d) == {e \in S : e > d}
             T == {After(d) : d \in S}
  <1>1. IsFiniteSet(S)
    <2>1. IsFiniteSet(MenuDays)
      BY FS_Interval, MenuAssumption DEF MenuDays
    <2> QED
      BY <2>1, FS_Subset
  <1>2. IsWellFoundedOn(StrictSubsetOrdering(S), SUBSET S)
    BY <1>1, FS_StrictSubsetOrderingWellFounded, FS_FiniteSubsetsOfFinite
  <1>3. T \subseteq SUBSET S /\ T # {}
    OBVIOUS
  <1>4. PICK U \in T : \A V \in T : << V, U >> \notin StrictSubsetOrdering(S)
    <2> HIDE DEF T
    <2> QED
      BY <1>2, <1>3, WFMin
  <1>5. PICK d \in S : U = After(d)
    OBVIOUS
  <1>6. ASSUME NEW e \in S PROVE e <= d
    <2> SUFFICES ASSUME e > d PROVE FALSE
      BY MenuAssumption DEF MenuDays
    <2>1. \A f \in S : f \in Nat
      BY MenuAssumption DEF MenuDays
    <2>3. e \in After(d) /\ e \notin After(e) /\ After(e) \subseteq After(d)
      BY <2>1
    <2>2. After(e) \in SUBSET S /\ U \in SUBSET S /\ After(e) \in T
      OBVIOUS
    <2> QED
      BY <1>4, <1>5, <2>2, <2>3 DEF StrictSubsetOrdering
  <1> QED
    BY <1>6

LEMMA LatestTyped == LatestDay \in 0 .. LastDay
  <1> DEFINE S == {d \in MenuDays : meals[d] # {}}
  <1>1. CASE S = {}
    BY <1>1, MenuAssumption DEF LatestDay
  <1>2. CASE S # {}
    <2>1. PICK d \in S : \A e \in S : e <= d
      <3>1. S \in SUBSET MenuDays
        OBVIOUS
      <3> HIDE DEF S
      <3> QED
        BY <1>2, <3>1, LastOfDays
    <2>2. meals[d] # {} /\ \A e \in MenuDays : e > d => meals[e] = {}
      BY <2>1, MenuAssumption DEF MenuDays
    <2>3. LatestDay \in MenuDays
      BY <2>2 DEF LatestDay
    <2> QED
      BY <2>3, MenuAssumption DEF MenuDays
  <1> QED
    BY <1>1, <1>2

LEMMA AfterItemTyped ==
    ASSUME NEW k \in Checker
    PROVE  /\ AfterItem(k) \in Checker
           /\ AfterItem(k).pc \in {"obsolete", "items"}
  BY DEF AfterItem, Checker

\* The record a comparison leaves when the names differ.
Compared(k, pc, far, n) ==
    [k EXCEPT !.pc = pc, !.left = k.fetched, !.fetched = {}, !.latest = n, !.far = far]

LEMMA ComparedTyped ==
    ASSUME NEW k \in Checker, NEW pc \in {"items", "obsolete"}, NEW far \in BOOLEAN,
           NEW n \in 0 .. LastDay
    PROVE  /\ Compared(k, pc, far, n) \in Checker
           /\ Compared(k, pc, far, n).pc = pc
           /\ Compared(k, pc, far, n).code = k.code
  BY DEF Compared, Checker

LEMMA ComparingEnds ==
    ASSUME MenuTypeOK, NEW c \in Checkers, CompareMenus(c)
    PROVE  \/ CheckerGoes(c, NoChecker)
           \/ \E pc \in {"items", "obsolete"}, far \in BOOLEAN, n \in 0 .. LastDay :
                  CheckerGoes(c, Compared(checker[c], pc, far, n))
  <1> DEFINE new == Names(checker[c].fetched)
             old == IF checker[c].latest = 0 THEN {} ELSE Names(meals[checker[c].latest])
             stage == IF checker[c].fetched = {} THEN "obsolete" ELSE "items"
  <1>1. \/ CheckerGoes(c, NoChecker)
        \/ CheckerGoes(c, Compared(checker[c], stage, IsFar(new, old), 0))
    BY DEF CompareMenus, Compared
  <1>2. IsFar(new, old) \in BOOLEAN /\ 0 \in 0 .. LastDay /\ stage \in {"items", "obsolete"}
    BY MenuAssumption DEF IsFar
  <1> HIDE DEF new, old, stage
  <1> QED
    BY <1>1, <1>2

\* The steps that neither announce nor record.
MenuQuietly ==
    /\ menuDay' = menuDay /\ menuPushes' = menuPushes /\ recorded' = recorded

LEMMA QuietKeepsMenu ==
    ASSUME MenuInv, NEW c \in Checkers, NEW k \in Checker, CheckerGoes(c, k), MenuQuietly,
           k.pc # "record",
           UNCHANGED pageVars, menuChanges' = menuChanges,
           storedWith' \subseteq MenuItems \X Codes,
           meals' \in [MenuDays -> SUBSET MenuItems], codeRows' \subseteq Codes,
           links' \subseteq Dishes \X Codes, lostLinks' \subseteq Dishes \X Codes,
           menuTrouble' \in 0 .. MaxMenuTrouble
    PROVE  MenuInv'
  <1>1. /\ checker' \in [Checkers -> Checker] /\ checker'[c] = k
        /\ \A d \in Checkers \ {c} : checker'[d] = checker[d]
    BY CheckerAlone DEF MenuInv
  <1>2. MenuTypeOK'
    BY <1>1 DEF MenuInv, MenuTypeOK, MenuQuietly
  <1>3. MenuAnnouncedOnce'
    BY DEF MenuInv, MenuAnnouncedOnce, MenuQuietly
  <1>4. RecordsWhatIsQueued'
    BY <1>1 DEF MenuInv, RecordsWhatIsQueued, MenuQuietly, Today
  <1> QED
    BY <1>2, <1>3, <1>4 DEF MenuInv

LEMMA TroubleTyped ==
    ASSUME MenuTypeOK
    PROVE  /\ UNCHANGED menuTrouble => menuTrouble' \in 0 .. MaxMenuTrouble
           /\ MenuTrouble => menuTrouble' \in 0 .. MaxMenuTrouble
  BY MenuAssumption DEF MenuTypeOK, MenuTrouble

LEMMA CheckerRowsTyped ==
    ASSUME MenuTypeOK, NEW c \in Checkers
    PROVE  checker[c] \in Checker
  BY DEF MenuTypeOK

\* Reading the page and comparing it.
LEMMA ComparingKeepsMenu ==
    ASSUME MenuInv, NEW c \in Checkers, FetchMenu(c) \/ FindLatest(c) \/ CompareMenus(c)
    PROVE  MenuInv'
  <1> USE CheckerRowsTyped, TroubleTyped, NoCheckerTyped DEF MenuInv
  <1>1. CASE FetchMenu(c)
    <2>1. [NoChecker EXCEPT !.pc = "latest", !.fetched = source, !.page = sourceCodes] \in Checker
      BY DEF Checker, MenuTypeOK
    <2> QED
      BY <1>1, <2>1, QuietKeepsMenu DEF FetchMenu, MenuQuietly, MenuTypeOK, Checker
  <1>2. CASE FindLatest(c)
    <2>1. [checker[c] EXCEPT !.pc = "compare", !.latest = LatestDay] \in Checker
      BY LatestTyped DEF Checker
    <2> QED
      BY <1>2, <2>1, QuietKeepsMenu DEF FindLatest, MenuQuietly, MenuTypeOK, Checker
  <1>3. CASE CompareMenus(c)
    <2>1. PICK s \in Checker : CheckerGoes(c, s) /\ s.pc # "record"
      BY <1>3, ComparingEnds, ComparedTyped
    <2> QED
      BY <1>3, <2>1, QuietKeepsMenu DEF CompareMenus, MenuQuietly, MenuTypeOK
  <1> QED
    BY <1>1, <1>2, <1>3

\* Storing the articles, their codes and their meals.
LEMMA StoringKeepsMenu ==
    ASSUME MenuInv, NEW c \in Checkers,
           \/ \E i \in MenuItems : UpsertArticle(c, i)
           \/ LookUpCode(c) \/ CreateCode(c) \/ LinkCode(c) \/ InsertMeal(c)
           \/ CodeFails(c) \/ ItemFails(c) \/ CheckStops(c)
    PROVE  MenuInv'
  <1> USE CheckerRowsTyped, TroubleTyped, NoCheckerTyped DEF MenuInv
  <1>1. ASSUME NEW i \in MenuItems, UpsertArticle(c, i) PROVE MenuInv'
    <2>1. i[2] \in Dishes
      BY DEF MenuItems
    <2>2. [checker[c] EXCEPT !.pc = "codes", !.left = @ \ {i}, !.at = {i},
                             !.codes = CodesOf(checker[c], i), !.done = @ \cup {i[2]}] \in Checker
      BY <2>1 DEF Checker, CodesOf
    <2> QED
      BY <1>1, <2>2, QuietKeepsMenu DEF UpsertArticle, MenuQuietly, MenuTypeOK, Checker
  <1>2. CASE LookUpCode(c)
    <2>1. PICK r \in Checker : r = checker[c]
      OBVIOUS
    <2>2. CheckerGoes(c, [r EXCEPT !.pc = "meal"])
            \/ \E x \in r.codes, p \in {"link", "create"} :
                  CheckerGoes(c, [r EXCEPT !.pc = p, !.codes = @ \ {x}, !.code = {x}])
      BY <1>2, <2>1 DEF LookUpCode
    <2>3. PICK s \in Checker : CheckerGoes(c, s) /\ s.pc # "record"
      <3>1. CASE CheckerGoes(c, [r EXCEPT !.pc = "meal"])
        <4>1. /\ [r EXCEPT !.pc = "meal"] \in Checker
              /\ [r EXCEPT !.pc = "meal"].pc # "record"
          BY DEF Checker
        <4> QED
          BY <3>1, <4>1
      <3>2. ASSUME NEW x \in r.codes, NEW p \in {"link", "create"},
                   CheckerGoes(c, [r EXCEPT !.pc = p, !.codes = @ \ {x}, !.code = {x}])
            PROVE  \E s \in Checker : CheckerGoes(c, s) /\ s.pc # "record"
        <4>1. /\ [r EXCEPT !.pc = p, !.codes = @ \ {x}, !.code = {x}] \in Checker
              /\ [r EXCEPT !.pc = p, !.codes = @ \ {x}, !.code = {x}].pc # "record"
          BY DEF Checker
        <4> QED
          BY <3>2, <4>1
      <3> QED
        BY <2>2, <3>1, <3>2
    <2> QED
      BY <1>2, <2>3, QuietKeepsMenu DEF LookUpCode, MenuQuietly, MenuTypeOK
  <1>3. LinksAt(checker[c]) \subseteq Dishes \X Codes /\ checker[c].code \subseteq Codes
    BY DEF LinksAt, Names, MenuItems, Checker
  <1>4. [checker[c] EXCEPT !.pc = "codes", !.code = {}] \in Checker
    BY DEF Checker
  <1>5. CASE CreateCode(c)
    <2>1. [checker[c] EXCEPT !.pc = "link"] \in Checker
      BY DEF Checker
    <2>2. PICK s \in Checker : CheckerGoes(c, s) /\ s.pc # "record"
      BY <1>5, <2>1, <1>4 DEF CreateCode, Checker
    <2>3. codeRows' \subseteq Codes /\ lostLinks' \subseteq Dishes \X Codes
      BY <1>5, <1>3 DEF CreateCode, MenuTypeOK
    <2> QED
      BY <1>5, <2>2, <2>3, QuietKeepsMenu DEF CreateCode, MenuQuietly, MenuTypeOK
  <1>6. CASE LinkCode(c)
    BY <1>6, <1>3, <1>4, QuietKeepsMenu DEF LinkCode, MenuQuietly, MenuTypeOK, Checker
  <1>7. CASE CodeFails(c)
    BY <1>7, <1>3, <1>4, QuietKeepsMenu DEF CodeFails, MenuQuietly, MenuTypeOK, Checker
  <1>8. CASE InsertMeal(c)
    <2>1. checker[c].at \subseteq MenuItems
      BY DEF Checker
    <2>2. meals' \in [MenuDays -> SUBSET MenuItems]
      BY <1>8, <2>1 DEF InsertMeal, InsertsMeals, MenuTypeOK
    <2>3. storedWith' \subseteq MenuItems \X Codes
      BY <1>8 DEF InsertMeal, InsertsMeals, MenuTypeOK, Checker
    <2> QED
      BY <1>8, <2>2, <2>3, AfterItemTyped, QuietKeepsMenu DEF InsertMeal, MenuQuietly, MenuTypeOK
  <1>9. CASE ItemFails(c)
    <2>1. \A i \in checker[c].left : [checker[c] EXCEPT !.left = @ \ {i}] \in Checker
      BY DEF Checker
    <2>2. PICK s \in Checker : CheckerGoes(c, s) /\ s.pc # "record"
      BY <1>9, <2>1, AfterItemTyped DEF ItemFails
    <2> QED
      BY <1>9, <2>2, QuietKeepsMenu DEF ItemFails, MenuQuietly, MenuTypeOK
  <1>10. CASE CheckStops(c)
    BY <1>10, QuietKeepsMenu DEF CheckStops, MenuQuietly, MenuTypeOK
  <1> QED
    BY <1>1, <1>2, <1>5, <1>6, <1>7, <1>8, <1>9, <1>10

\* The obsolete meals, and the notification.
LEMMA NotifyingKeepsMenu ==
    ASSUME MenuInv, NEW c \in Checkers,
           RemoveObsolete(c) \/ DecideNotification(c) \/ AnnounceMenu(c) \/ RecordNotification(c)
    PROVE  MenuInv'
  <1> USE CheckerRowsTyped, TroubleTyped, NoCheckerTyped DEF MenuInv
  <1>1. CASE RemoveObsolete(c)
    <2>1. [checker[c] EXCEPT !.pc = "decide"] \in Checker
      BY DEF Checker
    <2>2. meals' \in [MenuDays -> SUBSET MenuItems]
      BY <1>1 DEF RemoveObsolete, MenuTypeOK
    <2>3. menuTrouble' \in 0 .. MaxMenuTrouble
      BY <1>1 DEF RemoveObsolete
    <2> QED
      BY <1>1, <2>1, <2>2, <2>3, QuietKeepsMenu DEF RemoveObsolete, MenuQuietly, MenuTypeOK, Checker
  <1>2. CASE DecideNotification(c)
    <2>1. [NoChecker EXCEPT !.pc = "announce"] \in Checker
      BY DEF Checker
    <2>2. PICK s \in Checker : CheckerGoes(c, s) /\ s.pc # "record"
      BY <1>2, <2>1 DEF DecideNotification, Checker
    <2> QED
      BY <1>2, <2>2, QuietKeepsMenu DEF DecideNotification, MenuQuietly, MenuTypeOK
  <1>3. CASE AnnounceMenu(c)
    <2>1. Today \in MenuDays /\ Today' = Today
      BY <1>3 DEF MenuTypeOK, Today, AnnounceMenu
    <2>2. \A d \in MenuDays : menuPushes[d] \in 0 .. 1
      BY DEF MenuTypeOK, MenuAnnouncedOnce
    <2>3. PICK s \in Checker : CheckerGoes(c, s) /\ (s.pc = "record" => QueueMenu(Today))
      <3>1. [checker[c] EXCEPT !.pc = "record"] \in Checker
        BY DEF Checker
      <3> QED
        BY <1>3, <3>1 DEF AnnounceMenu
    <2>4. \A d \in MenuDays : /\ menuPushes'[d] \in 0 .. 1
                              /\ menuPushes[d] = 1 => menuPushes'[d] = 1
                              /\ QueueMenu(Today) => menuPushes'[Today] = 1
      BY <1>3, <2>1, <2>2 DEF AnnounceMenu, QueueMenu, MenuTypeOK
    <2>5. menuPushes' \in [MenuDays -> 0 .. 2]
      BY <1>3, <2>4 DEF AnnounceMenu, QueueMenu, MenuTypeOK
    <2>6. /\ checker' \in [Checkers -> Checker] /\ checker'[c] = s
          /\ \A d \in Checkers \ {c} : checker'[d] = checker[d]
      BY <2>3, CheckerAlone
    <2>7. menuTrouble' \in 0 .. MaxMenuTrouble
      BY <1>3 DEF AnnounceMenu
    <2>8. MenuTypeOK'
      BY <1>3, <2>5, <2>6, <2>7 DEF AnnounceMenu, MenuTypeOK
    <2>9. MenuAnnouncedOnce'
      BY <1>3, <2>4 DEF AnnounceMenu, MenuAnnouncedOnce
    <2>10. RecordsWhatIsQueued'
      BY <2>1, <2>3, <2>4, <2>6 DEF RecordsWhatIsQueued
    <2> QED
      BY <2>8, <2>9, <2>10
  <1>4. CASE RecordNotification(c)
    <2>1. Today \in MenuDays /\ Today' = Today /\ menuPushes[Today] = 1
      BY <1>4 DEF MenuTypeOK, Today, RecordNotification, RecordsWhatIsQueued
    <2>2. /\ checker' \in [Checkers -> Checker] /\ checker'[c] = NoChecker
          /\ \A d \in Checkers \ {c} : checker'[d] = checker[d]
      BY <1>4, CheckerAlone DEF RecordNotification
    <2>3. MenuTypeOK'
      BY <1>4, <2>1, <2>2 DEF RecordNotification, MenuTypeOK
    <2>4. MenuAnnouncedOnce'
      BY <1>4, <2>1 DEF RecordNotification, MenuAnnouncedOnce
    <2>5. RecordsWhatIsQueued'
      BY <1>4, <2>1, <2>2 DEF RecordNotification, RecordsWhatIsQueued
    <2> QED
      BY <2>3, <2>4, <2>5
  <1> QED
    BY <1>1, <1>2, <1>3, <1>4

\* The caterer and the calendar: no check lives to see another day.
LEMMA CalendarKeepsMenu ==
    ASSUME MenuInv, EditPage \/ DayGoesBy
    PROVE  MenuInv'
  <1> USE DEF MenuInv
  <1>1. CASE EditPage
    <2>1. menuChanges' \in 0 .. MaxMenuChanges
      BY <1>1, MenuAssumption DEF EditPage, MenuTypeOK
    <2> QED
      BY <1>1, <2>1 DEF EditPage, MenuTypeOK, MenuAnnouncedOnce, RecordsWhatIsQueued, Today
  <1>2. CASE DayGoesBy
    <2>1. menuDay' \in [no : MenuDays, hour : {"early", "late"}]
      BY <1>2, MenuAssumption DEF DayGoesBy, MenuTypeOK, MenuDays
    <2>2. MenuTypeOK' /\ MenuAnnouncedOnce'
      BY <1>2, <2>1 DEF DayGoesBy, MenuTypeOK, MenuAnnouncedOnce
    <2>3. RecordsWhatIsQueued'
      <3>1. \/ menuDay'.no = menuDay.no
            \/ \A c \in Checkers : checker[c].pc = "idle"
        BY <1>2 DEF DayGoesBy, MenuTypeOK
      <3> QED
        BY <1>2, <3>1 DEF DayGoesBy, RecordsWhatIsQueued, Today
    <2> QED
      BY <2>2, <2>3
  <1> QED
    BY <1>1, <1>2

LEMMA MenuInvariant == MenuSpec => []MenuInv
  <1>1. MenuInit => MenuInv
    <2> SUFFICES ASSUME MenuInit PROVE MenuInv
      OBVIOUS
    <2>1. MenuTypeOK
      BY MenuAssumption, NoCheckerTyped DEF MenuInit, MenuTypeOK, MenuDays
    <2>2. MenuAnnouncedOnce /\ RecordsWhatIsQueued
      BY NoCheckerTyped DEF MenuInit, MenuAnnouncedOnce, RecordsWhatIsQueued
    <2> QED
      BY <2>1, <2>2 DEF MenuInv
  <1>2. MenuInv /\ [MenuNext]_menuVars => MenuInv'
    <2> SUFFICES ASSUME MenuInv, [MenuNext]_menuVars PROVE MenuInv'
      OBVIOUS
    <2>1. CASE EditPage \/ DayGoesBy
      BY <2>1, CalendarKeepsMenu
    <2>2. ASSUME NEW c \in Checkers,
                 CheckerStep(c) \/ CodeFails(c) \/ ItemFails(c) \/ CheckStops(c)
          PROVE  MenuInv'
      BY <2>2, ComparingKeepsMenu, StoringKeepsMenu, NotifyingKeepsMenu DEF CheckerStep
    <2>3. CASE UNCHANGED menuVars
      BY <2>3 DEF menuVars, MenuInv, MenuTypeOK, MenuAnnouncedOnce, RecordsWhatIsQueued, Today
    <2> QED
      BY <2>1, <2>2, <2>3 DEF MenuNext
  <1> QED
    BY <1>1, <1>2, PTL DEF MenuSpec

\* Overlapping checks and lost answers make one announcement a day (sendMenuUpdateNotification),
\* because the second row of a day is not stored, and only a check that stored or found the row
\* records the day.
THEOREM MenuOncePerDay == MenuSpec => []MenuAnnouncedOnce
  <1>1. MenuInv => MenuAnnouncedOnce
    BY DEF MenuInv
  <1> QED
    BY <1>1, MenuInvariant, PTL

\* A check follows its stages with the items, codes and days it knows.
THEOREM MenuTyped == MenuSpec => []MenuTypeOK
  <1>1. MenuInv => MenuTypeOK
    BY DEF MenuInv
  <1> QED
    BY <1>1, MenuInvariant, PTL

\* No day that is still to come is recorded.
RecordedIsPast == \A d \in recorded : d <= Today

\* Everything but the calendar, the announcement and the record is quiet.
LEMMA ChecksAreQuiet ==
    ASSUME NEW c \in Checkers, CheckerStep(c) \/ CodeFails(c) \/ ItemFails(c) \/ CheckStops(c),
           ~AnnounceMenu(c), ~RecordNotification(c)
    PROVE  MenuQuietly
  <1>1. CASE \/ FetchMenu(c) \/ FindLatest(c) \/ CompareMenus(c) \/ LookUpCode(c)
             \/ \E i \in MenuItems : UpsertArticle(c, i)
    BY <1>1 DEF FetchMenu, FindLatest, CompareMenus, LookUpCode, UpsertArticle, MenuQuietly
  <1>2. CASE CreateCode(c) \/ LinkCode(c) \/ CodeFails(c)
    BY <1>2 DEF CreateCode, LinkCode, CodeFails, MenuQuietly
  <1>3. CASE InsertMeal(c) \/ RemoveObsolete(c) \/ DecideNotification(c)
    BY <1>3 DEF InsertMeal, RemoveObsolete, DecideNotification, MenuQuietly
  <1>4. CASE ItemFails(c) \/ CheckStops(c)
    BY <1>4 DEF ItemFails, CheckStops, MenuQuietly
  <1> QED BY <1>1, <1>2, <1>3, <1>4 DEF CheckerStep

LEMMA RecordedStaysPast ==
    ASSUME MenuInv, RecordedIsPast, MenuNext PROVE RecordedIsPast'
  <1>0. Today \in Nat /\ \A d \in recorded : d \in Nat /\ d <= Today
    BY MenuAssumption DEF MenuInv, MenuTypeOK, MenuDays, Today, RecordedIsPast
  <1>1. CASE EditPage
    BY <1>1 DEF EditPage, RecordedIsPast, Today
  <1>2. CASE DayGoesBy
    <2>1. recorded' = recorded /\ menuDay'.no \in Nat /\ menuDay.no <= menuDay'.no
      BY <1>0, <1>2 DEF DayGoesBy, Today, MenuInv, MenuTypeOK
    <2> QED BY <1>0, <2>1 DEF RecordedIsPast, Today
  <1>3. ASSUME NEW c \in Checkers, CheckerStep(c) \/ CodeFails(c) \/ ItemFails(c) \/ CheckStops(c)
        PROVE  RecordedIsPast'
    <2>1. menuDay' = menuDay /\ (recorded' = recorded \/ recorded' = recorded \cup {Today})
      BY <1>3, ChecksAreQuiet DEF MenuQuietly, AnnounceMenu, RecordNotification
    <2> QED BY <1>0, <2>1 DEF RecordedIsPast, Today
  <1> QED BY <1>1, <1>2, <1>3 DEF MenuNext

\* What each step is, seen from outside.
LEMMA MenuStepsOutside ==
    ASSUME MenuInv, RecordedIsPast, MenuNext
    PROVE  [MenuBox!OutboxNext]_(MenuBox!outboxVars)
  <1>0. /\ Today \in MenuDays /\ \A d \in MenuDays : d \in Nat
        /\ \A d \in recorded : d \in MenuDays /\ d <= Today
        /\ menuPushes \in [MenuDays -> 0 .. 1]
    BY MenuAssumption DEF MenuInv, MenuTypeOK, MenuAnnouncedOnce, MenuDays, Today, RecordedIsPast
  <1>1. ASSUME MenuQuietly PROVE UNCHANGED MenuBox!outboxVars
    BY <1>1 DEF MenuQuietly, MenuStanding, Today, MenuBox!outboxVars
  <1>2. CASE EditPage
    BY <1>1, <1>2 DEF EditPage, MenuQuietly
  <1>3. CASE DayGoesBy
    <2>1. CASE menuDay'.no = menuDay.no
      BY <1>3, <2>1 DEF DayGoesBy, MenuStanding, Today, MenuBox!outboxVars
    <2>2. CASE menuDay'.no # menuDay.no
      <3>1. PICK d \in MenuDays : d = menuDay.no + 1
        BY <1>0, <1>3, <2>2, MenuAssumption DEF DayGoesBy, MenuDays, Today, MenuInv, MenuTypeOK
      <3>2. menuDay'.no = d /\ UNCHANGED << recorded, menuPushes >> /\ Today = menuDay.no
        BY <1>3, <2>2, <3>1 DEF DayGoesBy, Today, MenuInv, MenuTypeOK
      <3>3. MenuStanding(d) = "unknown"
        BY <1>0, <3>1, <3>2 DEF MenuStanding
      <3>4. \A e \in MenuDays : MenuStanding(e)' = IF e \in {d} THEN "waiting" ELSE MenuStanding(e)
        <4>1. ASSUME NEW e \in MenuDays PROVE (e > menuDay'.no) <=> (e > Today /\ e # d)
          BY <1>0, <3>1, <3>2
        <4>2. d \notin recorded
          BY <1>0, <3>1, <3>2
        <4>3. Today' = menuDay'.no
          BY DEF Today
        <4> QED BY <3>2, <3>3, <4>1, <4>2, <4>3 DEF MenuStanding
      <3>5. menuPushes' = [e \in MenuDays |-> IF e \in {} THEN 1 ELSE menuPushes[e]]
        BY <1>0, <3>2
      <3>6. MenuBox!Enter({d}, {}, {})
        BY <3>3, <3>4, <3>5 DEF MenuBox!Enter
      <3>7. {d} \in SUBSET MenuDays /\ {} \in SUBSET MenuDays /\ {} \in SUBSET {d}
        OBVIOUS
      <3> QED BY <3>6, <3>7 DEF MenuBox!OutboxNext
    <2> QED BY <2>1, <2>2
  <1>4. ASSUME NEW c \in Checkers, AnnounceMenu(c)
        PROVE  [MenuBox!OutboxNext]_(MenuBox!outboxVars)
    <2>1. /\ menuDay' = menuDay /\ recorded' = recorded
          /\ \/ UNCHANGED menuPushes
             \/ menuPushes[Today] = 0 /\ menuPushes' = [menuPushes EXCEPT ![Today] = 1]
      BY <1>0, <1>4 DEF AnnounceMenu, QueueMenu
    <2>2. CASE UNCHANGED menuPushes
      BY <1>1, <2>1, <2>2 DEF MenuQuietly
    <2>3. CASE menuPushes[Today] = 0 /\ menuPushes' = [menuPushes EXCEPT ![Today] = 1]
      <3>1. PICK d \in MenuDays : d = Today
        BY <1>0
      <3>2. MenuStanding(d) \notin {"unknown", "set_aside"}
        BY <1>0, <3>1 DEF MenuStanding
      <3>3. \A e \in MenuDays : MenuStanding(e)' = MenuStanding(e)
        BY <2>1 DEF MenuStanding, Today
      <3>4. MenuBox!Tell(d)
        BY <2>3, <3>1, <3>2, <3>3 DEF MenuBox!Tell
      <3> QED BY <3>4 DEF MenuBox!OutboxNext
    <2> QED BY <2>1, <2>2, <2>3
  <1>5. ASSUME NEW c \in Checkers, RecordNotification(c)
        PROVE  [MenuBox!OutboxNext]_(MenuBox!outboxVars)
    <2>1. /\ UNCHANGED << menuDay, menuPushes >> /\ recorded' = recorded \cup {Today}
          /\ menuPushes[Today] = 1
      BY <1>5 DEF RecordNotification, MenuInv, RecordsWhatIsQueued
    <2>2. CASE Today \in recorded
      <3>1. recorded' = recorded
        BY <2>1, <2>2
      <3> QED BY <1>1, <2>1, <3>1 DEF MenuQuietly
    <2>3. CASE Today \notin recorded
      <3>1. PICK d \in MenuDays : d = Today
        BY <1>0
      <3>2. MenuStanding(d) = "waiting" /\ menuPushes[d] = 1
        BY <1>0, <2>1, <2>3, <3>1 DEF MenuStanding
      <3>3. \A e \in MenuDays : MenuStanding(e)' = IF e \in {d} THEN "sent" ELSE MenuStanding(e)
        BY <2>1, <3>1 DEF MenuStanding, Today
      <3>4. MenuBox!RecordSent({d})
        BY <2>1, <3>2, <3>3 DEF MenuBox!RecordSent, MenuBox!Stand
      <3>5. \E S \in SUBSET MenuDays :
                MenuBox!RecordSent(S) \/ MenuBox!GiveUp(S) \/ MenuBox!Withdraw(S)
        <4> WITNESS {d} \in SUBSET MenuDays
        <4> QED BY <3>4
      <3> QED BY <3>5 DEF MenuBox!OutboxNext
    <2> QED BY <2>2, <2>3
  <1>6. ASSUME NEW c \in Checkers, CheckerStep(c) \/ CodeFails(c) \/ ItemFails(c) \/ CheckStops(c)
        PROVE  [MenuBox!OutboxNext]_(MenuBox!outboxVars)
    BY <1>1, <1>4, <1>5, <1>6, ChecksAreQuiet
  <1> QED BY <1>2, <1>3, <1>6 DEF MenuNext

\* The checks implement Outbox, for any number of overlapping checks and of days: a day's menu
\* is announced once and not before its day, and recorded only when it was
\* (AnnounceMenu, RecordNotification: sendMenuUpdateNotification).
THEOREM MenuImplementsTheOutbox == MenuSpec => MenuKeepsTheOutbox
  <1>1. MenuInit => RecordedIsPast /\ MenuBox!OutboxInit
    <2> SUFFICES ASSUME MenuInit PROVE RecordedIsPast /\ MenuBox!OutboxInit
      OBVIOUS
    <2>1. recorded = {} /\ menuPushes = [d \in MenuDays |-> 0]
      BY DEF MenuInit
    <2>2. \A d \in MenuDays : MenuStanding(d) \in {"unknown", "waiting"}
      BY <2>1 DEF MenuStanding
    <2> QED BY <2>1, <2>2 DEF RecordedIsPast, MenuBox!OutboxInit
  <1>2. MenuInv /\ RecordedIsPast /\ [MenuNext]_menuVars => RecordedIsPast'
    BY RecordedStaysPast DEF RecordedIsPast, Today, menuVars
  <1>3. MenuInv /\ RecordedIsPast /\ [MenuNext]_menuVars
        => [MenuBox!OutboxNext]_(MenuBox!outboxVars)
    <2>1. UNCHANGED menuVars => UNCHANGED MenuBox!outboxVars
      BY DEF menuVars, MenuStanding, Today, MenuBox!outboxVars
    <2> QED BY <2>1, MenuStepsOutside
  <1> QED BY <1>1, <1>2, <1>3, MenuInvariant, PTL
          DEF MenuSpec, MenuKeepsTheOutbox, MenuBox!OutboxSpec

\* What is known of a code of a dish: it is shown, or it was given up.
Accounted(d, x) == << d, x >> \in lostLinks \/ (x \in codeRows /\ << d, x >> \in links)

\* A check has seen to every code its item came with but those left and the one in its hand.
CodesSeenTo(k) ==
    /\ k.pc \in {"codes", "create", "link", "meal"} =>
          \A i \in k.at : \A x \in CodesOf(k, i) \ (k.codes \cup k.code) : Accounted(i[2], x)
    /\ k.pc = "codes" => k.code = {}
    /\ k.pc = "items" => k.code = {}
    /\ k.pc = "link" => k.code \subseteq codeRows
    /\ k.pc = "meal" => k.codes = {} /\ k.code = {}
    /\ k.pc \in {"idle", "latest", "compare"} => k.code = {}

MealsSeenTo ==
    \A i \in MenuItems, x \in Codes : << i, x >> \in storedWith => Accounted(i[2], x)

AllergensInv == MealsSeenTo /\ \A c \in Checkers : CodesSeenTo(checker[c])

\* Codes, links and what was given up only grow.
NothingForgotten == codeRows \subseteq codeRows' /\ links \subseteq links' /\ lostLinks \subseteq lostLinks'

LEMMA StaysAccounted ==
    ASSUME NothingForgotten, NEW d, NEW x, Accounted(d, x)
    PROVE  Accounted(d, x)'
  BY DEF NothingForgotten, Accounted

LEMMA StaysSeenTo ==
    ASSUME NothingForgotten, NEW k, CodesSeenTo(k)
    PROVE  /\ k.pc \in {"codes", "create", "link", "meal"} =>
                 \A i \in k.at : \A x \in CodesOf(k, i) \ (k.codes \cup k.code) : Accounted(i[2], x)'
           /\ k.pc = "link" => k.code \subseteq codeRows'
  BY StaysAccounted DEF CodesSeenTo, NothingForgotten

\* The record a step leaves has seen to its codes.
SeenToNext(k) ==
    /\ k.pc \in {"codes", "create", "link", "meal"} =>
          \A i \in k.at : \A x \in CodesOf(k, i) \ (k.codes \cup k.code) : Accounted(i[2], x)'
    /\ k.pc = "codes" => k.code = {}
    /\ k.pc = "items" => k.code = {}
    /\ k.pc = "link" => k.code \subseteq codeRows'
    /\ k.pc = "meal" => k.codes = {} /\ k.code = {}
    /\ k.pc \in {"idle", "latest", "compare"} => k.code = {}

LEMMA ChecksKeepAllergens ==
    ASSUME MenuTypeOK, AllergensInv, NothingForgotten,
           NEW c \in Checkers, NEW k \in Checker, CheckerGoes(c, k), SeenToNext(k),
           \A i \in MenuItems, x \in Codes :
               << i, x >> \in storedWith' => << i, x >> \in storedWith \/ Accounted(i[2], x)
    PROVE  AllergensInv'
  <1>1. /\ checker'[c] = k
        /\ \A d \in Checkers \ {c} : checker'[d] = checker[d]
    BY CheckerAlone
  <1>2. MealsSeenTo'
    BY StaysAccounted DEF AllergensInv, MealsSeenTo
  <1>3. ASSUME NEW d \in Checkers PROVE CodesSeenTo(checker[d])'
    <2>1. SeenToNext(checker'[d])
      <3>1. CASE d = c
        BY <1>1, <3>1
      <3>2. CASE d # c
        BY <1>1, <3>2, StaysSeenTo DEF AllergensInv, CodesSeenTo, SeenToNext
      <3> QED
        BY <3>1, <3>2
    <2> QED
      BY <2>1 DEF SeenToNext, CodesSeenTo, Accounted
  <1> QED
    BY <1>2, <1>3 DEF AllergensInv

LEMMA QuietRecords ==
    /\ SeenToNext(NoChecker)
    /\ \A k : k.pc \in {"obsolete", "decide", "announce", "record"} => SeenToNext(k)
  BY DEF SeenToNext, NoChecker

\* The steps that insert no meal, no code and no link.
ShelvesAsTheyWere == UNCHANGED << codeRows, links, lostLinks, storedWith >>

LEMMA ShelvesKept ==
    ASSUME ShelvesAsTheyWere
    PROVE  /\ NothingForgotten
           /\ storedWith' = storedWith
           /\ \A d, x : Accounted(d, x) <=> Accounted(d, x)'
  BY DEF ShelvesAsTheyWere, NothingForgotten, Accounted

LEMMA ComparingKeepsAllergens ==
    ASSUME MenuTypeOK, AllergensInv, NEW c \in Checkers,
           FetchMenu(c) \/ FindLatest(c) \/ CompareMenus(c)
    PROVE  AllergensInv'
  <1> USE CheckerRowsTyped, NoCheckerTyped
  <1>1. ShelvesAsTheyWere
    BY DEF FetchMenu, FindLatest, CompareMenus, ShelvesAsTheyWere
  <1>2. CASE FetchMenu(c)
    <2> DEFINE k == [NoChecker EXCEPT !.pc = "latest", !.fetched = source, !.page = sourceCodes]
    <2>1. k \in Checker
      BY DEF Checker, MenuTypeOK
    <2>2. SeenToNext(k)
      BY DEF SeenToNext, NoChecker
    <2>3. CheckerGoes(c, k)
      BY <1>2 DEF FetchMenu
    <2> HIDE DEF k
    <2> QED
      BY <2>1, <2>2, <2>3, <1>1, ShelvesKept, ChecksKeepAllergens
  <1>3. CASE FindLatest(c)
    <2> DEFINE k == [checker[c] EXCEPT !.pc = "compare", !.latest = LatestDay]
    <2>1. k \in Checker /\ k.pc = "compare" /\ k.code = checker[c].code
      BY LatestTyped DEF Checker
    <2>2. SeenToNext(k)
      BY <1>3, <2>1 DEF SeenToNext, FindLatest, AllergensInv, CodesSeenTo
    <2>3. CheckerGoes(c, k)
      BY <1>3 DEF FindLatest
    <2> HIDE DEF k
    <2> QED
      BY <2>1, <2>2, <2>3, <1>1, ShelvesKept, ChecksKeepAllergens
  <1>4. CASE CompareMenus(c)
    <2>1. CASE CheckerGoes(c, NoChecker)
      BY <2>1, <1>1, QuietRecords, ShelvesKept, ChecksKeepAllergens
    <2>2. ASSUME NEW pc \in {"items", "obsolete"}, NEW far \in BOOLEAN, NEW n \in 0 .. LastDay,
                 CheckerGoes(c, Compared(checker[c], pc, far, n))
          PROVE  AllergensInv'
      <3> DEFINE k == Compared(checker[c], pc, far, n)
      <3>1. k \in Checker /\ k.pc = pc /\ k.code = checker[c].code
        BY ComparedTyped
      <3>2. CheckerGoes(c, k)
        BY <2>2
      <3> HIDE DEF k
      <3>3. SeenToNext(k)
        BY <1>4, <3>1 DEF SeenToNext, CompareMenus, AllergensInv, CodesSeenTo
      <3> QED
        BY <3>1, <3>2, <3>3, <1>1, ShelvesKept, ChecksKeepAllergens
    <2> QED
      BY <1>4, <2>1, <2>2, ComparingEnds
  <1> QED
    BY <1>2, <1>3, <1>4

\* An article takes all the codes it came with; a code looked up is in the hand.
LEMMA ArticlesKeepAllergens ==
    ASSUME MenuTypeOK, AllergensInv, NEW c \in Checkers,
           (\E i \in MenuItems : UpsertArticle(c, i)) \/ LookUpCode(c)
    PROVE  AllergensInv'
  <1> USE CheckerRowsTyped
  <1>1. ShelvesAsTheyWere
    BY DEF UpsertArticle, LookUpCode, ShelvesAsTheyWere
  <1>2. ASSUME NEW i \in MenuItems, UpsertArticle(c, i) PROVE AllergensInv'
    <2> DEFINE k == [checker[c] EXCEPT !.pc = "codes", !.left = @ \ {i}, !.at = {i},
                                       !.codes = CodesOf(checker[c], i), !.done = @ \cup {i[2]}]
    <2>1. i[2] \in Dishes
      BY DEF MenuItems
    <2>2. /\ k \in Checker /\ k.pc = "codes" /\ k.code = checker[c].code
          /\ k.at = {i} /\ k.codes = CodesOf(k, i)
      BY <2>1 DEF Checker, CodesOf
    <2>3. CheckerGoes(c, k)
      BY <1>2 DEF UpsertArticle
    <2>4. SeenToNext(k)
      BY <1>2, <2>2 DEF SeenToNext, UpsertArticle, AllergensInv, CodesSeenTo
    <2> HIDE DEF k
    <2> QED
      BY <2>2, <2>3, <2>4, <1>1, ShelvesKept, ChecksKeepAllergens
  <1>3. CASE LookUpCode(c)
    <2>1. CodesSeenTo(checker[c]) /\ checker[c].pc = "codes"
      BY <1>3 DEF AllergensInv, LookUpCode
    <2>2. ASSUME NEW x \in checker[c].codes,
                 CheckerGoes(c, [checker[c] EXCEPT !.pc = IF x \in codeRows THEN "link" ELSE "create",
                                     !.codes = @ \ {x}, !.code = {x}])
          PROVE  AllergensInv'
      <3> DEFINE k == [checker[c] EXCEPT !.pc = IF x \in codeRows THEN "link" ELSE "create",
                                         !.codes = @ \ {x}, !.code = {x}]
      <3>0. /\ k \in Checker /\ k.codes = checker[c].codes \ {x} /\ k.at = checker[c].at
            /\ \A i : CodesOf(k, i) = CodesOf(checker[c], i)
            /\ k.pc = IF x \in codeRows THEN "link" ELSE "create"
            /\ k.code = {x}
        <4>1. x \in Codes
          BY DEF Checker
        <4>2. CASE x \in codeRows
          BY <4>1, <4>2 DEF Checker, CodesOf
        <4>3. CASE x \notin codeRows
          BY <4>1, <4>3 DEF Checker, CodesOf
        <4> QED
          BY <4>2, <4>3
      <3>1. k.codes \cup k.code = checker[c].codes
        BY <3>0
      <3>2. CheckerGoes(c, k)
        BY <2>2
      <3> HIDE DEF k
      <3>3. \A i \in k.at : \A y \in CodesOf(k, i) \ (k.codes \cup k.code) : Accounted(i[2], y)'
        BY <2>1, <3>0, <3>1, <1>1, ShelvesKept DEF CodesSeenTo
      <3>4. SeenToNext(k)
        BY <3>0, <3>3, <1>1 DEF SeenToNext, ShelvesAsTheyWere
      <3> QED
        BY <3>0, <3>2, <3>4, <1>1, ShelvesKept, ChecksKeepAllergens
    <2>3. CASE checker[c].codes = {} /\ CheckerGoes(c, [checker[c] EXCEPT !.pc = "meal"])
      <3> DEFINE k == [checker[c] EXCEPT !.pc = "meal"]
      <3>1. /\ k \in Checker /\ k.codes = {} /\ k.code = {} /\ k.at = checker[c].at
            /\ k.pc = "meal" /\ \A i : CodesOf(k, i) = CodesOf(checker[c], i)
        BY <2>1, <2>3 DEF Checker, CodesSeenTo, CodesOf
      <3>2. CheckerGoes(c, k)
        BY <2>3
      <3> HIDE DEF k
      <3>3. SeenToNext(k)
        BY <2>1, <2>3, <3>1, <1>1, ShelvesKept DEF SeenToNext, CodesSeenTo
      <3> QED
        BY <3>1, <3>2, <3>3, <1>1, ShelvesKept, ChecksKeepAllergens
    <2> QED
      BY <1>3, <2>2, <2>3 DEF LookUpCode
  <1> QED
    BY <1>2, <1>3

\* A code leaves the hand when it is linked, or given up.
LEMMA CodesKeepAllergens ==
    ASSUME MenuTypeOK, AllergensInv, NEW c \in Checkers, CreateCode(c) \/ LinkCode(c) \/ CodeFails(c)
    PROVE  AllergensInv'
  <1> DEFINE r == checker[c]
             k == [r EXCEPT !.pc = "codes", !.code = {}]
  <1>1. r \in Checker /\ CodesSeenTo(r) /\ r.pc \in {"create", "link"}
    BY CheckerRowsTyped DEF AllergensInv, CreateCode, LinkCode, CodeFails
  <1>2. NothingForgotten /\ storedWith' = storedWith
    BY DEF CreateCode, LinkCode, CodeFails, NothingForgotten
  <1>3. ASSUME CheckerGoes(c, k),
               \A d \in Names(r.at), x \in r.code : Accounted(d, x)'
        PROVE  AllergensInv'
    <2>1. /\ k \in Checker /\ k.pc = "codes" /\ k.code = {} /\ k.at = r.at /\ k.codes = r.codes
          /\ \A i : CodesOf(k, i) = CodesOf(r, i)
      BY <1>1 DEF Checker, CodesOf
    <2>2. \A i \in r.at : i[2] \in Names(r.at)
      BY DEF Names
    <2>3. \A i \in r.at : \A x \in CodesOf(r, i) \ r.codes : Accounted(i[2], x)'
      BY <1>1, <1>2, <1>3, <2>2, StaysAccounted DEF CodesSeenTo
    <2> HIDE DEF k
    <2>4. SeenToNext(k)
      BY <2>1, <2>3 DEF SeenToNext
    <2> QED
      BY <1>2, <1>3, <2>1, <2>4, ChecksKeepAllergens
  <1>4. ASSUME CheckerGoes(c, [r EXCEPT !.pc = "link"]), r.pc = "create",
               codeRows' = codeRows \cup r.code
        PROVE  AllergensInv'
    <2> DEFINE l == [r EXCEPT !.pc = "link"]
    <2>1. /\ l \in Checker /\ l.pc = "link" /\ l.code = r.code /\ l.at = r.at /\ l.codes = r.codes
          /\ \A i : CodesOf(l, i) = CodesOf(r, i)
      BY <1>1 DEF Checker, CodesOf
    <2>2. CheckerGoes(c, l)
      BY <1>4
    <2> HIDE DEF l
    <2>3. \A i \in l.at : \A x \in CodesOf(l, i) \ (l.codes \cup l.code) : Accounted(i[2], x)'
      BY <1>1, <1>2, <2>1, StaysAccounted DEF CodesSeenTo
    <2>4. SeenToNext(l)
      BY <1>4, <2>1, <2>3 DEF SeenToNext
    <2> QED
      BY <1>2, <2>1, <2>2, <2>4, ChecksKeepAllergens
  <1>5. ASSUME lostLinks' = lostLinks \cup LinksAt(r)
        PROVE  \A d \in Names(r.at), x \in r.code : Accounted(d, x)'
    BY <1>5 DEF LinksAt, Accounted
  <1>6. ASSUME links' = links \cup LinksAt(r), r.pc = "link", codeRows' = codeRows
        PROVE  \A d \in Names(r.at), x \in r.code : Accounted(d, x)'
    BY <1>1, <1>6 DEF LinksAt, Accounted, CodesSeenTo
  <1> QED
    BY <1>3, <1>4, <1>5, <1>6 DEF CreateCode, LinkCode, CodeFails

\* A meal is stored when its item has no code left; what ends a check or an item stores none.
LEMMA MealsKeepAllergens ==
    ASSUME MenuTypeOK, AllergensInv, NEW c \in Checkers,
           \/ InsertMeal(c) \/ ItemFails(c) \/ CheckStops(c) \/ RemoveObsolete(c)
           \/ DecideNotification(c) \/ AnnounceMenu(c) \/ RecordNotification(c)
    PROVE  AllergensInv'
  <1> USE CheckerRowsTyped, NoCheckerTyped
  <1>1. checker[c] \in Checker /\ CodesSeenTo(checker[c])
    BY DEF AllergensInv
  <1>2. ASSUME NEW k \in Checker, k.pc \in {"items", "meal"}, k.code = {}
        PROVE  AfterItem(k) \in Checker /\ SeenToNext(AfterItem(k))
    <2>1. AfterItem(k).pc \in {"obsolete", "items"} /\ AfterItem(k).code = {}
      BY <1>2, AfterItemTyped DEF AfterItem, Checker
    <2> QED
      BY <1>2, <2>1, AfterItemTyped DEF SeenToNext
  <1>3. CASE InsertMeal(c)
    <2>1. checker[c].pc = "meal" /\ CheckerGoes(c, AfterItem(checker[c]))
      BY <1>3 DEF InsertMeal
    <2>2. \A i \in checker[c].at : \A x \in CodesOf(checker[c], i) : Accounted(i[2], x)
      BY <1>1, <2>1 DEF CodesSeenTo
    <2>3. \A i \in MenuItems, x \in Codes :
              << i, x >> \in storedWith' =>
                  \/ << i, x >> \in storedWith
                  \/ i \in checker[c].at /\ x \in CodesOf(checker[c], i)
      BY <1>3 DEF InsertMeal, InsertsMeals, CodesOf
    <2>4. NothingForgotten
      BY <1>3 DEF InsertMeal, NothingForgotten
    <2>5. checker[c].code = {}
      BY <1>1, <2>1 DEF CodesSeenTo
    <2> QED
      BY <1>1, <1>2, <2>1, <2>2, <2>3, <2>4, <2>5, ChecksKeepAllergens
  <1>4. CASE ItemFails(c)
    <2>1. ShelvesAsTheyWere
      BY <1>4 DEF ItemFails, ShelvesAsTheyWere
    <2>2. ASSUME NEW i \in checker[c].left, checker[c].pc = "items"
          PROVE  LET k == [checker[c] EXCEPT !.left = @ \ {i}]
                 IN k \in Checker /\ k.pc = "items" /\ k.code = {}
      BY <1>1, <2>2 DEF Checker, CodesSeenTo
    <2>3. checker[c].pc = "meal" => checker[c].code = {}
      BY <1>1 DEF CodesSeenTo
    <2>4. PICK s \in Checker : CheckerGoes(c, s) /\ SeenToNext(s)
      BY <1>1, <1>2, <1>4, <2>2, <2>3 DEF ItemFails
    <2> QED
      BY <2>1, <2>4, ShelvesKept, ChecksKeepAllergens
  <1>5. CASE CheckStops(c)
    <2>1. ShelvesAsTheyWere /\ CheckerGoes(c, NoChecker)
      BY <1>5 DEF CheckStops, ShelvesAsTheyWere
    <2> QED
      BY <2>1, QuietRecords, ShelvesKept, ChecksKeepAllergens
  <1>6. CASE RemoveObsolete(c)
    <2>1. ShelvesAsTheyWere
      BY <1>6 DEF RemoveObsolete, ShelvesAsTheyWere, MenuTypeOK
    <2> DEFINE k == [checker[c] EXCEPT !.pc = "decide"]
    <2>2. k \in Checker /\ k.pc = "decide" /\ CheckerGoes(c, k)
      BY <1>6 DEF RemoveObsolete, Checker
    <2> HIDE DEF k
    <2> QED
      BY <2>1, <2>2, QuietRecords, ShelvesKept, ChecksKeepAllergens
  <1>7. CASE DecideNotification(c)
    <2>1. ShelvesAsTheyWere
      BY <1>7 DEF DecideNotification, ShelvesAsTheyWere
    <2> DEFINE k == [NoChecker EXCEPT !.pc = "announce"]
    <2>2. k \in Checker /\ k.pc = "announce"
      BY DEF Checker
    <2>3. CheckerGoes(c, k) \/ CheckerGoes(c, NoChecker)
      BY <1>7 DEF DecideNotification
    <2> HIDE DEF k
    <2> QED
      BY <2>1, <2>2, <2>3, QuietRecords, ShelvesKept, ChecksKeepAllergens
  <1>8. CASE AnnounceMenu(c)
    <2>1. ShelvesAsTheyWere
      BY <1>8 DEF AnnounceMenu, ShelvesAsTheyWere
    <2> DEFINE k == [checker[c] EXCEPT !.pc = "record"]
    <2>2. k \in Checker /\ k.pc = "record"
      BY DEF Checker
    <2>3. CheckerGoes(c, k) \/ CheckerGoes(c, NoChecker)
      BY <1>8 DEF AnnounceMenu
    <2> HIDE DEF k
    <2> QED
      BY <2>1, <2>2, <2>3, QuietRecords, ShelvesKept, ChecksKeepAllergens
  <1>9. CASE RecordNotification(c)
    <2>1. ShelvesAsTheyWere /\ CheckerGoes(c, NoChecker)
      BY <1>9 DEF RecordNotification, ShelvesAsTheyWere
    <2> QED
      BY <2>1, QuietRecords, ShelvesKept, ChecksKeepAllergens
  <1> QED
    BY <1>3, <1>4, <1>5, <1>6, <1>7, <1>8, <1>9

LEMMA AllergensInvariant == MenuSpec => [](MenuInv /\ AllergensInv)
  <1>1. MenuInit => AllergensInv
    BY DEF MenuInit, AllergensInv, MealsSeenTo, CodesSeenTo, NoChecker
  <1>2. MenuInv /\ AllergensInv /\ [MenuNext]_menuVars => AllergensInv'
    <2> SUFFICES ASSUME MenuInv, AllergensInv, [MenuNext]_menuVars PROVE AllergensInv'
      OBVIOUS
    <2>1. MenuTypeOK
      BY DEF MenuInv
    <2>2. CASE EditPage \/ DayGoesBy \/ UNCHANGED menuVars
      BY <2>2 DEF EditPage, DayGoesBy, menuVars, AllergensInv, MealsSeenTo, CodesSeenTo, Accounted
    <2>3. ASSUME NEW c \in Checkers,
                 CheckerStep(c) \/ CodeFails(c) \/ ItemFails(c) \/ CheckStops(c)
          PROVE  AllergensInv'
      BY <2>1, <2>3, ComparingKeepsAllergens, ArticlesKeepAllergens, CodesKeepAllergens,
         MealsKeepAllergens DEF CheckerStep
    <2> QED
      BY <2>2, <2>3 DEF MenuNext
  <1> QED
    BY <1>1, <1>2, MenuInvariant, PTL DEF MenuSpec

\* A dish that is shown comes with every code the page gave it when a check stored it, whatever
\* checks overlap: a meal is inserted when every code of its article was linked or given up
\* (menu_repository.go:467).
THEOREM DishesShowAllergens == MenuSpec => []AllergensShown
  <1>1. MenuInv /\ AllergensInv => AllergensShown
    <2> SUFFICES ASSUME MenuInv, AllergensInv, NEW i \in meals[Today], NEW x \in Codes,
                        << i, x >> \in storedWith
                 PROVE  << i[2], x >> \in lostLinks \/ x \in ShownCodes(i[2])
      BY DEF AllergensShown, ShownToday
    <2>1. i \in MenuItems
      BY DEF MenuInv, MenuTypeOK
    <2>2. Accounted(i[2], x)
      BY <2>1 DEF AllergensInv, MealsSeenTo
    <2> QED
      BY <2>2 DEF Accounted, ShownCodes
  <1> QED
    BY <1>1, AllergensInvariant, PTL

-----------------------------------------------------------------------------
(* Limits of the reports *)

RecentOf(w) == {i \in ReportsOf(w) : reports[i].age = "recent"}

\* The lock of a reporter is held by one submission, which stores what its check found new and
\* within the limits.
OneSubmission ==
    \A p, q \in Submitters :
        submitter[p].pc # "idle" /\ submitter[q].pc # "idle" /\ submitter[p].who = submitter[q].who
            => p = q

WithinLimits(w) == Cardinality(RecentOf(w)) < BurstLimit /\ Cardinality(ReportsOf(w)) < DayLimit

StoresAreChecked ==
    \A p \in Submitters : submitter[p].pc = "store" =>
        /\ ~IsDuplicate(submitter[p].who, submitter[p].subject)
        /\ WithinLimits(submitter[p].who)

InOrder(w) ==
    /\ \A i, j \in ReportsOf(w) : reports[i].subject = reports[j].subject => i = j
    /\ Cardinality(RecentOf(w)) <= BurstLimit
    /\ Cardinality(ReportsOf(w)) <= DayLimit

SubmissionsTyped == reports \in Seq(Report) /\ submitter \in [Submitters -> Submission]

OrderInv == SubmissionsTyped /\ OneSubmission /\ StoresAreChecked /\ \A w \in Reporters : InOrder(w)

LEMMA ReportsFinite ==
    ASSUME SubmissionsTyped, NEW w \in Reporters
    PROVE  /\ IsFiniteSet(ReportsOf(w)) /\ IsFiniteSet(RecentOf(w))
           /\ Cardinality(ReportsOf(w)) \in Nat /\ Cardinality(RecentOf(w)) \in Nat
           /\ ReportsOf(w) \subseteq DOMAIN reports
  <1>1. IsFiniteSet(DOMAIN reports)
    <2>1. DOMAIN reports = 1 .. Len(reports) /\ Len(reports) \in Nat
      BY DEF SubmissionsTyped
    <2> QED
      BY <2>1, FS_Interval
  <1>2. ReportsOf(w) \in SUBSET DOMAIN reports /\ RecentOf(w) \in SUBSET ReportsOf(w)
    BY DEF ReportsOf, RecentOf
  <1>3. IsFiniteSet(ReportsOf(w))
    BY <1>1, <1>2, FS_Subset
  <1>4. IsFiniteSet(RecentOf(w))
    BY <1>2, <1>3, FS_Subset
  <1> QED
    BY <1>2, <1>3, <1>4, FS_CardinalityType

LEMMA NoSubmissionTyped == NoSubmission \in Submission /\ NoSubmission.pc = "idle"
  BY ReportsAssumption DEF NoSubmission, Submission

\* The rows are the same: what was said of them stays.
LEMMA RowsAsTheyWere ==
    ASSUME reports' = reports, NEW w
    PROVE  /\ ReportsOf(w)' = ReportsOf(w) /\ RecentOf(w)' = RecentOf(w)
           /\ InOrder(w) => InOrder(w)'
           /\ WithinLimits(w) => WithinLimits(w)'
           /\ \A s : IsDuplicate(w, s)' => IsDuplicate(w, s)
  <1>1. ReportsOf(w)' = ReportsOf(w)
    BY DEF ReportsOf
  <1>2. RecentOf(w)' = RecentOf(w)
    BY <1>1 DEF RecentOf
  <1> QED
    BY <1>1, <1>2 DEF InOrder, WithinLimits, IsDuplicate

LEMMA TakingKeepsOrder ==
    ASSUME OrderInv, NEW p \in Submitters, NEW w \in Reporters, NEW s \in Subjects, Submit(p, w, s)
    PROVE  OrderInv'
  <1> DEFINE new == [pc |-> "check", who |-> w, subject |-> s]
  <1>1. new \in Submission /\ new.pc = "check" /\ new.who = w
    BY DEF Submission
  <1>2. /\ submitter' \in [Submitters -> Submission] /\ submitter'[p] = new
        /\ \A q \in Submitters \ {p} : submitter'[q] = submitter[q]
        /\ reports' = reports
    BY <1>1 DEF Submit, OrderInv, SubmissionsTyped
  <1> HIDE DEF new
  <1>3. OneSubmission'
    BY <1>1, <1>2 DEF Submit, ReporterBusy, OrderInv, OneSubmission
  <1>4. StoresAreChecked'
    BY <1>1, <1>2, RowsAsTheyWere DEF OrderInv, StoresAreChecked
  <1>5. \A v \in Reporters : InOrder(v)'
    BY <1>2, RowsAsTheyWere DEF OrderInv
  <1> QED
    BY <1>2, <1>3, <1>4, <1>5 DEF OrderInv, SubmissionsTyped

LEMMA CheckingKeepsOrder ==
    ASSUME OrderInv, NEW p \in Submitters, CheckSubmission(p)
    PROVE  OrderInv'
  <1> DEFINE q == submitter[p]
             k == [q EXCEPT !.pc = "store"]
             passes == ~IsDuplicate(q.who, q.subject) /\ ~rateLimited(q.who)
  <1>1. q \in Submission /\ q.pc = "check" /\ q.who \in Reporters
    BY DEF CheckSubmission, OrderInv, SubmissionsTyped, Submission
  <1>2. k \in Submission /\ k.pc = "store" /\ k.who = q.who /\ k.subject = q.subject
    BY <1>1 DEF Submission
  <1>3. reports' = reports
    BY DEF CheckSubmission
  <1>4. passes => WithinLimits(q.who)
    <2>1. Cardinality(ReportsOf(q.who)) \in Nat /\ Cardinality(RecentOf(q.who)) \in Nat
      BY <1>1, ReportsFinite DEF OrderInv
    <2>2. rateLimited(q.who) <=> \/ Cardinality(RecentOf(q.who)) >= BurstLimit
                                \/ Cardinality(ReportsOf(q.who)) >= DayLimit
      BY DEF rateLimited, RecentOf
    <2> QED
      BY <2>1, <2>2, LimitsAssumption DEF WithinLimits
  <1>5. PICK n \in Submission :
            /\ submitter' = [submitter EXCEPT ![p] = n]
            /\ n.pc = "idle" \/ (passes /\ n.pc = "store" /\ n.who = q.who /\ n.subject = q.subject)
    BY <1>2, NoSubmissionTyped DEF CheckSubmission
  <1>6. /\ submitter' \in [Submitters -> Submission] /\ submitter'[p] = n
        /\ \A o \in Submitters \ {p} : submitter'[o] = submitter[o]
    BY <1>5 DEF OrderInv, SubmissionsTyped
  <1>7. OneSubmission'
    BY <1>1, <1>5, <1>6 DEF OrderInv, OneSubmission
  <1>8. StoresAreChecked'
    <2> SUFFICES ASSUME NEW o \in Submitters, submitter'[o].pc = "store"
                 PROVE  (~IsDuplicate(submitter[o].who, submitter[o].subject)
                            /\ WithinLimits(submitter[o].who))'
      BY DEF StoresAreChecked
    <2>1. CASE o = p
      BY <1>3, <1>4, <1>5, <1>6, <2>1, RowsAsTheyWere
    <2>2. CASE o # p
      BY <1>3, <1>6, <2>2, RowsAsTheyWere DEF OrderInv, StoresAreChecked
    <2> QED
      BY <2>1, <2>2
  <1>9. \A v \in Reporters : InOrder(v)'
    BY <1>3, RowsAsTheyWere DEF OrderInv
  <1> QED
    BY <1>3, <1>6, <1>7, <1>8, <1>9 DEF OrderInv, SubmissionsTyped

LEMMA FailingKeepsOrder ==
    ASSUME OrderInv, NEW p \in Submitters, SubmissionFails(p)
    PROVE  OrderInv'
  <1>1. /\ submitter' \in [Submitters -> Submission] /\ submitter'[p].pc = "idle"
        /\ \A o \in Submitters \ {p} : submitter'[o] = submitter[o]
        /\ reports' = reports
    BY NoSubmissionTyped DEF SubmissionFails, OrderInv, SubmissionsTyped
  <1>2. OneSubmission'
    BY <1>1 DEF OrderInv, OneSubmission
  <1>3. StoresAreChecked'
    BY <1>1, RowsAsTheyWere DEF OrderInv, StoresAreChecked
  <1>4. \A v \in Reporters : InOrder(v)'
    BY <1>1, RowsAsTheyWere DEF OrderInv
  <1> QED
    BY <1>1, <1>2, <1>3, <1>4 DEF OrderInv, SubmissionsTyped

\* What is stored is one more row of its reporter, and of nobody else.
LEMMA StoringKeepsOrder ==
    ASSUME OrderInv, NEW p \in Submitters, NEW R \in SUBSET Recipients, StoreReport(p, R)
    PROVE  OrderInv'
  <1> DEFINE q == submitter[p]
             row == [who |-> q.who, subject |-> q.subject, age |-> "recent"]
             n == Len(reports) + 1
  <1>1. /\ q \in Submission /\ q.pc = "store" /\ q.who \in Reporters /\ q.subject \in Subjects
        /\ ~IsDuplicate(q.who, q.subject) /\ WithinLimits(q.who)
    BY DEF StoreReport, OrderInv, SubmissionsTyped, Submission, StoresAreChecked
  <1>2. /\ submitter' \in [Submitters -> Submission] /\ submitter'[p].pc = "idle"
        /\ \A o \in Submitters \ {p} : submitter'[o] = submitter[o]
    BY NoSubmissionTyped DEF StoreReport, OrderInv, SubmissionsTyped
  <1>3. row \in Report /\ row.who = q.who /\ row.subject = q.subject /\ row.age = "recent"
    BY <1>1 DEF Report
  <1>4. reports \in Seq(Report) /\ reports' = Append(reports, row)
    BY DEF StoreReport, OrderInv, SubmissionsTyped
  <1> HIDE DEF row
  <1>5. /\ reports' \in Seq(Report) /\ n \in DOMAIN reports' /\ n \notin DOMAIN reports
        /\ DOMAIN reports' = DOMAIN reports \cup {n} /\ reports'[n] = row
        /\ \A i \in DOMAIN reports : reports'[i] = reports[i]
    BY <1>3, <1>4
  <1> HIDE DEF n
  <1>6. ASSUME NEW w \in Reporters, w # q.who
        PROVE  ReportsOf(w)' = ReportsOf(w) /\ RecentOf(w)' = RecentOf(w)
    BY <1>3, <1>5, <1>6 DEF ReportsOf, RecentOf
  <1>7. ASSUME NEW w \in Reporters, w = q.who
        PROVE  /\ ReportsOf(w)' = ReportsOf(w) \cup {n} /\ RecentOf(w)' = RecentOf(w) \cup {n}
               /\ n \notin ReportsOf(w) /\ n \notin RecentOf(w)
    <2>1. ReportsOf(w)' = ReportsOf(w) \cup {n} /\ n \notin ReportsOf(w)
      BY <1>3, <1>5, <1>7 DEF ReportsOf
    <2>2. RecentOf(w) \subseteq DOMAIN reports /\ ReportsOf(w) \subseteq DOMAIN reports
      BY DEF ReportsOf, RecentOf
    <2>3. RecentOf(w)' = {i \in ReportsOf(w)' : reports'[i].age = "recent"}
      BY DEF RecentOf
    <2>4. \A i \in ReportsOf(w) : reports'[i].age = reports[i].age
      BY <1>5, <2>2
    <2>5. RecentOf(w)' = RecentOf(w) \cup {n}
      BY <1>3, <1>5, <2>1, <2>3, <2>4 DEF RecentOf
    <2> QED
      BY <1>5, <2>1, <2>2, <2>5
  <1>8. OneSubmission'
    BY <1>2 DEF OrderInv, OneSubmission
  <1>9. StoresAreChecked'
    <2> SUFFICES ASSUME NEW o \in Submitters, submitter'[o].pc = "store"
                 PROVE  (~IsDuplicate(submitter[o].who, submitter[o].subject)
                            /\ WithinLimits(submitter[o].who))'
      BY DEF StoresAreChecked
    <2>1. o # p /\ submitter'[o] = submitter[o] /\ submitter[o].pc = "store"
      BY <1>2
    <2>2. submitter[o].who # q.who /\ submitter[o].who \in Reporters
      BY <1>1, <2>1 DEF OrderInv, OneSubmission, SubmissionsTyped, Submission
    <2>3. ~IsDuplicate(submitter[o].who, submitter[o].subject) /\ WithinLimits(submitter[o].who)
      BY <2>1 DEF OrderInv, StoresAreChecked
    <2>4. ReportsOf(submitter[o].who) \subseteq DOMAIN reports
      BY DEF ReportsOf
    <2>5. PICK w \in Reporters : w = submitter[o].who
      BY <2>2
    <2>6. ReportsOf(w)' = ReportsOf(w) /\ RecentOf(w)' = RecentOf(w)
      BY <1>6, <2>2, <2>5
    <2>7. WithinLimits(w)'
      BY <2>3, <2>5, <2>6 DEF WithinLimits
    <2>8. ~IsDuplicate(w, submitter[o].subject)'
      BY <1>5, <2>1, <2>3, <2>4, <2>5, <2>6 DEF IsDuplicate
    <2> QED
      BY <2>1, <2>5, <2>7, <2>8
  <1>10. ASSUME NEW w \in Reporters PROVE InOrder(w)'
    <2> SUFFICES /\ \A i, j \in ReportsOf(w)' : reports'[i].subject = reports'[j].subject => i = j
                 /\ Cardinality(RecentOf(w)') <= BurstLimit
                 /\ Cardinality(ReportsOf(w)') <= DayLimit
      BY DEF InOrder
    <2>1. /\ \A i, j \in ReportsOf(w) : reports[i].subject = reports[j].subject => i = j
          /\ Cardinality(RecentOf(w)) <= BurstLimit
          /\ Cardinality(ReportsOf(w)) <= DayLimit
          /\ ReportsOf(w) \subseteq DOMAIN reports
      <3>1. ReportsOf(w) \subseteq DOMAIN reports
        BY DEF ReportsOf
      <3> QED
        BY <3>1 DEF OrderInv, InOrder
    <2>2. CASE w # q.who
      BY <1>5, <1>6, <2>1, <2>2
    <2>3. CASE w = q.who
      <3>1. IsFiniteSet(ReportsOf(w)) /\ IsFiniteSet(RecentOf(w))
        BY ReportsFinite DEF OrderInv
      <3>2. /\ Cardinality(ReportsOf(w)') = Cardinality(ReportsOf(w)) + 1
            /\ Cardinality(RecentOf(w)') = Cardinality(RecentOf(w)) + 1
        <4>1. ReportsOf(w)' = ReportsOf(w) \cup {n} /\ RecentOf(w)' = RecentOf(w) \cup {n}
              /\ n \notin ReportsOf(w) /\ n \notin RecentOf(w)
          BY <1>7, <2>3
        <4> QED
          BY <3>1, <4>1, FS_AddElement
      <3>3. Cardinality(ReportsOf(w)) \in Nat /\ Cardinality(RecentOf(w)) \in Nat
        BY ReportsFinite DEF OrderInv
      <3>4. Cardinality(RecentOf(w)') <= BurstLimit /\ Cardinality(ReportsOf(w)') <= DayLimit
        BY <1>1, <2>3, <3>2, <3>3, LimitsAssumption DEF WithinLimits
      <3>5. \A i \in ReportsOf(w) : reports[i].subject # q.subject
        BY <1>1, <2>3 DEF IsDuplicate
      <3>6. \A i, j \in ReportsOf(w)' : reports'[i].subject = reports'[j].subject => i = j
        <4> SUFFICES ASSUME NEW i \in ReportsOf(w)', NEW j \in ReportsOf(w)',
                            reports'[i].subject = reports'[j].subject
                     PROVE  i = j
          OBVIOUS
        <4>1. \A k \in ReportsOf(w)' : k = n \/ (k \in ReportsOf(w) /\ reports'[k] = reports[k])
          BY <1>5, <1>7, <2>1, <2>3
        <4> QED
          BY <1>3, <1>5, <2>1, <3>5, <4>1
      <3> QED
        BY <3>4, <3>6
    <2> QED
      BY <2>2, <2>3
  <1> QED
    BY <1>2, <1>5, <1>8, <1>9, <1>10 DEF OrderInv, SubmissionsTyped

\* Time makes a reporter's rows fewer.
LEMMA AgingKeepsOrder ==
    ASSUME OrderInv, NEW i \in DOMAIN reports, ReportAges(i)
    PROVE  OrderInv'
  <1>1. reports \in Seq(Report) /\ submitter' = submitter
    BY DEF ReportAges, OrderInv, SubmissionsTyped
  <1>2. /\ reports' \in Seq(Report) /\ DOMAIN reports' = DOMAIN reports
        /\ \A j \in DOMAIN reports :
              /\ reports'[j].who = reports[j].who /\ reports'[j].subject = reports[j].subject
              /\ reports'[j].age = "recent" => reports[j].age = "recent"
              /\ reports[j].age = "old" => reports'[j].age = "old"
    <2> DEFINE age == IF reports[i].age = "recent" THEN "today" ELSE "old"
               row == [reports[i] EXCEPT !.age = age]
    <2>1. reports[i] \in Report /\ age \in {"today", "old"} /\ (reports[i].age = "old" => age = "old")
      BY <1>1
    <2>2. reports' = [reports EXCEPT ![i] = row]
      BY DEF ReportAges
    <2> HIDE DEF age
    <2>3. /\ row \in Report /\ row.who = reports[i].who /\ row.subject = reports[i].subject
          /\ row.age = age
      BY <2>1 DEF Report
    <2> HIDE DEF row
    <2>4. reports' \in Seq(Report) /\ DOMAIN reports' = DOMAIN reports
      BY <1>1, <2>2, <2>3
    <2>5. \A j \in DOMAIN reports : reports'[j] = IF j = i THEN row ELSE reports[j]
      BY <1>1, <2>2
    <2> QED
      BY <2>1, <2>3, <2>4, <2>5
  <1>3. \A w : ReportsOf(w)' \subseteq ReportsOf(w) /\ RecentOf(w)' \subseteq RecentOf(w)
    BY <1>2 DEF ReportsOf, RecentOf
  <1>4. ASSUME NEW w \in Reporters
        PROVE  /\ Cardinality(ReportsOf(w)') \in Nat /\ Cardinality(RecentOf(w)') \in Nat
               /\ Cardinality(ReportsOf(w)') <= Cardinality(ReportsOf(w))
               /\ Cardinality(RecentOf(w)') <= Cardinality(RecentOf(w))
               /\ Cardinality(ReportsOf(w)) \in Nat /\ Cardinality(RecentOf(w)) \in Nat
    <2>1. IsFiniteSet(ReportsOf(w)) /\ IsFiniteSet(RecentOf(w))
      BY ReportsFinite DEF OrderInv
    <2>2. /\ IsFiniteSet(ReportsOf(w)') /\ Cardinality(ReportsOf(w)') <= Cardinality(ReportsOf(w))
          /\ IsFiniteSet(RecentOf(w)') /\ Cardinality(RecentOf(w)') <= Cardinality(RecentOf(w))
      BY <1>3, <2>1, FS_Subset
    <2> QED
      BY <2>1, <2>2, FS_CardinalityType
  <1>5. OneSubmission'
    BY <1>1 DEF OrderInv, OneSubmission
  <1>6. StoresAreChecked'
    <2> SUFFICES ASSUME NEW o \in Submitters, submitter[o].pc = "store"
                 PROVE  (~IsDuplicate(submitter[o].who, submitter[o].subject)
                            /\ WithinLimits(submitter[o].who))'
      BY <1>1 DEF StoresAreChecked
    <2>1. ~IsDuplicate(submitter[o].who, submitter[o].subject) /\ WithinLimits(submitter[o].who)
      BY DEF OrderInv, StoresAreChecked
    <2>2. PICK w \in Reporters : w = submitter[o].who
      BY DEF OrderInv, SubmissionsTyped, Submission
    <2>3. WithinLimits(w)'
      BY <1>4, <2>1, <2>2, LimitsAssumption DEF WithinLimits
    <2>4. ReportsOf(w)' \subseteq DOMAIN reports
      BY <1>2 DEF ReportsOf
    <2>5. ~IsDuplicate(w, submitter[o].subject)'
      BY <1>1, <1>2, <1>3, <2>1, <2>2, <2>4 DEF IsDuplicate
    <2> QED
      BY <1>1, <2>2, <2>3, <2>5
  <1>7. ASSUME NEW w \in Reporters PROVE InOrder(w)'
    <2> SUFFICES /\ \A j, k \in ReportsOf(w)' : reports'[j].subject = reports'[k].subject => j = k
                 /\ Cardinality(RecentOf(w)') <= BurstLimit
                 /\ Cardinality(ReportsOf(w)') <= DayLimit
      BY DEF InOrder
    <2>1. /\ \A j, k \in ReportsOf(w) : reports[j].subject = reports[k].subject => j = k
          /\ Cardinality(RecentOf(w)) <= BurstLimit
          /\ Cardinality(ReportsOf(w)) <= DayLimit
          /\ ReportsOf(w) \subseteq DOMAIN reports
      <3>1. ReportsOf(w) \subseteq DOMAIN reports
        BY DEF ReportsOf
      <3> QED
        BY <3>1 DEF OrderInv, InOrder
    <2>2. \A j \in ReportsOf(w)' : j \in ReportsOf(w) /\ reports'[j].subject = reports[j].subject
      BY <1>2, <1>3, <2>1
    <2>3. Cardinality(RecentOf(w)') <= BurstLimit /\ Cardinality(ReportsOf(w)') <= DayLimit
      BY <1>4, <2>1, LimitsAssumption
    <2> QED
      BY <2>1, <2>2, <2>3
  <1> QED
    BY <1>1, <1>2, <1>5, <1>6, <1>7 DEF OrderInv, SubmissionsTyped

\* The same report is stored once a day and nobody passes the limits (report.go:168): a
\* submission checks and stores under the lock of its reporter, and between the two only time
\* touches the reporter's rows.
THEOREM ReportsStayInOrder == ReportsSpec => []ReportsInOrder
  <1>1. ReportsInit => OrderInv
    <2> SUFFICES ASSUME ReportsInit PROVE OrderInv
      OBVIOUS
    <2>1. SubmissionsTyped /\ OneSubmission /\ StoresAreChecked
      BY NoSubmissionTyped DEF ReportsInit, SubmissionsTyped, OneSubmission, StoresAreChecked
    <2>2. \A w : ReportsOf(w) = {} /\ RecentOf(w) = {}
      BY DEF ReportsInit, ReportsOf, RecentOf
    <2>3. \A w : InOrder(w)
      BY <2>2, FS_EmptySet, LimitsAssumption DEF InOrder
    <2> QED
      BY <2>1, <2>3 DEF OrderInv
  <1>2. OrderInv /\ [ReportsNext]_<<reportVars, mailVars>> => OrderInv'
    <2> SUFFICES ASSUME OrderInv, [ReportsNext]_<<reportVars, mailVars>> PROVE OrderInv'
      OBVIOUS
    <2>1. CASE SubmitNext
      BY <2>1, TakingKeepsOrder, CheckingKeepsOrder, StoringKeepsOrder, FailingKeepsOrder
      DEF SubmitNext
    <2>2. ASSUME NEW i \in DOMAIN reports, ReportAges(i) PROVE OrderInv'
      BY <2>2, AgingKeepsOrder
    <2>3. CASE UNCHANGED reportVars
      <3>1. submitter' = submitter /\ reports' = reports
        BY <2>3 DEF reportVars
      <3>2. StoresAreChecked'
        BY <3>1, RowsAsTheyWere DEF OrderInv, StoresAreChecked
      <3> QED
        BY <3>1, <3>2, RowsAsTheyWere DEF OrderInv, SubmissionsTyped, OneSubmission
    <2>4. ASSUME NEW p \in Senders,
                 SenderStep(p) \/ SenderStops(p) \/ \E i \in 1 .. MaxReports : RetryFailed(p, i)
          PROVE  UNCHANGED reportVars
      BY <2>4 DEF SenderStep, SenderStops, RetryFailed, DeliverDue, CloseInterrupted, claimDue,
                  SendAccepted, SendRefused, AnswerLost, RecordSent, RecordFailed
    <2>5. MailClock => UNCHANGED reportVars
      BY DEF MailClock, RetryDelayEnds, LeaseEnds
    <2> QED
      BY <2>1, <2>2, <2>3, <2>4, <2>5 DEF ReportsNext
  <1>3. OrderInv => ReportsInOrder
    BY DEF OrderInv, InOrder, ReportsInOrder, RecentOf
  <1> QED
    BY <1>1, <1>2, <1>3, PTL DEF ReportsSpec

-----------------------------------------------------------------------------
(* The services together *)

\* Whichever service runs, each behaves as it does alone: what is proved of it holds of all.
THEOREM ServicesRunAlone == ServicesSpec => ReportsSpec /\ AlbumsSpec /\ MenuSpec
  <1>1. ServicesInit => ReportsInit /\ AlbumsInit /\ MenuInit
    BY DEF ServicesInit
  <1>2. [ServicesNext]_allVars => /\ [ReportsNext]_<<reportVars, mailVars>>
                                  /\ [AlbumsNext]_<<albumVars, noticeVars>>
                                  /\ [MenuNext]_menuVars
    <2>1. CASE UNCHANGED allVars
      BY <2>1 DEF allVars
    <2>2. CASE ServicesNext
      BY <2>2 DEF ServicesNext, InReports, InAlbums, InMenu
    <2> QED BY <2>1, <2>2
  <1> QED BY <1>1, <1>2, PTL DEF ServicesSpec, ReportsSpec, AlbumsSpec, MenuSpec

\* Every variable of the three services keeps its type, for any rows, senders and replicas.
THEOREM ServicesStayTyped == ServicesSpec => []TypesOK
  <1>1. ReportsTypeOK /\ AlbumsTypeOK /\ MenuTypeOK => TypesOK
    BY DEF TypesOK
  <1> QED BY <1>1, ServicesRunAlone, ReportsStayTyped, AlbumsStayTyped, MenuTyped, PTL

\* What is checked of the services on small instances, but for what must eventually happen,
\* holds for all rows, senders, replicas, dishes and bounds.
THEOREM ServicesAreSafe ==
    ServicesSpec => /\ [](TypesOK /\ ReportsInOrder /\ MailedOnce)
                    /\ [](FirstAlbumsStayQuiet /\ AnnouncedOnce /\ AllergensShown /\ MenuAnnouncedOnce)
                    /\ AlbumsKeepTheOutbox /\ MenuKeepsTheOutbox
  BY ServicesRunAlone, ServicesStayTyped, ReportsStayInOrder, ReportsMailedOnce, FirstSyncIsQuiet,
     AlbumsAnnouncedOnce, DishesShowAllergens, MenuOncePerDay, AlbumsImplementTheOutbox,
     MenuImplementsTheOutbox, PTL

=============================================================================
