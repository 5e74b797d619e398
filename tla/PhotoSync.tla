------------------------------ MODULE PhotoSync ------------------------------
(***************************************************************************)
(* The photo library's mirror of a shared Google Drive (services/photos):  *)
(* a full run lists the folders, then the files page by page, and is       *)
(* resumed from its checkpoint; an incremental run replays the changes     *)
(* feed.  One run at a time holds the advisory lock.  A step is one        *)
(* transaction, together with the calls to Drive it stores the answer of   *)
(* when nothing else could tell the two apart.                             *)
(*                                                                         *)
(* A folder stands for the album it is classified as; run ids are only     *)
(* compared for equality, so an id no row carries any more is used again.  *)
(***************************************************************************)
EXTENDS Naturals, Sequences

CONSTANTS
    NPhotos,         \* files of the Drive, listed in this order
    NFolders,        \* folders of the Drive
    Tickers,         \* goroutines that call Tick, or serve an administrator
    AdminModes,      \* modes an administrator triggers
    MaxChanges,      \* bound: changes of the Drive
    MaxSyncTrouble   \* bound: calls that fail or processes that die

ASSUME SyncAssumption ==
    /\ NPhotos \in Nat \ {0} /\ NFolders \in Nat \ {0}
    /\ AdminModes \subseteq {"full", "incremental"}
    /\ MaxChanges \in Nat /\ MaxSyncTrouble \in Nat

Photos == 1 .. NPhotos
Folders == NPhotos + 1 .. NPhotos + NFolders

VARIABLES
    drive,        \* external: what the Drive holds
    feed,         \* external: its changes feed, ids of what changed
    folderRow,    \* photo_folders (and the album of each)
    photoRow,     \* photos
    state,        \* the row of photo_sync_state
    worker,       \* the syncs under way
    missed,       \* history: what the code has not noticed since its last full run began
    syncTrouble

driveVars == << drive, feed >>
indexVars == << folderRow, photoRow, state >>
syncVars == << driveVars, indexVars, worker, missed, syncTrouble >>

-----------------------------------------------------------------------------
(* State *)

RunIds == 1 .. NPhotos + NFolders + 2
NoRun == 0
Nowhere == 0   \* the drive root, or a folder the index does not know

Drive == [in : [Photos -> Folders], live : SUBSET (Photos \cup Folders)]
FolderRow == [known : BOOLEAN, live : BOOLEAN, seen : RunIds \cup {NoRun}]
PhotoRow == [live : BOOLEAN, folder : Folders \cup {Nowhere}, seen : RunIds \cup {NoRun}]

\* Tokens of the feed are positions in it, NoToken is NULL; page 0 is no page token.
NoToken == MaxChanges + 1
Token == 0 .. NoToken
State == [changes : Token, pending : Token, run : RunIds \cup {NoRun},
          phase : {"none", "structure", "files"}, page : 0 .. NPhotos,
          lastFull : {"never", "recent", "due"}]

\* changed and gone are what an incremental run read: photos to store with their
\* folder, and ids that left; folders says that a live folder was among them, last
\* that the feed had no more.
Worker == [pc : {"idle", "lock", "begin", "structure", "files", "sweep", "changes", "apply"},
           mode : {"full", "incremental"}, run : RunIds \cup {NoRun}, page : 0 .. NPhotos,
           changed : SUBSET (Photos \X Folders), gone : SUBSET (Photos \cup Folders),
           folders : BOOLEAN, last : BOOLEAN, from : Token, to : Token]
NoWorker == [pc |-> "idle", mode |-> "full", run |-> NoRun, page |-> 0, changed |-> {},
             gone |-> {}, folders |-> FALSE, last |-> FALSE, from |-> 0, to |-> 0]

SyncTypeOK ==
    /\ drive \in Drive
    /\ feed \in Seq(Photos \cup Folders) /\ Len(feed) <= MaxChanges
    /\ folderRow \in [Folders -> FolderRow]
    /\ photoRow \in [Photos -> PhotoRow]
    /\ state \in State
    /\ worker \in [Tickers -> Worker]
    /\ missed \subseteq {"untold", "overlap", "forgotten", "adrift", "kept"}
    /\ syncTrouble \in 0 .. MaxSyncTrouble

\* The Drive is there before the first sync, with its first file.
SyncInit ==
    /\ drive = [in |-> [p \in Photos |-> NPhotos + 1], live |-> {1} \cup Folders]
    /\ feed = << >>
    /\ folderRow = [f \in Folders |-> [known |-> FALSE, live |-> FALSE, seen |-> NoRun]]
    /\ photoRow = [p \in Photos |-> [live |-> FALSE, folder |-> Nowhere, seen |-> NoRun]]
    /\ state = [changes |-> NoToken, pending |-> NoToken, run |-> NoRun, phase |-> "none",
                page |-> 0, lastFull |-> "never"]
    /\ worker = [t \in Tickers |-> NoWorker]
    /\ missed = {}
    /\ syncTrouble = 0

-----------------------------------------------------------------------------
(* The Drive *)

\* A file in a trashed folder is trashed with it.
OnDrive(p) == p \in drive.live /\ drive.in[p] \in drive.live
LiveFolders == drive.live \cap Folders

Misses(what, when) == missed' = IF when THEN missed \cup {what} ELSE missed

DriveChanges(id, d) ==
    /\ Len(feed) < MaxChanges
    /\ drive' = d /\ feed' = Append(feed, id)
    /\ UNCHANGED << indexVars, worker, syncTrouble >>

\* A file is added, moved or restored.
PutPhoto(p, f) ==
    /\ f \in drive.live /\ ~(OnDrive(p) /\ drive.in[p] = f)
    /\ DriveChanges(p, [in |-> [drive.in EXCEPT ![p] = f], live |-> drive.live \cup {p}])
    /\ UNCHANGED missed

TrashPhoto(p) ==
    /\ OnDrive(p)
    /\ DriveChanges(p, [drive EXCEPT !.live = @ \ {p}])
    /\ UNCHANGED missed

\* The feed names the folder, not the files it hides or brings back.
TrashFolder(f) ==
    /\ f \in drive.live
    /\ DriveChanges(f, [drive EXCEPT !.live = @ \ {f}])
    /\ UNCHANGED missed

RestoreFolder(f) ==
    /\ f \notin drive.live
    /\ DriveChanges(f, [drive EXCEPT !.live = @ \cup {f}])
    /\ Misses("untold", ~folderRow[f].known \/ folderRow[f].live \/ state.run # NoRun)

-----------------------------------------------------------------------------
(* Choosing and starting a run *)

WorkerGoes(t, w) == worker' = [worker EXCEPT ![t] = w]
SyncRunning == \E t \in Tickers : worker[t].pc \notin {"idle", "lock"}

\* Tick reads the state before the lock is taken.
Tick(t) ==
    LET full == \/ state.changes = NoToken \/ state.run # NoRun
                \/ state.lastFull # "recent"
    IN /\ worker[t].pc = "idle"
       /\ WorkerGoes(t, [NoWorker EXCEPT !.pc = "lock", !.mode = IF full THEN "full" ELSE "incremental"])
       /\ UNCHANGED << driveVars, indexVars, missed, syncTrouble >>

TriggerSync(t, mode) ==
    /\ worker[t].pc = "idle" /\ mode \in AdminModes
    /\ WorkerGoes(t, [NoWorker EXCEPT !.pc = "lock", !.mode = mode])
    /\ UNCHANGED << driveVars, indexVars, missed, syncTrouble >>

\* Run: whoever does not get the lock gives up.
Run(t) ==
    /\ worker[t].pc = "lock"
    /\ WorkerGoes(t, IF SyncRunning THEN NoWorker ELSE [worker[t] EXCEPT !.pc = "begin"])
    /\ UNCHANGED << driveVars, indexVars, missed, syncTrouble >>

ReconcileIsDue ==
    /\ state.lastFull = "recent"
    /\ state' = [state EXCEPT !.lastFull = "due"]
    /\ UNCHANGED << driveVars, folderRow, photoRow, worker, missed, syncTrouble >>

FreshRun ==
    LET used == {folderRow[f].seen : f \in Folders} \cup {photoRow[p].seen : p \in Photos}
                \cup {state.run}
    IN CHOOSE r \in RunIds : r \notin used

-----------------------------------------------------------------------------
(* What a run stores *)

\* applyStructure: the live folders S are stored; the others leave, and with them their
\* files, but for a folder the same run has seen before.
WithStructure(S, run) ==
    [f \in Folders |-> IF f \in S THEN [known |-> TRUE, live |-> TRUE, seen |-> run]
                       ELSE [folderRow[f] EXCEPT !.live = @ /\ folderRow[f].seen = run]]
SweptWith(rows) ==
    [p \in Photos |-> LET r == photoRow[p] IN
        IF r.folder # Nowhere /\ rows[r.folder].known /\ ~rows[r.folder].live
        THEN [r EXCEPT !.live = FALSE] ELSE r]

\* buildRows and upsertPhotos: the folder is the one the index knows.
Stored(p, f, rows, run) ==
    [live |-> TRUE, folder |-> IF rows[f].live THEN f ELSE Nowhere, seen |-> run]

-----------------------------------------------------------------------------
(* Full run *)

\* A run that reached its files is resumed, with its id and its page; any other
\* starts over, from the position of the feed before anything is listed.
FullBegins(t) ==
    /\ worker[t].pc = "begin" /\ worker[t].mode = "full"
    /\ IF state.run # NoRun /\ state.phase = "files"
       THEN /\ WorkerGoes(t, [worker[t] EXCEPT !.pc = "files", !.run = state.run, !.page = state.page])
            /\ UNCHANGED << state, missed >>
       ELSE /\ WorkerGoes(t, [worker[t] EXCEPT !.pc = "structure", !.run = FreshRun])
            /\ state' = [state EXCEPT !.run = FreshRun, !.phase = "structure", !.page = 0,
                                      !.pending = Len(feed)]
            /\ missed' = {}
    /\ UNCHANGED << driveVars, folderRow, photoRow, syncTrouble >>

\* Faulty variant: the position of the feed is taken once everything is listed.
FinishAtEnd == state' = [state EXCEPT !.changes = Len(feed), !.pending = NoToken, !.run = NoRun,
                                      !.phase = "none", !.page = 0, !.lastFull = "recent"]

FinishFull == state' = [state EXCEPT !.changes = state.pending, !.pending = NoToken, !.run = NoRun,
                                     !.phase = "none", !.page = 0, !.lastFull = "recent"]

StoreStructure(t) ==
    /\ worker[t].pc = "structure"
    /\ folderRow' = WithStructure(LiveFolders, worker[t].run)
    /\ photoRow' = SweptWith(folderRow')
    /\ state' = [state EXCEPT !.phase = "files"]
    /\ WorkerGoes(t, [worker[t] EXCEPT !.pc = "files", !.page = 0])
    /\ UNCHANGED << driveVars, missed, syncTrouble >>

\* One page (here one file) is listed and committed with the checkpoint of the next.
StorePage(t) ==
    LET p == worker[t].page + 1
        next == IF p < NPhotos THEN p ELSE 0
    IN /\ worker[t].pc = "files"
       /\ photoRow' = IF OnDrive(p)
                      THEN [photoRow EXCEPT ![p] = Stored(p, drive.in[p], folderRow, worker[t].run)]
                      ELSE photoRow
       /\ state' = [state EXCEPT !.page = next]
       /\ WorkerGoes(t, [worker[t] EXCEPT !.pc = IF next = 0 THEN "sweep" ELSE "files", !.page = next])
       /\ UNCHANGED << driveVars, folderRow, missed, syncTrouble >>

\* The page token expired: the run is forgotten, and started over if one is due.
PageTokenExpired(t) ==
    /\ worker[t].pc = "files" /\ worker[t].page # 0 /\ syncTrouble < MaxSyncTrouble
    /\ syncTrouble' = syncTrouble + 1
    /\ state' = [state EXCEPT !.run = NoRun, !.phase = "none", !.page = 0]
    /\ Misses("forgotten", state.lastFull # "never")
    /\ WorkerGoes(t, NoWorker)
    /\ UNCHANGED << driveVars, folderRow, photoRow >>

\* Files the run has not seen leave; the feed is replayed from before the listing.
SweepPhotos(t) ==
    /\ worker[t].pc = "sweep"
    /\ photoRow' = [p \in Photos |-> IF photoRow[p].seen = worker[t].run THEN photoRow[p]
                                     ELSE [photoRow[p] EXCEPT !.live = FALSE]]
    /\ FinishFull
    /\ WorkerGoes(t, NoWorker)
    /\ UNCHANGED << driveVars, folderRow, missed, syncTrouble >>

-----------------------------------------------------------------------------
(* Incremental run *)

IncrementalBegins(t) ==
    /\ worker[t].pc = "begin" /\ worker[t].mode = "incremental"
    /\ WorkerGoes(t, IF state.changes = NoToken THEN NoWorker
                     ELSE [worker[t] EXCEPT !.pc = "changes", !.from = state.changes])
    /\ UNCHANGED << driveVars, indexVars, missed, syncTrouble >>

\* A page of the feed, up to position n: each entry carries its item as it is now.
ReadChanges(t, n) ==
    LET ids == {feed[i] : i \in worker[t].from + 1 .. n}
        there == {p \in ids \cap Photos : OnDrive(p)}
    IN /\ worker[t].pc = "changes"
       /\ n \in worker[t].from + 1 .. Len(feed)
       /\ WorkerGoes(t, [worker[t] EXCEPT !.pc = "apply", !.to = n,
                            !.changed = {<< p, drive.in[p] >> : p \in there},
                            !.gone = ids \ (there \cup LiveFolders),
                            !.folders = ids \cap LiveFolders # {}, !.last = n = Len(feed)])
       /\ UNCHANGED << driveVars, indexVars, missed, syncTrouble >>

NoMoreChanges(t) ==
    /\ worker[t].pc = "changes" /\ worker[t].from = Len(feed)
    /\ state' = [state EXCEPT !.changes = worker[t].from]
    /\ WorkerGoes(t, NoWorker)
    /\ UNCHANGED << driveVars, folderRow, photoRow, missed, syncTrouble >>

touchesStructure(w) == w.folders \/ \E f \in w.gone \cap Folders : folderRow[f].known

\* Faulty variant: a restored folder does not bring its files back.
NothingRevived(S) == FALSE

Revived(S) == \E f \in S : folderRow[f].known /\ ~folderRow[f].live

\* applyChanges: the structure is listed again when the batch touches it; a folder
\* that came back from the trash asks for a full run.
ApplyChanges(t) ==
    LET w == worker[t]
        run == IF w.run = NoRun THEN FreshRun ELSE w.run
        rows == IF touchesStructure(w) THEN WithStructure(LiveFolders, run) ELSE folderRow
        swept == IF touchesStructure(w) THEN SweptWith(rows) ELSE photoRow
    IN /\ w.pc = "apply"
       /\ folderRow' = rows
       /\ photoRow' = [p \in Photos |->
              IF \E f \in Folders : << p, f >> \in w.changed
              THEN Stored(p, CHOOSE f \in Folders : << p, f >> \in w.changed, rows, run)
              ELSE IF p \in w.gone THEN [swept[p] EXCEPT !.live = FALSE] ELSE swept[p]]
       /\ state' = [state EXCEPT !.changes = w.to,
                        !.lastFull = IF touchesStructure(w) /\ Revived(LiveFolders) THEN "never" ELSE @]
       /\ missed' = missed \cup
              {x \in {"overlap"} : state.run # NoRun}
              \cup {x \in {"adrift"} : \E c \in w.changed : ~rows[c[2]].live}
              \cup {x \in {"kept"} : \E f \in (w.gone \cap Folders) \ LiveFolders : rows[f].live}
       /\ WorkerGoes(t, IF w.last THEN NoWorker
                        ELSE [NoWorker EXCEPT !.pc = "changes", !.mode = "incremental", !.run = run,
                                              !.from = w.to])
       /\ UNCHANGED << driveVars, syncTrouble >>

\* The changes token expired: the next tick lists everything again.
ChangesTokenExpired(t) ==
    /\ worker[t].pc = "changes" /\ syncTrouble < MaxSyncTrouble
    /\ syncTrouble' = syncTrouble + 1
    /\ state' = [state EXCEPT !.changes = NoToken]
    /\ WorkerGoes(t, NoWorker)
    /\ UNCHANGED << driveVars, folderRow, photoRow, missed >>

\* Drive or the database refuses a call, or the process dies; the lock goes.
SyncStops(t) ==
    /\ worker[t].pc # "idle" /\ syncTrouble < MaxSyncTrouble
    /\ syncTrouble' = syncTrouble + 1
    /\ WorkerGoes(t, NoWorker)
    /\ UNCHANGED << driveVars, indexVars, missed >>

-----------------------------------------------------------------------------
(* Specification *)

DriveNext ==
    \/ \E p \in Photos, f \in Folders : PutPhoto(p, f)
    \/ \E p \in Photos : TrashPhoto(p)
    \/ \E f \in Folders : TrashFolder(f) \/ RestoreFolder(f)

SyncStep(t) ==
    \/ Tick(t) \/ Run(t)
    \/ FullBegins(t) \/ StoreStructure(t) \/ StorePage(t) \/ SweepPhotos(t)
    \/ IncrementalBegins(t) \/ NoMoreChanges(t) \/ ApplyChanges(t)
    \/ \E n \in 1 .. MaxChanges : ReadChanges(t, n)

SyncNext ==
    \/ DriveNext
    \/ ReconcileIsDue
    \/ \E t \in Tickers : SyncStep(t) \/ SyncStops(t)
    \/ \E t \in Tickers : PageTokenExpired(t) \/ ChangesTokenExpired(t)
    \/ \E t \in Tickers, mode \in AdminModes : TriggerSync(t, mode)

SyncSpec == SyncInit /\ [][SyncNext]_syncVars

-----------------------------------------------------------------------------
(* What must hold *)

\* Everything the feed says has been replayed, and nothing asks for a full run.
CaughtUp ==
    /\ ~SyncRunning /\ state.run = NoRun
    /\ state.changes = Len(feed) /\ state.lastFull # "never"

\* The index shows the files of the Drive, each in its folder.
Mirrored(p) ==
    /\ photoRow[p].live = OnDrive(p)
    /\ OnDrive(p) => photoRow[p].folder = drive.in[p]

\* A library that has caught up shows what the Drive holds: no interruption, resume,
\* expired token or change during a listing loses or keeps a photo (sync.go:165),
\* except where the code cannot tell, until the next full run starts: a folder came back,
\* with files the feed does not name, before the index had recorded that it had left or
\* while a full run was listing (untold); an incremental run stored something while a
\* full one was interrupted (overlap); a full run was forgotten half-way, after an
\* earlier one (forgotten); a folder left while a batch that changes one of its files was
\* applied (adrift), or between two batches of one run (kept).
IndexCatchesUp == CaughtUp /\ missed = {} => \A p \in Photos : Mirrored(p)

\* What setup.go:46 says: overlapping ticks are harmless, the advisory lock turns
\* them into no-ops.
OverlapIsHarmless == CaughtUp /\ missed \subseteq {"overlap"} => \A p \in Photos : Mirrored(p)

=============================================================================
