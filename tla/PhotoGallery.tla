----------------------------- MODULE PhotoGallery -----------------------------
(***************************************************************************)
(* The gallery of photos (handlers/photos): lists are read page by page    *)
(* from a position, and every replica keeps the answers it built under the *)
(* version of the index (responseCache), which a synchronisation that ends *)
(* increases.  A step is one query, or one use of the cache's lock.        *)
(***************************************************************************)
EXTENDS Naturals, FiniteSets

CONSTANTS
    PhotoIds,         \* a set of numbers: ids are ordered
    AlbumIds,         \* a set of positive numbers
    LastSort,         \* dates are 1 .. LastSort
    Servers, Readers,
    PageLimit, MaxCacheSize,
    MaxVersion, MaxCommits,   \* bounds: versions and changes of the index
    MaxWalks                  \* bound: walks begun

\* Ids and dates are compared; limitParam never gives 0, and maxCacheSize is 500.
ASSUME GalleryAssumption ==
    /\ PhotoIds \subseteq Nat /\ IsFiniteSet(PhotoIds) /\ AlbumIds \subseteq Nat \ {0}
    /\ LastSort \in Nat \ {0} /\ Servers # {}
    /\ PageLimit \in Nat \ {0} /\ MaxCacheSize \in Nat \ {0}
    /\ MaxVersion \in Nat \ {0} /\ MaxCommits \in Nat /\ MaxWalks \in Nat

VARIABLES
    index,         \* rows of photos
    dataVersion,   \* photo_sync_state.data_version
    changedAt,     \* history: the version before which a row last changed
    cache,         \* responseCache of each server
    reader,        \* walks through a list, a request at a time
    commits, walks

galleryIndexVars == << index, dataVersion, changedAt, commits >>
galleryVars == << galleryIndexVars, cache, reader, walks >>

-----------------------------------------------------------------------------
(* State *)

\* album 0 is no album; copy: an exact duplicate of a photo of another album, or of its own.
IndexRow == [live : BOOLEAN, sort : 1 .. LastSort, album : AlbumIds \cup {0},
             copy : {"no", "elsewhere", "here"}]

\* A cursor is the position of a row; a list is the gallery (0) or an album.
Cursor == (1 .. LastSort) \X (AlbumIds \cup {0}) \X PhotoIds
NoCursor == << LastSort + 1, 0, 0 >>
Lists == AlbumIds \cup {0}

Page == [photos : SUBSET PhotoIds, next : Cursor \cup {NoCursor}]
NoPage == [photos |-> {}, next |-> NoCursor]

\* built: the version of the index when the answer was computed (history).
CachedPage == [ver : 0 .. MaxVersion, list : Lists, after : Cursor \cup {NoCursor}, page : Page,
           built : 0 .. MaxVersion]
Cache == [ver : 0 .. MaxVersion, fresh : BOOLEAN, entries : SUBSET CachedPage]

\* oldest is the lowest version of a walk's answers, and seen what they held (history).
Reader == [pc : {"idle", "ask", "version", "lookup", "query", "put", "wait", "done"}, list : Lists,
           after : Cursor \cup {NoCursor}, at : Servers, ver : 0 .. MaxVersion, page : Page,
           built : 0 .. MaxVersion, oldest : 0 .. MaxVersion, seen : [PhotoIds -> 0 .. 2]]
NoReader == [pc |-> "idle", list |-> 0, after |-> NoCursor, at |-> CHOOSE s \in Servers : TRUE,
             ver |-> 0, page |-> NoPage, built |-> 0, oldest |-> MaxVersion,
             seen |-> [p \in PhotoIds |-> 0]]

GalleryTypeOK ==
    /\ index \in [PhotoIds -> IndexRow]
    /\ dataVersion \in 0 .. MaxVersion
    /\ changedAt \in [PhotoIds -> 0 .. MaxVersion]
    /\ \A s \in Servers :
        /\ cache[s].ver \in 0 .. MaxVersion /\ cache[s].fresh \in BOOLEAN
        /\ \A e \in cache[s].entries : e \in CachedPage
        /\ Cardinality(cache[s].entries) <= MaxCacheSize
    /\ \A r \in Readers : reader[r] \in Reader
    /\ commits \in 0 .. MaxCommits /\ walks \in 0 .. MaxWalks

\* A library that was synchronised once, with photos of one date in any album.
GalleryInit ==
    /\ \E where \in [PhotoIds -> AlbumIds \cup {0}] :
        index = [p \in PhotoIds |-> [live |-> TRUE, sort |-> 1, album |-> where[p], copy |-> "no"]]
    /\ dataVersion = 1
    /\ changedAt = [p \in PhotoIds |-> 0]
    /\ cache = [s \in Servers |-> [ver |-> 0, fresh |-> FALSE, entries |-> {}]]
    /\ reader = [r \in Readers |-> NoReader]
    /\ commits = 0 /\ walks = 0

-----------------------------------------------------------------------------
(* What the synchronisation commits *)

\* A page of a full run is committed at once, and the version follows when the run
\* ends; an incremental run commits both together.
IndexChanges(p, row, bump) ==
    /\ commits < MaxCommits /\ commits' = commits + 1
    /\ row # index[p]
    /\ index' = [index EXCEPT ![p] = row]
    /\ changedAt' = [changedAt EXCEPT ![p] = dataVersion]
    /\ dataVersion + bump <= MaxVersion /\ dataVersion' = dataVersion + bump
    /\ UNCHANGED << cache, reader, walks >>

bumpVersion ==
    /\ dataVersion < MaxVersion
    /\ dataVersion' = dataVersion + 1
    /\ UNCHANGED << index, changedAt, commits, cache, reader, walks >>

-----------------------------------------------------------------------------
(* Lists, page by page *)

\* Gallery hides every copy, AlbumPhotos the copies of its own album.
InList(list, row) ==
    /\ row.live
    /\ IF list = 0 THEN row.copy = "no" ELSE row.album = list /\ row.copy # "here"

Position(p) == << index[p].sort, index[p].album, p >>

\* Faulty variant: the album of the cursor is left out of the comparison.
PrecedesByDate(list, k, c) == k[1] < c[1] \/ (k[1] = c[1] /\ k[3] < c[3])

\* (sort_at, album, id) in the gallery, (sort_at, id) in an album.
Precedes(list, k, c) ==
    \/ k[1] < c[1]
    \/ k[1] = c[1] /\ IF list = 0 THEN k[2] < c[2] \/ (k[2] = c[2] /\ k[3] < c[3]) ELSE k[3] < c[3]

\* The order of the rows, in a clause of its own.
Follows(list, k, c) ==
    \/ k[1] < c[1]
    \/ k[1] = c[1] /\ list = 0 /\ k[2] < c[2]
    \/ k[1] = c[1] /\ (list = 0 => k[2] = c[2]) /\ k[3] < c[3]

RowsAfter(list, after) ==
    {p \in PhotoIds : InList(list, index[p]) /\
                         (after = NoCursor \/ Precedes(list, Position(p), after))}
PageOf(list, rows) ==
    {p \in rows : Cardinality({q \in rows : Follows(list, Position(p), Position(q))}) < PageLimit}
LastOf(list, page) ==
    CHOOSE p \in page : \A q \in page \ {p} : Follows(list, Position(p), Position(q))

\* One row more than the page is asked for, to know whether another page follows.
photosResponse(list, after) ==
    LET rows == RowsAfter(list, after)
        page == PageOf(list, rows)
    IN [photos |-> page, next |-> IF rows = page THEN NoCursor ELSE Position(LastOf(list, page))]

-----------------------------------------------------------------------------
(* Requests *)

ReaderGoes(r, s) == reader' = [reader EXCEPT ![r] = s]

\* The page is read: the walk goes on from its cursor, or is over.
Receives(s, page, ver) ==
    [s EXCEPT !.pc = IF page.next = NoCursor THEN "done" ELSE "ask",
              !.after = page.next, !.at = NoReader.at, !.page = NoPage, !.ver = 0, !.built = 0,
              !.oldest = IF ver < @ THEN ver ELSE @,
              !.seen = [p \in PhotoIds |-> IF p \in page.photos /\ @[p] < 2 THEN @[p] + 1 ELSE @[p]]]

BeginWalk(r, list) ==
    /\ reader[r].pc \in {"idle", "done"} /\ walks < MaxWalks
    /\ walks' = walks + 1
    /\ ReaderGoes(r, [NoReader EXCEPT !.pc = "ask", !.list = list])
    /\ UNCHANGED << galleryIndexVars, cache >>

\* currentVersion: a version read less than five seconds ago is used again; one that
\* somebody is reading is shared.
currentVersion(r, s) ==
    /\ reader[r].pc = "ask"
    /\ IF cache[s].fresh
       THEN ReaderGoes(r, [reader[r] EXCEPT !.pc = "lookup", !.at = s, !.ver = cache[s].ver])
       ELSE \E v \in {dataVersion} \cup {reader[q].ver : q \in {q \in Readers :
                                            reader[q].pc = "version" /\ reader[q].at = s}} :
              ReaderGoes(r, [reader[r] EXCEPT !.pc = "version", !.at = s, !.ver = v])
    /\ UNCHANGED << galleryIndexVars, cache, walks >>

keepVersion(r) ==
    /\ reader[r].pc = "version"
    /\ cache' = [cache EXCEPT ![reader[r].at].ver = reader[r].ver, ![reader[r].at].fresh = TRUE]
    /\ ReaderGoes(r, [reader[r] EXCEPT !.pc = "lookup"])
    /\ UNCHANGED << galleryIndexVars, walks >>

SameRequest(s, e) == e.ver = s.ver /\ e.list = s.list /\ e.after = s.after
Building(r) ==
    {q \in Readers : /\ reader[q].pc \in {"query", "put"} /\ reader[q].at = reader[r].at
                     /\ SameRequest(reader[r], reader[q])}

\* get: the answer of the cache, or of whoever is building it, or one to build.
get(r) ==
    LET hits == {e \in cache[reader[r].at].entries : SameRequest(reader[r], e)} IN
    /\ reader[r].pc = "lookup"
    /\ IF hits # {}
       THEN \E e \in hits : ReaderGoes(r, Receives(reader[r], e.page, e.ver))
       ELSE ReaderGoes(r, [reader[r] EXCEPT !.pc = IF Building(r) = {} THEN "query" ELSE "wait"])
    /\ UNCHANGED << galleryIndexVars, cache, walks >>

build(r) ==
    /\ reader[r].pc = "query"
    /\ ReaderGoes(r, [reader[r] EXCEPT !.pc = "put", !.built = dataVersion,
                         !.page = photosResponse(reader[r].list, reader[r].after)])
    /\ UNCHANGED << galleryIndexVars, cache, walks >>

\* Faulty variant: the entry is stored under the version of the moment.
KeyAtPut(r) == dataVersion

KeyOf(r) == reader[r].ver

\* Faulty variant: the size is compared after the entry is added.
KeptOneMore(entries) == IF Cardinality(entries) > MaxCacheSize THEN {} ELSE entries

Kept(entries) == IF Cardinality(entries) >= MaxCacheSize THEN {} ELSE entries

\* A full cache is emptied first; whoever waits gets the same answer.
put(r) ==
    LET s == reader[r].at
        entry == [ver |-> KeyOf(r), list |-> reader[r].list, after |-> reader[r].after,
                  page |-> reader[r].page, built |-> reader[r].built]
        waiting == {q \in Readers : reader[q].pc = "wait" /\ reader[q].at = s
                                    /\ SameRequest(reader[q], reader[r])}
        kept == Kept(cache[s].entries)
    IN /\ reader[r].pc = "put"
       /\ cache' = [cache EXCEPT ![s].entries = {e \in kept : ~SameRequest(entry, e)} \cup {entry}]
       /\ reader' = [q \in Readers |-> IF q = r \/ q \in waiting
                        THEN Receives(reader[q], reader[r].page, reader[q].ver) ELSE reader[q]]
       /\ UNCHANGED << galleryIndexVars, walks >>

\* The query fails, for whoever waits for it too.
buildFails(r) ==
    LET s == reader[r].at IN
    /\ reader[r].pc = "query"
    /\ reader' = [q \in Readers |->
           IF q = r \/ (reader[q].pc = "wait" /\ reader[q].at = s /\ SameRequest(reader[q], reader[r]))
           THEN NoReader ELSE reader[q]]
    /\ UNCHANGED << galleryIndexVars, cache, walks >>

VersionExpires(s) ==
    /\ cache[s].fresh
    /\ cache' = [cache EXCEPT ![s].fresh = FALSE]
    /\ UNCHANGED << galleryIndexVars, reader, walks >>

EntryExpires(s) ==
    /\ \E e \in cache[s].entries : cache' = [cache EXCEPT ![s].entries = @ \ {e}]
    /\ UNCHANGED << galleryIndexVars, reader, walks >>

-----------------------------------------------------------------------------
(* Specification *)

ReaderStep(r) ==
    \/ \E list \in Lists : BeginWalk(r, list)
    \/ \E s \in Servers : currentVersion(r, s)
    \/ keepVersion(r) \/ get(r) \/ build(r) \/ put(r) \/ buildFails(r)

GalleryNext ==
    \/ \E p \in PhotoIds, row \in IndexRow, bump \in {0, 1} : IndexChanges(p, row, bump)
    \/ bumpVersion
    \/ \E r \in Readers : ReaderStep(r)
    \/ \E s \in Servers : VersionExpires(s) \/ EntryExpires(s)

GallerySpec == GalleryInit /\ [][GalleryNext]_galleryVars

-----------------------------------------------------------------------------
(* What must hold *)

\* An answer kept under a version was computed from that version or a later one, so
\* a synchronisation that ended invalidates what came before it (cache.go:24).
AnswersAreCurrent == \A s \in Servers : \A e \in cache[s].entries : e.built >= e.ver

\* A photo in the list, unchanged since the oldest version the walk was answered
\* from, is seen exactly once, and one that is not in the list never: pages of
\* several servers and of several versions fit together (photos_handler.go:166).
WalkSeesEachOnce ==
    \A r \in Readers : reader[r].pc = "done" =>
        \A p \in PhotoIds : changedAt[p] < reader[r].oldest =>
            reader[r].seen[p] = IF InList(reader[r].list, index[p]) THEN 1 ELSE 0

=============================================================================
