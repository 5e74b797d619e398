------------------------- MODULE PhotoLibraryProofs -------------------------
(* The gallery of photos, for all sets of photos, servers, readers and page sizes, and the
   mirror of the Drive behind it, for any files, folders, tickers and changes. *)
EXTENDS PhotoGallery, PhotoSync, FiniteSetTheorems, WellFoundedInduction, TLAPS

-----------------------------------------------------------------------------
(* The order of the rows *)

LEMMA CursorNumbers ==
    ASSUME NEW c \in Cursor
    PROVE  c[1] \in Nat /\ c[2] \in Nat /\ c[3] \in Nat
  <1>1. c[1] \in 1 .. LastSort /\ c[2] \in AlbumIds \cup {0} /\ c[3] \in PhotoIds
    BY DEF Cursor
  <1>2. c[1] \in Nat
    BY <1>1, GalleryAssumption
  <1>3. c[2] \in Nat
    <2>1. AlbumIds \cup {0} \subseteq Nat
      BY GalleryAssumption
    <2> QED
      BY <1>1, <2>1
  <1>4. c[3] \in Nat
    BY <1>1, GalleryAssumption
  <1> QED
    BY <1>2, <1>3, <1>4

LEMMA PrecedesIsFollows ==
    ASSUME NEW list, NEW k \in Cursor, NEW c \in Cursor
    PROVE  Precedes(list, k, c) <=> Follows(list, k, c)
  BY CursorNumbers DEF Precedes, Follows

LEMMA PrecedesOnce ==
    ASSUME NEW list, NEW k \in Cursor, NEW c \in Cursor, Precedes(list, k, c)
    PROVE  ~Precedes(list, c, k)
  BY CursorNumbers DEF Precedes

LEMMA PrecedesTotally ==
    ASSUME NEW list, NEW k \in Cursor, NEW c \in Cursor, k[3] # c[3]
    PROVE  Precedes(list, k, c) \/ Precedes(list, c, k)
  BY CursorNumbers DEF Precedes

LEMMA PrecedesOn ==
    ASSUME NEW list, NEW k \in Cursor, NEW c \in Cursor, NEW d \in Cursor,
           Precedes(list, k, c), Precedes(list, c, d)
    PROVE  Precedes(list, k, d)
  BY CursorNumbers DEF Precedes

LEMMA NoPosition == NoCursor \notin Cursor
  BY GalleryAssumption DEF NoCursor, Cursor

IndexTyped == index \in [PhotoIds -> IndexRow]

LEMMA PositionTyped ==
    ASSUME IndexTyped, NEW p \in PhotoIds
    PROVE  Position(p) \in Cursor /\ Position(p)[3] = p
  BY DEF IndexTyped, IndexRow, Position, Cursor

\* In a finite set of photos, one comes first and one comes last.
LEMMA OneIsFirst ==
    ASSUME IndexTyped, NEW list, NEW S \in SUBSET PhotoIds, S # {}
    PROVE  \E p \in S : \A q \in S \ {p} : Precedes(list, Position(q), Position(p))
  <1> DEFINE Above(p) == {q \in S : Precedes(list, Position(p), Position(q))}
             T == {Above(p) : p \in S}
  <1>1. IsFiniteSet(S)
    BY GalleryAssumption, FS_Subset
  <1>2. IsWellFoundedOn(StrictSubsetOrdering(S), SUBSET S)
    BY <1>1, FS_StrictSubsetOrderingWellFounded, FS_FiniteSubsetsOfFinite
  <1>3. T \subseteq SUBSET S /\ T # {}
    OBVIOUS
  <1>4. PICK U \in T : \A V \in T : << V, U >> \notin StrictSubsetOrdering(S)
    <2> HIDE DEF T
    <2> QED
      BY <1>2, <1>3, WFMin
  <1>5. PICK p \in S : U = Above(p)
    OBVIOUS
  <1>6. ASSUME NEW q \in S \ {p} PROVE Precedes(list, Position(q), Position(p))
    <2> SUFFICES ASSUME Precedes(list, Position(p), Position(q)) PROVE FALSE
      BY PositionTyped, PrecedesTotally
    <2>1. \A r \in S : Position(r) \in Cursor
      BY PositionTyped
    <2>2. q \in Above(p) /\ q \notin Above(q) /\ Above(q) \subseteq Above(p)
      BY <2>1, PrecedesOnce, PrecedesOn
    <2>3. Above(q) \in SUBSET S /\ Above(p) \in SUBSET S /\ Above(q) \in T
      OBVIOUS
    <2> QED
      BY <1>4, <1>5, <2>2, <2>3 DEF StrictSubsetOrdering
  <1> QED
    BY <1>6

LEMMA OneIsLast ==
    ASSUME IndexTyped, NEW list, NEW S \in SUBSET PhotoIds, S # {}
    PROVE  \E p \in S : \A q \in S \ {p} : Precedes(list, Position(p), Position(q))
  <1> DEFINE Below(p) == {q \in S : Precedes(list, Position(q), Position(p))}
             T == {Below(p) : p \in S}
  <1>1. IsFiniteSet(S)
    BY GalleryAssumption, FS_Subset
  <1>2. IsWellFoundedOn(StrictSubsetOrdering(S), SUBSET S)
    BY <1>1, FS_StrictSubsetOrderingWellFounded, FS_FiniteSubsetsOfFinite
  <1>3. T \subseteq SUBSET S /\ T # {}
    OBVIOUS
  <1>4. PICK U \in T : \A V \in T : << V, U >> \notin StrictSubsetOrdering(S)
    <2> HIDE DEF T
    <2> QED
      BY <1>2, <1>3, WFMin
  <1>5. PICK p \in S : U = Below(p)
    OBVIOUS
  <1>6. ASSUME NEW q \in S \ {p} PROVE Precedes(list, Position(p), Position(q))
    <2> SUFFICES ASSUME Precedes(list, Position(q), Position(p)) PROVE FALSE
      BY PositionTyped, PrecedesTotally
    <2>1. \A r \in S : Position(r) \in Cursor
      BY PositionTyped
    <2>2. q \in Below(p) /\ q \notin Below(q) /\ Below(q) \subseteq Below(p)
      BY <2>1, PrecedesOnce, PrecedesOn
    <2>3. Below(q) \in SUBSET S /\ Below(p) \in SUBSET S /\ Below(q) \in T
      OBVIOUS
    <2> QED
      BY <1>4, <1>5, <2>2, <2>3 DEF StrictSubsetOrdering
  <1> QED
    BY <1>6

-----------------------------------------------------------------------------
(* Pages *)

\* What a page says of the photos that did not change since version ver: those of the list
\* between its cursor and the next one, and no other.
PageRight(list, after, ver, page) ==
    /\ page.next # NoCursor /\ after # NoCursor => Precedes(list, page.next, after)
    /\ \A p \in PhotoIds : changedAt[p] < ver =>
          (p \in page.photos <=>
              /\ InList(list, index[p])
              /\ after = NoCursor \/ Precedes(list, Position(p), after)
              /\ page.next = NoCursor \/ ~Precedes(list, Position(p), page.next))

\* The rows before the limit, and the rest.
LEMMA PagesCut ==
    ASSUME IndexTyped, NEW list, NEW rows \in SUBSET PhotoIds, rows # PageOf(list, rows)
    PROVE  /\ LastOf(list, PageOf(list, rows)) \in PageOf(list, rows)
           /\ \A p \in rows : p \in PageOf(list, rows) <=>
                 ~Precedes(list, Position(p), Position(LastOf(list, PageOf(list, rows))))
  <1> DEFINE page == PageOf(list, rows)
             Above(p) == {q \in rows : Follows(list, Position(p), Position(q))}
             l == LastOf(list, page)
  <1>1. \A p \in rows : Position(p) \in Cursor /\ Position(p)[3] = p
    BY PositionTyped
  <1>2. page = {p \in rows : Cardinality(Above(p)) < PageLimit}
    BY DEF PageOf
  <1>3. \A p \in rows : IsFiniteSet(Above(p)) /\ Above(p) \subseteq rows
    BY GalleryAssumption, FS_Subset
  <1>4. page # {}
    <2>1. rows # {}
      BY <1>2
    <2>2. PICK m \in rows : \A q \in rows \ {m} : Precedes(list, Position(q), Position(m))
      BY <2>1, OneIsFirst
    <2>3. Above(m) = {}
      BY <1>1, <2>2, PrecedesIsFollows, PrecedesOnce
    <2>4. Cardinality(Above(m)) = 0
      BY <2>3, FS_EmptySet
    <2> QED
      BY <1>2, <2>4, GalleryAssumption
  <1>5. l \in page /\ \A q \in page \ {l} : Follows(list, Position(l), Position(q))
    <2>1. page \in SUBSET PhotoIds
      BY <1>2
    <2>2. \E p \in page : \A q \in page \ {p} : Precedes(list, Position(p), Position(q))
      BY <1>4, <2>1, OneIsLast
    <2>3. \E p \in page : \A q \in page \ {p} : Follows(list, Position(p), Position(q))
      BY <1>1, <1>2, <2>2, PrecedesIsFollows
    <2> HIDE DEF page
    <2> QED
      BY <2>3 DEF LastOf
  <1> HIDE DEF l
  <1>6. ASSUME NEW p \in rows, p \in page PROVE ~Precedes(list, Position(p), Position(l))
    <2>1. l \in rows
      BY <1>2, <1>5
    <2>2. CASE p = l
      BY <1>1, <2>1, <2>2, PrecedesOnce
    <2>3. CASE p # l
      BY <1>1, <1>5, <1>6, <2>1, <2>3, PrecedesIsFollows, PrecedesOnce
    <2> QED
      BY <2>2, <2>3
  <1>7. ASSUME NEW p \in rows, p \notin page PROVE Precedes(list, Position(p), Position(l))
    <2>1. l \in rows /\ p # l
      BY <1>2, <1>5, <1>7
    <2> SUFFICES ASSUME Precedes(list, Position(l), Position(p)) PROVE FALSE
      BY <1>1, <2>1, PrecedesTotally
    <2>2. Above(p) \in SUBSET Above(l)
      BY <1>1, <2>1, PrecedesIsFollows, PrecedesOn
    <2>3. Cardinality(Above(p)) <= Cardinality(Above(l))
      BY <1>3, <2>1, <2>2, FS_Subset
    <2>4. Cardinality(Above(p)) \in Nat /\ Cardinality(Above(l)) \in Nat
      BY <1>3, <2>1, FS_CardinalityType
    <2>5. Cardinality(Above(l)) < PageLimit
      BY <1>2, <1>5
    <2> QED
      BY <1>2, <1>7, <2>3, <2>4, <2>5, GalleryAssumption
  <1> QED
    BY <1>5, <1>6, <1>7 DEF l

\* What photosResponse answers is right of the index it reads.
LEMMA ResponsesAreRight ==
    ASSUME IndexTyped, NEW list \in Lists, NEW after \in Cursor \cup {NoCursor}, NEW ver
    PROVE  /\ photosResponse(list, after) \in Page
           /\ PageRight(list, after, ver, photosResponse(list, after))
  <1> DEFINE rows == RowsAfter(list, after)
             page == PageOf(list, rows)
             next == IF rows = page THEN NoCursor ELSE Position(LastOf(list, page))
  <1>1. rows \in SUBSET PhotoIds /\ page \subseteq rows
    BY DEF RowsAfter, PageOf
  <1>2. photosResponse(list, after) = [photos |-> page, next |-> next]
    BY DEF photosResponse
  <1>3. rows # page => LastOf(list, page) \in page
    BY <1>1, PagesCut
  <1>4. next \in Cursor \cup {NoCursor} /\ (next # NoCursor => rows # page)
        /\ (rows # page => next = Position(LastOf(list, page)) /\ next \in Cursor)
    BY <1>1, <1>3, PositionTyped
  <1>5. next # NoCursor /\ after # NoCursor => Precedes(list, next, after)
    BY <1>1, <1>3, <1>4 DEF RowsAfter
  <1>6. \A p \in rows : p \in page <=> (next = NoCursor \/ ~Precedes(list, Position(p), next))
    BY <1>1, <1>4, PagesCut, NoPosition
  <1>7. \A p \in PhotoIds : p \in rows <=>
            InList(list, index[p]) /\ (after = NoCursor \/ Precedes(list, Position(p), after))
    BY DEF RowsAfter
  <1> HIDE DEF rows, page, next
  <1>8. photosResponse(list, after) \in Page
    BY <1>1, <1>2, <1>4 DEF Page
  <1>9. PageRight(list, after, ver, [photos |-> page, next |-> next])
    BY <1>1, <1>5, <1>6, <1>7 DEF PageRight
  <1> QED
    BY <1>2, <1>8, <1>9

-----------------------------------------------------------------------------
(* Readers, caches and the index *)

GalleryTyped ==
    /\ IndexTyped
    /\ dataVersion \in 0 .. MaxVersion
    /\ changedAt \in [PhotoIds -> 0 .. MaxVersion]
    /\ cache \in [Servers -> Cache]
    /\ \A s \in Servers : /\ IsFiniteSet(cache[s].entries)
                          /\ Cardinality(cache[s].entries) <= MaxCacheSize
    /\ reader \in [Readers -> Reader]
    /\ commits \in 0 .. MaxCommits /\ walks \in 0 .. MaxWalks

\* An answer was computed from its version or a later one that has been reached, and is right
\* of what did not change since.
AnswerRight(a) ==
    /\ a.ver <= a.built /\ a.built <= dataVersion
    /\ PageRight(a.list, a.after, a.ver, a.page)

CachesRight ==
    \A s \in Servers : /\ cache[s].ver <= dataVersion
                       /\ \A e \in cache[s].entries : AnswerRight(e)

\* A walk that received something.
Started(s) == s.after # NoCursor \/ s.pc = "done"

\* What a walk has seen: of the photos that did not change since its oldest answer, those of
\* the list from the beginning to the cursor, once.
SeenRight(s) ==
    /\ Started(s) => s.oldest <= dataVersion
    /\ \A p \in PhotoIds : (Started(s) => changedAt[p] < s.oldest) =>
          s.seen[p] = IF /\ Started(s) /\ InList(s.list, index[p])
                         /\ s.pc = "done" \/ ~Precedes(s.list, Position(p), s.after)
                      THEN 1 ELSE 0

ReaderRight(s) ==
    /\ s.ver <= dataVersion
    /\ s.pc = "put" => AnswerRight(s)
    /\ s.pc = "done" => s.after = NoCursor
    /\ s.pc # "idle" => SeenRight(s)

ReadersRight == \A r \in Readers : ReaderRight(reader[r])

GalleryInv == GalleryTyped /\ CachesRight /\ ReadersRight

LEMMA NoReaderRight ==
    ASSUME dataVersion \in Nat
    PROVE  NoReader \in Reader /\ ReaderRight(NoReader)
  <1>1. NoReader \in Reader
    BY GalleryAssumption DEF NoReader, Reader, Lists, Page, NoPage
  <1> QED
    BY <1>1 DEF NoReader, ReaderRight

\* The index as it was: what was said of answers and walks stays.
LEMMA IndexAsItWas ==
    ASSUME UNCHANGED galleryIndexVars, NEW s
    PROVE  /\ AnswerRight(s) => AnswerRight(s)'
           /\ ReaderRight(s) => ReaderRight(s)'
  BY DEF galleryIndexVars, AnswerRight, PageRight, ReaderRight, SeenRight, Started, InList, Position

\* A step of a reader leaves the others alone.
LEMMA ReaderAlone ==
    ASSUME GalleryInv, NEW r \in Readers, NEW s \in Reader, ReaderGoes(r, s), ReaderRight(s),
           UNCHANGED galleryIndexVars
    PROVE  reader' \in [Readers -> Reader] /\ ReadersRight'
  <1>1. reader' \in [Readers -> Reader]
        /\ \A q \in Readers : reader'[q] = IF q = r THEN s ELSE reader[q]
    BY DEF ReaderGoes, GalleryInv, GalleryTyped
  <1>2. ASSUME NEW q \in Readers PROVE ReaderRight(reader[q])'
    <2>1. PICK t : t = reader'[q]
      OBVIOUS
    <2>2. ReaderRight(t)
      BY <1>1, <2>1 DEF GalleryInv, ReadersRight
    <2>3. ReaderRight(t)'
      BY <2>2, IndexAsItWas
    <2> QED
      BY <2>1, <2>3
  <1> QED
    BY <1>1, <1>2 DEF ReadersRight

LEMMA CachesKept ==
    ASSUME GalleryInv, UNCHANGED << galleryIndexVars, cache >>
    PROVE  CachesRight'
  <1>1. ASSUME NEW s \in Servers, NEW e \in cache[s].entries PROVE AnswerRight(e)'
    BY <1>1, IndexAsItWas DEF GalleryInv, CachesRight
  <1> QED
    BY <1>1 DEF GalleryInv, CachesRight, galleryIndexVars

\* A right page takes a walk further.
LEMMA PagesFitTogether ==
    ASSUME GalleryTyped, NEW s \in Reader, ReaderRight(s), s.pc \notin {"idle", "done"},
           NEW page \in Page, NEW ver \in 0 .. MaxVersion, ver <= dataVersion,
           PageRight(s.list, s.after, ver, page)
    PROVE  Receives(s, page, ver) \in Reader /\ ReaderRight(Receives(s, page, ver))
  <1> DEFINE oldest == IF ver < s.oldest THEN ver ELSE s.oldest
             seen == [p \in PhotoIds |-> IF p \in page.photos /\ s.seen[p] < 2 THEN s.seen[p] + 1
                                         ELSE s.seen[p]]
             pc == IF page.next = NoCursor THEN "done" ELSE "ask"
  <1>1. PICK t : t = Receives(s, page, ver)
    OBVIOUS
  <1>2. /\ s.seen \in [PhotoIds -> 0 .. 2] /\ s.oldest \in 0 .. MaxVersion
        /\ s.after \in Cursor \cup {NoCursor} /\ page.next \in Cursor \cup {NoCursor}
        /\ dataVersion \in Nat /\ changedAt \in [PhotoIds -> 0 .. MaxVersion]
    BY GalleryAssumption DEF Reader, Page, GalleryTyped
  <1>3. seen \in [PhotoIds -> 0 .. 2] /\ oldest \in 0 .. MaxVersion /\ oldest <= ver /\ oldest <= s.oldest
    BY <1>2
  <1>4. NoReader.at \in Servers /\ NoPage \in Page
    BY GalleryAssumption DEF NoReader, NoPage, Page
  <1>5. Receives(s, page, ver) = [s EXCEPT !.pc = pc, !.after = page.next, !.at = NoReader.at,
                                           !.page = NoPage, !.ver = 0, !.built = 0,
                                           !.oldest = oldest, !.seen = seen]
    BY DEF Receives, Reader
  <1> HIDE DEF oldest, seen
  <1>6. /\ t \in Reader /\ t.pc = pc /\ t.after = page.next /\ t.ver = 0 /\ t.oldest = oldest
        /\ t.seen = seen /\ t.list = s.list
    <2>1. pc \in {"ask", "done"} /\ 0 \in 0 .. MaxVersion
      BY GalleryAssumption
    <2> HIDE DEF pc
    <2>2. PICK at \in Servers : at = NoReader.at
      BY <1>4
    <2>3. PICK zero \in 0 .. MaxVersion : zero = 0
      BY <2>1
    <2>4. PICK kind \in {"ask", "done"} : kind = pc
      BY <2>1
    <2>5. PICK after \in Cursor \cup {NoCursor} : after = page.next
      BY <1>2
    <2>6. PICK none \in Page : none = NoPage
      BY <1>4
    <2>7. t = [s EXCEPT !.pc = kind, !.after = after, !.at = at, !.page = none,
                        !.ver = zero, !.built = zero, !.oldest = oldest, !.seen = seen]
      BY <1>1, <1>5, <2>2, <2>3, <2>4, <2>5, <2>6
    <2>8. /\ t \in Reader /\ t.pc = kind /\ t.after = after /\ t.ver = zero /\ t.oldest = oldest
          /\ t.seen = seen /\ t.list = s.list
      BY <1>3, <2>7 DEF Reader
    <2> QED
      BY <2>3, <2>4, <2>5, <2>8
  <1>7. Started(t) /\ t.pc # "put" /\ (t.pc = "done" <=> t.after = NoCursor)
    BY <1>6 DEF Started
  <1>8. ASSUME NEW p \in PhotoIds, changedAt[p] < oldest
        PROVE  seen[p] = IF /\ InList(s.list, index[p])
                            /\ page.next = NoCursor \/ ~Precedes(s.list, Position(p), page.next)
                         THEN 1 ELSE 0
    <2>1. changedAt[p] < s.oldest /\ changedAt[p] < ver
      BY <1>2, <1>3, <1>8
    <2>2. p \in page.photos <=>
              /\ InList(s.list, index[p])
              /\ s.after = NoCursor \/ Precedes(s.list, Position(p), s.after)
              /\ page.next = NoCursor \/ ~Precedes(s.list, Position(p), page.next)
      BY <2>1 DEF PageRight
    <2>3. s.seen[p] = IF /\ s.after # NoCursor /\ InList(s.list, index[p])
                         /\ ~Precedes(s.list, Position(p), s.after)
                      THEN 1 ELSE 0
      BY <2>1 DEF ReaderRight, SeenRight, Started
    <2>4. s.after # NoCursor /\ page.next # NoCursor /\ Precedes(s.list, Position(p), page.next)
              => Precedes(s.list, Position(p), s.after)
      BY <1>2, PositionTyped, PrecedesOn DEF PageRight, GalleryTyped
    <2>5. seen[p] = IF p \in page.photos /\ s.seen[p] < 2 THEN s.seen[p] + 1 ELSE s.seen[p]
      BY DEF seen
    <2>6. CASE p \in page.photos
      <3>1. s.seen[p] = 0
        BY <2>2, <2>3, <2>6
      <3> QED
        BY <2>2, <2>5, <2>6, <3>1
    <2>7. CASE p \notin page.photos
      BY <2>2, <2>3, <2>4, <2>5, <2>7
    <2> QED
      BY <2>6, <2>7
  <1>9. SeenRight(t)
    BY <1>2, <1>3, <1>6, <1>7, <1>8 DEF SeenRight
  <1>10. ReaderRight(t)
    BY <1>2, <1>6, <1>7, <1>9 DEF ReaderRight
  <1> QED
    BY <1>1, <1>6, <1>10

LEMMA GalleryNumbers ==
    ASSUME GalleryInv
    PROVE  /\ dataVersion \in Nat /\ \A p \in PhotoIds : changedAt[p] \in Nat
           /\ \A r \in Readers : reader[r] \in Reader /\ reader[r].ver \in Nat /\ reader[r].built \in Nat
                                 /\ reader[r].oldest \in Nat
           /\ \A s \in Servers : /\ cache[s] \in Cache /\ cache[s].ver \in Nat
                                 /\ \A e \in cache[s].entries : e \in CachedPage /\ e.ver \in Nat
                                                                /\ e.built \in Nat
  <1>1. dataVersion \in Nat /\ \A p \in PhotoIds : changedAt[p] \in Nat
    BY GalleryAssumption DEF GalleryInv, GalleryTyped
  <1>2. ASSUME NEW r \in Readers
        PROVE  reader[r] \in Reader /\ reader[r].ver \in Nat /\ reader[r].built \in Nat
               /\ reader[r].oldest \in Nat
    <2>1. reader[r] \in Reader
      BY DEF GalleryInv, GalleryTyped
    <2> QED
      BY <2>1, GalleryAssumption DEF Reader
  <1>3. ASSUME NEW s \in Servers
        PROVE  /\ cache[s] \in Cache /\ cache[s].ver \in Nat
               /\ \A e \in cache[s].entries : e \in CachedPage /\ e.ver \in Nat /\ e.built \in Nat
    <2>1. cache[s] \in Cache
      BY DEF GalleryInv, GalleryTyped
    <2>2. cache[s].ver \in Nat /\ \A e \in cache[s].entries : e \in CachedPage
      BY <2>1, GalleryAssumption DEF Cache
    <2>3. \A e \in CachedPage : e.ver \in Nat /\ e.built \in Nat
      BY GalleryAssumption DEF CachedPage
    <2> QED
      BY <2>1, <2>2, <2>3
  <1> QED
    BY <1>1, <1>2, <1>3

-----------------------------------------------------------------------------
(* The synchronisation *)

\* What changes now changed after every answer there is.
Synchronised ==
    /\ dataVersion' \in 0 .. MaxVersion /\ dataVersion <= dataVersion'
    /\ \A q \in PhotoIds : \/ index'[q] = index[q] /\ changedAt'[q] = changedAt[q]
                           \/ changedAt'[q] = dataVersion

LEMMA SynchronisedAnswers ==
    ASSUME GalleryInv, Synchronised, NEW a, a.ver \in Nat, a.built \in Nat, AnswerRight(a)
    PROVE  AnswerRight(a)'
  <1>1. a.ver <= dataVersion /\ a.built <= dataVersion' /\ a.ver <= a.built
    BY GalleryNumbers, GalleryAssumption DEF AnswerRight, Synchronised
  <1>2. ASSUME NEW q \in PhotoIds, changedAt'[q] < a.ver
        PROVE  index'[q] = index[q] /\ changedAt[q] < a.ver
    BY <1>1, <1>2, GalleryNumbers DEF Synchronised
  <1>3. PageRight(a.list, a.after, a.ver, a.page)'
    BY <1>2 DEF AnswerRight, PageRight, InList, Position
  <1> QED
    BY <1>1, <1>3 DEF AnswerRight

LEMMA SynchronisedWalks ==
    ASSUME GalleryInv, Synchronised, NEW s \in Reader, ReaderRight(s)
    PROVE  ReaderRight(s)'
  <1>1. s.ver \in Nat /\ s.built \in Nat /\ s.oldest \in Nat
    BY GalleryAssumption DEF Reader
  <1>2. s.ver <= dataVersion'
    BY <1>1, GalleryNumbers, GalleryAssumption DEF ReaderRight, Synchronised
  <1>3. s.pc = "put" => AnswerRight(s)'
    BY <1>1, SynchronisedAnswers DEF ReaderRight
  <1>4. ASSUME s.pc # "idle" PROVE SeenRight(s)'
    <2>1. SeenRight(s)
      BY <1>4 DEF ReaderRight
    <2>2. Started(s) => s.oldest <= dataVersion /\ s.oldest <= dataVersion'
      BY <1>1, <2>1, GalleryNumbers, GalleryAssumption DEF SeenRight, Synchronised
    <2>3. ASSUME NEW p \in PhotoIds, Started(s) => changedAt'[p] < s.oldest
          PROVE  /\ Started(s) => changedAt[p] < s.oldest
                 /\ Started(s) => index'[p] = index[p]
      BY <1>1, <2>2, <2>3, GalleryNumbers DEF Synchronised
    <2>4. ASSUME NEW p \in PhotoIds, Started(s) => changedAt'[p] < s.oldest
          PROVE  s.seen[p] = IF /\ Started(s) /\ InList(s.list, index'[p])
                                /\ s.pc = "done" \/ ~Precedes(s.list, Position(p)', s.after)
                             THEN 1 ELSE 0
      <3>1. CASE Started(s)
        BY <2>1, <2>3, <2>4, <3>1 DEF SeenRight, InList, Position
      <3>2. CASE ~Started(s)
        BY <2>1, <3>2 DEF SeenRight
      <3> QED
        BY <3>1, <3>2
    <2> QED
      BY <2>2, <2>4 DEF SeenRight, Started
  <1> QED
    BY <1>2, <1>3, <1>4 DEF ReaderRight

LEMMA SynchronisationKeepsGallery ==
    ASSUME GalleryInv,
           \/ \E p \in PhotoIds, row \in IndexRow, bump \in {0, 1} : IndexChanges(p, row, bump)
           \/ bumpVersion
    PROVE  GalleryInv'
  <1>1. /\ UNCHANGED << cache, reader, walks >>
        /\ index' \in [PhotoIds -> IndexRow] /\ changedAt' \in [PhotoIds -> 0 .. MaxVersion]
        /\ commits' \in 0 .. MaxCommits /\ Synchronised
    <2>1. CASE bumpVersion
      BY <2>1, GalleryAssumption
      DEF bumpVersion, Synchronised, GalleryInv, GalleryTyped, IndexTyped
    <2>2. ASSUME NEW p \in PhotoIds, NEW row \in IndexRow, NEW bump \in {0, 1},
                 IndexChanges(p, row, bump)
          PROVE  /\ UNCHANGED << cache, reader, walks >>
                 /\ index' \in [PhotoIds -> IndexRow] /\ changedAt' \in [PhotoIds -> 0 .. MaxVersion]
                 /\ commits' \in 0 .. MaxCommits /\ Synchronised
      BY <2>2, GalleryAssumption
      DEF IndexChanges, Synchronised, GalleryInv, GalleryTyped, IndexTyped
    <2> QED
      BY <2>1, <2>2
  <1>2. GalleryTyped'
    BY <1>1 DEF GalleryInv, GalleryTyped, IndexTyped, Synchronised
  <1>3. ASSUME NEW s \in Servers
        PROVE  cache'[s].ver <= dataVersion' /\ \A e \in cache'[s].entries : AnswerRight(e)'
    <2>1. cache'[s] = cache[s]
      BY <1>1
    <2>2. cache[s].ver <= dataVersion'
      BY <1>1, GalleryNumbers, GalleryAssumption DEF GalleryInv, CachesRight, Synchronised
    <2>3. ASSUME NEW e \in cache[s].entries PROVE AnswerRight(e)'
      BY <1>1, GalleryNumbers, SynchronisedAnswers DEF GalleryInv, CachesRight
    <2> QED
      BY <2>1, <2>2, <2>3
  <1>4. CachesRight'
    BY <1>3 DEF CachesRight
  <1>5. ASSUME NEW r \in Readers PROVE ReaderRight(reader[r])'
    <2>1. PICK s \in Reader : s = reader[r]
      BY GalleryNumbers
    <2>2. ReaderRight(s)'
      BY <1>1, <2>1, SynchronisedWalks DEF GalleryInv, ReadersRight
    <2> QED
      BY <1>1, <2>1, <2>2
  <1> QED
    BY <1>2, <1>4, <1>5 DEF GalleryInv, ReadersRight

-----------------------------------------------------------------------------
(* Requests *)

\* A step of a reader that writes nothing.
LEMMA ReadingKeepsGallery ==
    ASSUME GalleryInv, NEW r \in Readers, NEW s \in Reader, ReaderGoes(r, s), ReaderRight(s),
           UNCHANGED << galleryIndexVars, cache >>, walks' \in 0 .. MaxWalks
    PROVE  GalleryInv'
  <1>1. reader' \in [Readers -> Reader] /\ ReadersRight'
    BY ReaderAlone
  <1>2. CachesRight'
    BY CachesKept
  <1>3. GalleryTyped'
    BY <1>1 DEF GalleryInv, GalleryTyped, IndexTyped, galleryIndexVars
  <1> QED
    BY <1>1, <1>2, <1>3 DEF GalleryInv

LEMMA BeginningKeepsGallery ==
    ASSUME GalleryInv, NEW r \in Readers, NEW list \in Lists, BeginWalk(r, list)
    PROVE  GalleryInv'
  <1> DEFINE s == [NoReader EXCEPT !.pc = "ask", !.list = list]
  <1>1. NoReader \in Reader /\ ReaderRight(NoReader)
    BY NoReaderRight, GalleryNumbers
  <1>2. /\ s \in Reader /\ s.pc = "ask" /\ s.after = NoCursor /\ s.ver = 0
        /\ s.seen = [p \in PhotoIds |-> 0]
    BY <1>1 DEF NoReader, Reader
  <1>3. ReaderGoes(r, s) /\ walks' \in 0 .. MaxWalks /\ UNCHANGED << galleryIndexVars, cache >>
    BY GalleryAssumption DEF BeginWalk, GalleryInv, GalleryTyped
  <1> HIDE DEF s
  <1>4. ReaderRight(s)
    BY <1>2, GalleryNumbers DEF ReaderRight, SeenRight, Started
  <1> QED
    BY <1>2, <1>3, <1>4, ReadingKeepsGallery

\* A step between two answers: what a walk has seen does not depend on it.
LEMMA StillRight ==
    ASSUME NEW s \in Reader, NEW t \in Reader, ReaderRight(s), s.pc \notin {"idle", "done"},
           t.pc \notin {"idle", "done", "put"}, t.list = s.list, t.after = s.after,
           t.oldest = s.oldest, t.seen = s.seen, t.ver <= dataVersion
    PROVE  ReaderRight(t)
  BY DEF ReaderRight, SeenRight, Started

LEMMA VersionsKeepGallery ==
    ASSUME GalleryInv, NEW r \in Readers, NEW s \in Servers, currentVersion(r, s)
    PROVE  GalleryInv'
  <1>1. PICK v \in 0 .. MaxVersion, pc \in {"lookup", "version"} :
            v <= dataVersion /\ ReaderGoes(r, [reader[r] EXCEPT !.pc = pc, !.at = s, !.ver = v])
    <2>1. cache[s].ver \in 0 .. MaxVersion /\ cache[s].ver <= dataVersion
      BY GalleryNumbers DEF Cache, GalleryInv, CachesRight
    <2>2. \A q \in Readers : reader[q].ver \in 0 .. MaxVersion /\ reader[q].ver <= dataVersion
      BY GalleryNumbers DEF Reader, GalleryInv, ReadersRight, ReaderRight
    <2>3. dataVersion \in 0 .. MaxVersion /\ dataVersion <= dataVersion
      BY GalleryAssumption DEF GalleryInv, GalleryTyped
    <2> QED
      BY <2>1, <2>2, <2>3 DEF currentVersion
  <1>2. /\ reader[r] \in Reader /\ ReaderRight(reader[r]) /\ reader[r].pc = "ask"
        /\ UNCHANGED << galleryIndexVars, cache >> /\ walks' \in 0 .. MaxWalks
    BY GalleryNumbers DEF currentVersion, GalleryInv, GalleryTyped, ReadersRight
  <1> DEFINE t == [reader[r] EXCEPT !.pc = pc, !.at = s, !.ver = v]
  <1>3. /\ t \in Reader /\ t.pc = pc /\ t.list = reader[r].list /\ t.after = reader[r].after
        /\ t.oldest = reader[r].oldest /\ t.seen = reader[r].seen /\ t.ver = v
    BY <1>2 DEF Reader
  <1>4. ReaderGoes(r, t)
    BY <1>1
  <1> HIDE DEF t
  <1>5. ReaderRight(t)
    BY <1>1, <1>2, <1>3, StillRight
  <1> QED
    BY <1>2, <1>3, <1>4, <1>5, ReadingKeepsGallery

LEMMA AnsweringKeepsGallery ==
    ASSUME GalleryInv, NEW r \in Readers, get(r) \/ build(r)
    PROVE  GalleryInv'
  <1>1. /\ reader[r] \in Reader /\ ReaderRight(reader[r]) /\ reader[r].pc \in {"lookup", "query"}
        /\ reader[r].at \in Servers
        /\ UNCHANGED << galleryIndexVars, cache >> /\ walks' \in 0 .. MaxWalks
    BY GalleryNumbers DEF get, build, GalleryInv, GalleryTyped, ReadersRight, Reader
  <1>2. ASSUME NEW e \in cache[reader[r].at].entries, SameRequest(reader[r], e),
               ReaderGoes(r, Receives(reader[r], e.page, e.ver))
        PROVE  GalleryInv'
    <2>1. e \in CachedPage /\ AnswerRight(e) /\ e.ver \in Nat /\ e.built \in Nat
      BY <1>1, GalleryNumbers DEF GalleryInv, CachesRight
    <2>2. e.page \in Page /\ e.ver \in 0 .. MaxVersion
      BY <2>1 DEF CachedPage
    <2>3. e.ver <= dataVersion /\ PageRight(reader[r].list, reader[r].after, e.ver, e.page)
      BY <1>2, <2>1, GalleryNumbers DEF AnswerRight, SameRequest
    <2>4. GalleryTyped
      BY DEF GalleryInv
    <2>5. /\ Receives(reader[r], e.page, e.ver) \in Reader
          /\ ReaderRight(Receives(reader[r], e.page, e.ver))
      BY <1>1, <2>2, <2>3, <2>4, PagesFitTogether
    <2> QED
      BY <1>1, <1>2, <2>5, ReadingKeepsGallery
  <1>3. ASSUME NEW pc \in {"query", "wait"}, ReaderGoes(r, [reader[r] EXCEPT !.pc = pc])
        PROVE  GalleryInv'
    <2> DEFINE t == [reader[r] EXCEPT !.pc = pc]
    <2>1. /\ t \in Reader /\ t.pc = pc /\ t.list = reader[r].list /\ t.after = reader[r].after
          /\ t.oldest = reader[r].oldest /\ t.seen = reader[r].seen /\ t.ver = reader[r].ver
      BY <1>1 DEF Reader
    <2>2. ReaderGoes(r, t)
      BY <1>3
    <2> HIDE DEF t
    <2>3. ReaderRight(t)
      BY <1>1, <2>1, StillRight DEF ReaderRight
    <2> QED
      BY <1>1, <2>1, <2>2, <2>3, ReadingKeepsGallery
  <1>4. CASE get(r)
    BY <1>2, <1>3, <1>4 DEF get
  <1>5. CASE build(r)
    <2> DEFINE answer == photosResponse(reader[r].list, reader[r].after)
               t == [reader[r] EXCEPT !.pc = "put", !.built = dataVersion, !.page = answer]
    <2>1. reader[r].list \in Lists /\ reader[r].after \in Cursor \cup {NoCursor}
      BY <1>1 DEF Reader
    <2>2. answer \in Page /\ PageRight(reader[r].list, reader[r].after, reader[r].ver, answer)
      BY <2>1, ResponsesAreRight DEF GalleryInv, GalleryTyped
    <2>3. dataVersion \in 0 .. MaxVersion
      BY DEF GalleryInv, GalleryTyped
    <2>4. ReaderGoes(r, t)
      BY <1>5 DEF build
    <2> HIDE DEF answer
    <2>5. /\ t \in Reader /\ t.pc = "put" /\ t.list = reader[r].list /\ t.after = reader[r].after
          /\ t.oldest = reader[r].oldest /\ t.seen = reader[r].seen /\ t.ver = reader[r].ver
          /\ t.built = dataVersion /\ t.page = answer
      BY <1>1, <2>2, <2>3 DEF Reader
    <2> HIDE DEF t
    <2>6. AnswerRight(t)
      BY <1>1, <2>2, <2>5, GalleryNumbers DEF AnswerRight, ReaderRight
    <2>7. ReaderRight(t)
      BY <1>1, <2>5, <2>6 DEF ReaderRight, SeenRight, Started
    <2> QED
      BY <1>1, <2>4, <2>5, <2>7, ReadingKeepsGallery
  <1> QED
    BY <1>4, <1>5

-----------------------------------------------------------------------------
(* The caches *)

\* What a step must leave to keep the gallery, when it changes caches and readers.
LEMMA CachesTyped ==
    ASSUME GalleryInv, cache' \in [Servers -> Cache], reader' \in [Readers -> Reader],
           UNCHANGED << galleryIndexVars, walks >>,
           \A s \in Servers : /\ IsFiniteSet(cache'[s].entries)
                              /\ Cardinality(cache'[s].entries) <= MaxCacheSize
                              /\ cache'[s].ver <= dataVersion
                              /\ \A e \in cache'[s].entries : AnswerRight(e)
    PROVE  GalleryTyped' /\ CachesRight'
  <1>1. GalleryTyped'
    BY DEF GalleryInv, GalleryTyped, IndexTyped, galleryIndexVars
  <1>2. ASSUME NEW s \in Servers, NEW e \in cache'[s].entries PROVE AnswerRight(e)'
    BY <1>2, IndexAsItWas
  <1>3. dataVersion' = dataVersion
    BY DEF galleryIndexVars
  <1>4. CachesRight'
    BY <1>2, <1>3 DEF CachesRight
  <1> QED
    BY <1>1, <1>4

LEMMA CacheAsItWas ==
    ASSUME GalleryInv, NEW s \in Servers
    PROVE  /\ cache[s] \in Cache /\ cache[s].ver <= dataVersion
           /\ IsFiniteSet(cache[s].entries) /\ Cardinality(cache[s].entries) <= MaxCacheSize
           /\ \A e \in cache[s].entries : e \in CachedPage /\ AnswerRight(e)
  BY GalleryNumbers DEF GalleryInv, GalleryTyped, CachesRight

LEMMA VersionsKeptKeepGallery ==
    ASSUME GalleryInv, NEW r \in Readers, keepVersion(r)
    PROVE  GalleryInv'
  <1> DEFINE t == [reader[r] EXCEPT !.pc = "lookup"]
  <1>1. /\ reader[r] \in Reader /\ ReaderRight(reader[r]) /\ reader[r].pc = "version"
        /\ UNCHANGED << galleryIndexVars, walks >> /\ ReaderGoes(r, t)
    BY GalleryNumbers DEF keepVersion, GalleryInv, ReadersRight
  <1>2. /\ t \in Reader /\ t.pc = "lookup" /\ t.list = reader[r].list /\ t.after = reader[r].after
        /\ t.oldest = reader[r].oldest /\ t.seen = reader[r].seen /\ t.ver = reader[r].ver
    BY <1>1 DEF Reader
  <1> HIDE DEF t
  <1>3. ReaderRight(t)
    BY <1>1, <1>2, StillRight DEF ReaderRight
  <1>4. reader' \in [Readers -> Reader] /\ ReadersRight'
    BY <1>1, <1>2, <1>3, ReaderAlone
  <1>5. PICK at \in Servers, ver \in 0 .. MaxVersion : at = reader[r].at /\ ver = reader[r].ver
    BY <1>1 DEF Reader
  <1>6. /\ cache' \in [Servers -> Cache]
        /\ \A s \in Servers : /\ cache'[s].entries = cache[s].entries
                              /\ cache'[s].ver = IF s = at THEN ver ELSE cache[s].ver
    <2>1. cache' = [cache EXCEPT ![at].ver = ver, ![at].fresh = TRUE]
      BY <1>5 DEF keepVersion
    <2> QED
      BY <2>1 DEF GalleryInv, GalleryTyped, Cache
  <1>7. ver <= dataVersion
    BY <1>1, <1>5 DEF ReaderRight
  <1>8. GalleryTyped' /\ CachesRight'
    BY <1>1, <1>4, <1>6, <1>7, CacheAsItWas, CachesTyped
  <1> QED
    BY <1>4, <1>8 DEF GalleryInv

LEMMA ExpiringKeepsGallery ==
    ASSUME GalleryInv, NEW s \in Servers, VersionExpires(s) \/ EntryExpires(s)
    PROVE  GalleryInv'
  <1>1. UNCHANGED << galleryIndexVars, reader, walks >>
    BY DEF VersionExpires, EntryExpires
  <1>2. reader' \in [Readers -> Reader]
    BY <1>1 DEF GalleryInv, GalleryTyped
  <1>3. ASSUME NEW r \in Readers PROVE ReaderRight(reader[r])'
    <2>1. PICK t : t = reader[r]
      OBVIOUS
    <2>2. ReaderRight(t)'
      BY <1>1, <2>1, IndexAsItWas DEF GalleryInv, ReadersRight
    <2> QED
      BY <1>1, <2>1, <2>2
  <1>4. /\ cache' \in [Servers -> Cache]
        /\ \A v \in Servers : /\ cache'[v].ver = cache[v].ver
                              /\ cache'[v].entries \in SUBSET cache[v].entries
    <2>1. CASE VersionExpires(s)
      BY <2>1 DEF VersionExpires, GalleryInv, GalleryTyped, Cache
    <2>2. CASE EntryExpires(s)
      <3>1. PICK e : cache' = [cache EXCEPT ![s].entries = @ \ {e}]
        BY <2>2 DEF EntryExpires
      <3> QED
        BY <3>1 DEF GalleryInv, GalleryTyped, Cache
    <2> QED
      BY <2>1, <2>2
  <1>5. ASSUME NEW v \in Servers
        PROVE  IsFiniteSet(cache'[v].entries) /\ Cardinality(cache'[v].entries) <= MaxCacheSize
    <2>1. /\ IsFiniteSet(cache'[v].entries)
          /\ Cardinality(cache'[v].entries) <= Cardinality(cache[v].entries)
      BY <1>4, CacheAsItWas, FS_Subset
    <2>2. Cardinality(cache'[v].entries) \in Nat /\ Cardinality(cache[v].entries) \in Nat
      BY <2>1, CacheAsItWas, FS_CardinalityType
    <2> QED
      BY <2>1, <2>2, CacheAsItWas, GalleryAssumption
  <1>6. GalleryTyped' /\ CachesRight'
    BY <1>1, <1>2, <1>4, <1>5, CacheAsItWas, CachesTyped
  <1> QED
    BY <1>3, <1>6 DEF GalleryInv, ReadersRight

\* What is kept leaves room for one more.
LEMMA KeptLeavesRoom ==
    ASSUME NEW S, IsFiniteSet(S), Cardinality(S) <= MaxCacheSize, NEW T \in SUBSET Kept(S), NEW e
    PROVE  /\ Kept(S) \subseteq S
           /\ IsFiniteSet(T \cup {e}) /\ Cardinality(T \cup {e}) <= MaxCacheSize
  <1>1. /\ Kept(S) \subseteq S /\ IsFiniteSet(Kept(S)) /\ Cardinality(Kept(S)) \in Nat
        /\ Cardinality(Kept(S)) < MaxCacheSize
    BY FS_EmptySet, FS_CardinalityType, GalleryAssumption DEF Kept
  <1>2. IsFiniteSet(T) /\ Cardinality(T) <= Cardinality(Kept(S)) /\ Cardinality(T) \in Nat
    BY <1>1, FS_Subset, FS_CardinalityType
  <1>3. /\ IsFiniteSet(T \cup {e})
        /\ Cardinality(T \cup {e}) = IF e \in T THEN Cardinality(T) ELSE Cardinality(T) + 1
    BY <1>2, FS_AddElement
  <1> QED
    BY <1>1, <1>2, <1>3, GalleryAssumption

LEMMA StoringKeepsGallery ==
    ASSUME GalleryInv, NEW r \in Readers, put(r)
    PROVE  GalleryInv'
  <1>1. PICK w \in Reader : w = reader[r]
    BY GalleryNumbers
  <1>2. /\ w.pc = "put" /\ ReaderRight(w) /\ AnswerRight(w) /\ w.at \in Servers
        /\ UNCHANGED << galleryIndexVars, walks >>
    BY <1>1 DEF put, GalleryInv, ReadersRight, ReaderRight, Reader
  <1> DEFINE s == w.at
             entry == [ver |-> w.ver, list |-> w.list, after |-> w.after, page |-> w.page,
                       built |-> w.built]
             T == {e \in Kept(cache[s].entries) : ~SameRequest(entry, e)}
             waiting == {q \in Readers : reader[q].pc = "wait" /\ reader[q].at = s
                                         /\ SameRequest(reader[q], w)}
  <1>3. cache' = [cache EXCEPT ![s].entries = T \cup {entry}]
    BY <1>1 DEF put, KeyOf
  <1>4. reader' = [q \in Readers |-> IF q = r \/ q \in waiting
                                     THEN Receives(reader[q], w.page, reader[q].ver)
                                     ELSE reader[q]]
    BY <1>1 DEF put
  <1>5. entry \in CachedPage /\ AnswerRight(entry)
    BY <1>2 DEF Reader, CachedPage, AnswerRight
  <1>6. w.page \in Page /\ w.ver \in 0 .. MaxVersion /\ w.ver <= dataVersion
    BY <1>2 DEF Reader, ReaderRight
  <1>7. ASSUME NEW q \in Readers
        PROVE  reader'[q] \in Reader /\ ReaderRight(reader'[q])
    <2>1. reader[q] \in Reader /\ ReaderRight(reader[q])
      BY GalleryNumbers DEF GalleryInv, ReadersRight
    <2>4. reader'[q] = IF q = r \/ q \in waiting THEN Receives(reader[q], w.page, reader[q].ver)
                       ELSE reader[q]
      BY <1>4
    <2>2. CASE q = r \/ q \in waiting
      <3>1. /\ reader[q].list = w.list /\ reader[q].after = w.after /\ reader[q].ver = w.ver
            /\ reader[q].pc \in {"put", "wait"}
        BY <1>1, <1>2, <2>2 DEF SameRequest
      <3>2. PageRight(reader[q].list, reader[q].after, w.ver, w.page)
        BY <1>2, <3>1 DEF AnswerRight
      <3>3. /\ Receives(reader[q], w.page, w.ver) \in Reader
            /\ ReaderRight(Receives(reader[q], w.page, w.ver))
        BY <1>6, <2>1, <3>1, <3>2, PagesFitTogether DEF GalleryInv
      <3> QED
        BY <2>2, <2>4, <3>1, <3>3
    <2>3. CASE ~(q = r \/ q \in waiting)
      BY <2>1, <2>3, <2>4
    <2> QED
      BY <2>2, <2>3
  <1>8. reader' \in [Readers -> Reader]
    <2>1. DOMAIN reader' = Readers /\ reader' = [q \in Readers |-> reader'[q]]
      BY <1>4
    <2> QED
      BY <1>7, <2>1
  <1>9. ASSUME NEW q \in Readers PROVE ReaderRight(reader[q])'
    <2>1. PICK t : t = reader'[q]
      OBVIOUS
    <2>2. ReaderRight(t)'
      BY <1>2, <1>7, <2>1, IndexAsItWas
    <2> QED
      BY <2>1, <2>2
  <1>10. T \in SUBSET Kept(cache[s].entries)
    OBVIOUS
  <1> HIDE DEF T, entry
  <1>11. /\ T \subseteq cache[s].entries /\ IsFiniteSet(T \cup {entry})
         /\ Cardinality(T \cup {entry}) <= MaxCacheSize
    <2>1. IsFiniteSet(cache[s].entries) /\ Cardinality(cache[s].entries) <= MaxCacheSize
      BY <1>2, CacheAsItWas
    <2> QED
      BY <1>10, <2>1, KeptLeavesRoom
  <1>12. /\ cache' \in [Servers -> Cache]
         /\ \A v \in Servers : /\ cache'[v].ver = cache[v].ver
                               /\ cache'[v].entries = IF v = s THEN T \cup {entry} ELSE cache[v].entries
    BY <1>2, <1>3, <1>5, <1>11 DEF GalleryInv, GalleryTyped, Cache
  <1>13. GalleryTyped' /\ CachesRight'
    <2>1. ASSUME NEW v \in Servers
          PROVE  /\ IsFiniteSet(cache'[v].entries)
                 /\ Cardinality(cache'[v].entries) <= MaxCacheSize
                 /\ cache'[v].ver <= dataVersion
                 /\ \A e \in cache'[v].entries : AnswerRight(e)
      <3>1. /\ cache[v].ver <= dataVersion
            /\ IsFiniteSet(cache[v].entries) /\ Cardinality(cache[v].entries) <= MaxCacheSize
            /\ \A e \in cache[v].entries : AnswerRight(e)
        BY CacheAsItWas
      <3>2. CASE v = s
        BY <1>5, <1>11, <1>12, <3>1, <3>2
      <3>3. CASE v # s
        BY <1>12, <3>1, <3>3
      <3> QED
        BY <3>2, <3>3
    <2> QED
      BY <1>2, <1>8, <1>12, <2>1, CachesTyped
  <1> QED
    BY <1>9, <1>13 DEF GalleryInv, ReadersRight

LEMMA FailingKeepsGallery ==
    ASSUME GalleryInv, NEW r \in Readers, buildFails(r)
    PROVE  GalleryInv'
  <1>1. UNCHANGED << galleryIndexVars, cache, walks >>
    BY DEF buildFails
  <1>2. \A q \in Readers : reader'[q] \in {NoReader, reader[q]}
        /\ DOMAIN reader' = Readers /\ reader' = [p \in Readers |-> reader'[p]]
    BY DEF buildFails
  <1>3. ASSUME NEW q \in Readers PROVE reader'[q] \in Reader /\ ReaderRight(reader'[q])
    BY <1>2, NoReaderRight, GalleryNumbers DEF GalleryInv, ReadersRight
  <1>4. reader' \in [Readers -> Reader]
    BY <1>2, <1>3
  <1>5. ASSUME NEW q \in Readers PROVE ReaderRight(reader[q])'
    <2>1. PICK t : t = reader'[q]
      OBVIOUS
    <2>2. ReaderRight(t)'
      BY <1>1, <1>3, <2>1, IndexAsItWas
    <2> QED
      BY <2>1, <2>2
  <1>6. CachesRight'
    BY <1>1, CachesKept
  <1>7. GalleryTyped'
    BY <1>1, <1>4 DEF GalleryInv, GalleryTyped, IndexTyped, galleryIndexVars
  <1> QED
    BY <1>5, <1>6, <1>7 DEF GalleryInv, ReadersRight

-----------------------------------------------------------------------------
(* Theorems *)

LEMMA GalleryInvariant == GallerySpec => []GalleryInv
  <1>1. GalleryInit => GalleryInv
    <2> SUFFICES ASSUME GalleryInit PROVE GalleryInv
      OBVIOUS
    <2>1. IndexTyped
      BY GalleryAssumption DEF GalleryInit, IndexTyped, IndexRow
    <2>2. dataVersion = 1 /\ dataVersion \in 0 .. MaxVersion /\ changedAt \in [PhotoIds -> 0 .. MaxVersion]
      BY GalleryAssumption DEF GalleryInit
    <2>3. cache \in [Servers -> Cache] /\ \A s \in Servers : cache[s].entries = {} /\ cache[s].ver = 0
      BY GalleryAssumption DEF GalleryInit, Cache
    <2>4. reader \in [Readers -> Reader] /\ \A r \in Readers : ReaderRight(reader[r])
      BY <2>2, NoReaderRight DEF GalleryInit
    <2>5. commits \in 0 .. MaxCommits /\ walks \in 0 .. MaxWalks
      BY GalleryAssumption DEF GalleryInit
    <2>6. GalleryTyped
      <3>1. \A s \in Servers : IsFiniteSet(cache[s].entries) /\ Cardinality(cache[s].entries) = 0
        BY <2>3, FS_EmptySet
      <3>2. 0 <= MaxCacheSize
        BY GalleryAssumption
      <3> QED
        BY <2>1, <2>2, <2>3, <2>4, <2>5, <3>1, <3>2 DEF GalleryTyped
    <2> QED
      BY <2>2, <2>3, <2>4, <2>6 DEF GalleryInv, CachesRight, ReadersRight
  <1>2. GalleryInv /\ [GalleryNext]_galleryVars => GalleryInv'
    <2> SUFFICES ASSUME GalleryInv, [GalleryNext]_galleryVars PROVE GalleryInv'
      OBVIOUS
    <2>1. ASSUME NEW r \in Readers, ReaderStep(r) PROVE GalleryInv'
      BY <2>1, BeginningKeepsGallery, VersionsKeepGallery, VersionsKeptKeepGallery,
         AnsweringKeepsGallery, StoringKeepsGallery, FailingKeepsGallery DEF ReaderStep
    <2>2. CASE UNCHANGED galleryVars
      <3>1. UNCHANGED << galleryIndexVars, cache, reader, walks >>
        BY <2>2 DEF galleryVars
      <3>2. CachesRight'
        BY <3>1, CachesKept
      <3>3. GalleryTyped'
        BY <3>1 DEF GalleryInv, GalleryTyped, IndexTyped, galleryIndexVars
      <3>4. ASSUME NEW q \in Readers PROVE ReaderRight(reader[q])'
        <4>1. PICK t : t = reader[q]
          OBVIOUS
        <4>2. ReaderRight(t)'
          BY <3>1, <4>1, IndexAsItWas DEF GalleryInv, ReadersRight
        <4> QED
          BY <3>1, <4>1, <4>2
      <3> QED
        BY <3>2, <3>3, <3>4 DEF GalleryInv, ReadersRight
    <2> QED
      BY <2>1, <2>2, SynchronisationKeepsGallery, ExpiringKeepsGallery DEF GalleryNext
  <1> QED
    BY <1>1, <1>2, PTL DEF GallerySpec

\* The index, the walks and the caches of every server keep their type, and a cache never holds
\* more than maxCacheSize answers (responseCache.put).
THEOREM GalleryStaysTyped == GallerySpec => []GalleryTypeOK
  <1>1. GalleryInv => GalleryTypeOK
    <2> SUFFICES ASSUME GalleryInv PROVE GalleryTypeOK
      OBVIOUS
    <2>1. \A s \in Servers : cache[s].ver \in 0 .. MaxVersion /\ cache[s].fresh \in BOOLEAN
      BY GalleryNumbers DEF Cache
    <2> QED
      BY <2>1, CacheAsItWas DEF GalleryInv, GalleryTyped, IndexTyped, GalleryTypeOK
  <1> QED
    BY <1>1, GalleryInvariant, PTL

\* A kept answer is at least as new as the version it is kept under (cache.go:24), although the
\* version is read, shared and kept in steps of their own before the answer is computed.
THEOREM AnswersStayCurrent == GallerySpec => []AnswersAreCurrent
  <1>1. GalleryInv => AnswersAreCurrent
    <2> SUFFICES ASSUME GalleryInv, NEW s \in Servers, NEW e \in cache[s].entries
                 PROVE  e.built >= e.ver
      BY DEF AnswersAreCurrent
    <2> QED
      BY CacheAsItWas, GalleryNumbers DEF AnswerRight
  <1> QED
    BY <1>1, GalleryInvariant, PTL

\* The pages a walk is given fit together, whichever servers, versions and caches they come from:
\* each answer is exact for the photos that did not change since its version, and the cursor is a
\* position that does not move with the others (photos_handler.go:166).
THEOREM WalksSeeEachOnce == GallerySpec => []WalkSeesEachOnce
  <1>1. GalleryInv => WalkSeesEachOnce
    <2> SUFFICES ASSUME GalleryInv, NEW r \in Readers, reader[r].pc = "done", NEW p \in PhotoIds,
                        changedAt[p] < reader[r].oldest
                 PROVE  reader[r].seen[p] = IF InList(reader[r].list, index[p]) THEN 1 ELSE 0
      BY DEF WalkSeesEachOnce
    <2>1. SeenRight(reader[r])
      BY DEF GalleryInv, ReadersRight, ReaderRight
    <2> QED
      BY <2>1 DEF SeenRight, Started
  <1> QED
    BY <1>1, GalleryInvariant, PTL

-----------------------------------------------------------------------------
(* The mirror of the Drive: what every step keeps *)

LEMMA SyncSets ==
    /\ Photos \subseteq Nat /\ Folders \subseteq Nat /\ Photos \cap Folders = {}
    /\ Nowhere \notin Folders /\ NoRun \notin RunIds /\ NoToken \in Nat /\ 1 \in Photos
    /\ NPhotos + 1 \in Folders /\ MaxChanges \in Nat /\ NPhotos \in Nat \ {0} /\ MaxSyncTrouble \in Nat
    /\ \A n \in 0 .. MaxChanges : n \in Token /\ n # NoToken
    /\ NoToken \in Token
  BY SyncAssumption DEF Photos, Folders, Nowhere, NoRun, RunIds, NoToken, Token

LEMMA WorkerAfter ==
    ASSUME SyncTypeOK, NEW t \in Tickers, NEW w, WorkerGoes(t, w)
    PROVE  /\ \A s \in Tickers : worker'[s] = IF s = t THEN w ELSE worker[s]
           /\ w \in Worker => worker' \in [Tickers -> Worker]
  BY DEF SyncTypeOK, WorkerGoes

LEMMA NoWorkerTyped == NoWorker \in Worker /\ NoWorker.pc = "idle"
  BY SyncSets DEF NoWorker, Worker, NoRun, Token

\* The ids the rows and the state carry are fewer than the ids there are.
LEMMA FreshRunIsFresh ==
    ASSUME SyncTypeOK
    PROVE  /\ FreshRun \in RunIds
           /\ \A f \in Folders : folderRow[f].seen # FreshRun
           /\ \A p \in Photos : photoRow[p].seen # FreshRun
  <1> DEFINE used == {folderRow[f].seen : f \in Folders} \cup {photoRow[p].seen : p \in Photos}
                     \cup {state.run}
             slots == 1 .. NPhotos + NFolders + 1
             holds == [i \in slots |-> IF i \in Photos THEN photoRow[i].seen
                                       ELSE IF i \in Folders THEN folderRow[i].seen ELSE state.run]
  <1>1. IsFiniteSet(slots) /\ Cardinality(slots) = NPhotos + NFolders + 1
    BY FS_Interval, SyncAssumption
  <1>2. /\ Photos \subseteq slots /\ Folders \subseteq slots
        /\ NPhotos + NFolders + 1 \in slots \ (Photos \cup Folders)
    BY SyncAssumption DEF Photos, Folders
  <1>3. holds \in Surjection(slots, used)
    <2>1. \A i \in slots : holds[i] \in used
      OBVIOUS
    <2>2. \A x \in used : \E i \in slots : holds[i] = x
      <3>1. ASSUME NEW f \in Folders PROVE f \in slots /\ holds[f] = folderRow[f].seen
        BY <1>2, SyncSets
      <3>2. ASSUME NEW p \in Photos PROVE p \in slots /\ holds[p] = photoRow[p].seen
        BY <1>2
      <3>3. holds[NPhotos + NFolders + 1] = state.run
        BY <1>2
      <3> QED BY <1>2, <3>1, <3>2, <3>3
    <2> QED BY <2>1, <2>2 DEF Surjection
  <1>4. IsFiniteSet(used) /\ Cardinality(used) <= NPhotos + NFolders + 1
    <2> HIDE DEF used, slots, holds
    <2>1. IsFiniteSet(used) /\ Cardinality(used) <= Cardinality(slots)
      BY <1>1, <1>3, FS_Surjection
    <2> QED BY <1>1, <2>1
  <1>5. IsFiniteSet(RunIds) /\ Cardinality(RunIds) = NPhotos + NFolders + 2
    BY FS_Interval, SyncAssumption DEF RunIds
  <1>6. \E r \in RunIds : r \notin used
    <2> HIDE DEF used
    <2>1. SUFFICES ASSUME RunIds \subseteq used PROVE FALSE
      OBVIOUS
    <2>2. Cardinality(RunIds) <= Cardinality(used)
      BY <1>4, <2>1, FS_Subset
    <2> QED BY <1>4, <1>5, <2>2, FS_CardinalityType, SyncAssumption
  <1>7. FreshRun \in RunIds /\ FreshRun \notin used
    BY <1>6 DEF FreshRun
  <1> QED BY <1>7
LEMMA SyncStartsTyped == SyncInit => SyncTypeOK
  <1> SUFFICES ASSUME SyncInit PROVE SyncTypeOK
    OBVIOUS
  <1>1. drive \in Drive
    BY SyncSets DEF SyncInit, Drive
  <1>2. feed \in Seq(Photos \cup Folders) /\ Len(feed) = 0
    BY DEF SyncInit
  <1>3. state \in State
    BY SyncSets DEF SyncInit, State, NoRun
  <1> QED BY <1>1, <1>2, <1>3, NoWorkerTyped, SyncSets
       DEF SyncInit, SyncTypeOK, FolderRow, PhotoRow

LEMMA FeedGrows ==
    ASSUME SyncTypeOK, NEW id \in Photos \cup Folders, Len(feed) < MaxChanges,
           feed' = Append(feed, id)
    PROVE  /\ feed' \in Seq(Photos \cup Folders)
           /\ Len(feed) \in Nat /\ Len(feed') = Len(feed) + 1
           /\ \A i \in 1 .. Len(feed) : feed'[i] = feed[i]
           /\ feed'[Len(feed) + 1] = id
  BY DEF SyncTypeOK

LEMMA DriveStepTyped ==
    ASSUME SyncTypeOK, NEW id \in Photos \cup Folders, NEW d \in Drive, DriveChanges(id, d),
           NEW what \in {"untold"}, NEW when, missed' = missed \/ Misses(what, when)
    PROVE  SyncTypeOK'
  <1>1. feed' \in Seq(Photos \cup Folders) /\ Len(feed') <= MaxChanges
    BY FeedGrows, SyncSets DEF DriveChanges
  <1>2. missed' \subseteq {"untold", "overlap", "forgotten", "adrift", "kept"}
    BY DEF Misses, SyncTypeOK
  <1> QED BY <1>1, <1>2 DEF DriveChanges, SyncTypeOK, indexVars

LEMMA DrivesTyped ==
    ASSUME SyncTypeOK
    PROVE  /\ \A p \in Photos, f \in Folders :
                  [in |-> [drive.in EXCEPT ![p] = f], live |-> drive.live \cup {p}] \in Drive
           /\ \A x \in Photos \cup Folders :
                  /\ [drive EXCEPT !.live = @ \ {x}] \in Drive
                  /\ [drive EXCEPT !.live = @ \cup {x}] \in Drive
  BY DEF SyncTypeOK, Drive

LEMMA DriveKeepsTypes == ASSUME SyncTypeOK, DriveNext PROVE SyncTypeOK'
  <1>1. ASSUME NEW p \in Photos, NEW f \in Folders, PutPhoto(p, f) PROVE SyncTypeOK'
    BY <1>1, DriveStepTyped, DrivesTyped DEF PutPhoto
  <1>2. ASSUME NEW p \in Photos, TrashPhoto(p) PROVE SyncTypeOK'
    BY <1>2, DriveStepTyped, DrivesTyped DEF TrashPhoto
  <1>3. ASSUME NEW f \in Folders, TrashFolder(f) PROVE SyncTypeOK'
    BY <1>3, DriveStepTyped, DrivesTyped DEF TrashFolder
  <1>4. ASSUME NEW f \in Folders, RestoreFolder(f) PROVE SyncTypeOK'
    BY <1>4, DriveStepTyped, DrivesTyped DEF RestoreFolder
  <1> QED BY <1>1, <1>2, <1>3, <1>4 DEF DriveNext

\* What a step of a sync stores has its type.
LEMMA StepTyped ==
    ASSUME SyncTypeOK, UNCHANGED driveVars, NEW t \in Tickers, NEW w \in Worker, WorkerGoes(t, w),
           folderRow' \in [Folders -> FolderRow], photoRow' \in [Photos -> PhotoRow],
           state' \in State, missed' \subseteq {"untold", "overlap", "forgotten", "adrift", "kept"},
           syncTrouble' \in 0 .. MaxSyncTrouble
    PROVE  SyncTypeOK'
  BY WorkerAfter DEF SyncTypeOK, driveVars

LEMMA LockStepsTyped ==
    ASSUME SyncTypeOK, NEW t \in Tickers,
           \/ Tick(t) \/ Run(t) \/ SyncStops(t) \/ IncrementalBegins(t)
           \/ \E mode \in AdminModes : TriggerSync(t, mode)
    PROVE  SyncTypeOK'
  <1> USE NoWorkerTyped DEF indexVars
  <1>0. worker[t] \in Worker /\ \A mode \in AdminModes : mode \in {"full", "incremental"}
    BY SyncAssumption DEF SyncTypeOK
  <1>1. CASE Tick(t)
    <2> DEFINE full == \/ state.changes = NoToken \/ state.run # NoRun
                       \/ state.lastFull # "recent"
    <2>1. PICK w : /\ WorkerGoes(t, w)
                   /\ w = [NoWorker EXCEPT !.pc = "lock", !.mode = IF full THEN "full" ELSE "incremental"]
      BY <1>1 DEF Tick
    <2>2. w \in Worker
      BY <2>1 DEF Worker
    <2> QED BY <1>1, <2>1, <2>2, StepTyped DEF Tick, SyncTypeOK
  <1>2. CASE Run(t)
    <2>1. PICK w : /\ WorkerGoes(t, w)
                   /\ w = IF SyncRunning THEN NoWorker ELSE [worker[t] EXCEPT !.pc = "begin"]
      BY <1>2 DEF Run
    <2>2. w \in Worker
      BY <1>0, <2>1 DEF Worker
    <2> QED BY <1>2, <2>1, <2>2, StepTyped DEF Run, SyncTypeOK
  <1>3. CASE SyncStops(t)
    BY <1>3, StepTyped, SyncSets DEF SyncStops, SyncTypeOK
  <1>4. CASE IncrementalBegins(t)
    <2>1. PICK w : /\ WorkerGoes(t, w)
                   /\ w = IF state.changes = NoToken THEN NoWorker
                          ELSE [worker[t] EXCEPT !.pc = "changes", !.from = state.changes]
      BY <1>4 DEF IncrementalBegins
    <2>2. w \in Worker
      BY <1>0, <2>1 DEF Worker, SyncTypeOK, State
    <2> QED BY <1>4, <2>1, <2>2, StepTyped DEF IncrementalBegins, SyncTypeOK
  <1>5. ASSUME NEW mode \in AdminModes, TriggerSync(t, mode) PROVE SyncTypeOK'
    <2>1. PICK w : /\ WorkerGoes(t, w)
                   /\ w = [NoWorker EXCEPT !.pc = "lock", !.mode = mode]
      BY <1>5 DEF TriggerSync
    <2>2. w \in Worker
      BY <1>0, <2>1 DEF Worker
    <2> QED BY <1>5, <2>1, <2>2, StepTyped DEF TriggerSync, SyncTypeOK
  <1> QED BY <1>1, <1>2, <1>3, <1>4, <1>5

LEMMA StoredRowsTyped ==
    ASSUME SyncTypeOK, NEW run \in RunIds \cup {NoRun}
    PROVE  /\ \A S \in SUBSET Folders : WithStructure(S, run) \in [Folders -> FolderRow]
           /\ \A rows \in [Folders -> FolderRow] :
                  /\ SweptWith(rows) \in [Photos -> PhotoRow]
                  /\ \A p \in Photos, f \in Folders : Stored(p, f, rows, run) \in PhotoRow
  <1>1. ASSUME NEW S \in SUBSET Folders PROVE WithStructure(S, run) \in [Folders -> FolderRow]
    BY DEF SyncTypeOK, WithStructure, FolderRow
  <1>2. ASSUME NEW rows \in [Folders -> FolderRow] PROVE SweptWith(rows) \in [Photos -> PhotoRow]
    BY DEF SyncTypeOK, SweptWith, PhotoRow
  <1>3. ASSUME NEW rows, NEW p \in Photos, NEW f \in Folders
        PROVE  Stored(p, f, rows, run) \in PhotoRow
    BY DEF Stored, PhotoRow
  <1> QED BY <1>1, <1>2, <1>3

LEMMA FullStepsTyped ==
    ASSUME SyncTypeOK, NEW t \in Tickers,
           \/ FullBegins(t) \/ StoreStructure(t) \/ StorePage(t) \/ SweepPhotos(t)
           \/ PageTokenExpired(t)
    PROVE  SyncTypeOK'
  <1> USE NoWorkerTyped
  <1>0. worker[t] \in Worker /\ Len(feed) \in Token /\ 0 \in 0 .. NPhotos /\ NoToken \in Token
    BY SyncSets DEF SyncTypeOK, Token
  <1>1. CASE FullBegins(t)
    <2>1. CASE state.run # NoRun /\ state.phase = "files"
      <3>1. PICK w : /\ WorkerGoes(t, w)
                     /\ w = [worker[t] EXCEPT !.pc = "files", !.run = state.run, !.page = state.page]
        BY <1>1, <2>1 DEF FullBegins
      <3>2. w \in Worker
        BY <1>0, <3>1 DEF Worker, SyncTypeOK, State
      <3> QED BY <1>1, <2>1, <3>1, <3>2, StepTyped DEF FullBegins, SyncTypeOK
    <2>2. CASE ~(state.run # NoRun /\ state.phase = "files")
      <3>1. PICK w : /\ WorkerGoes(t, w)
                     /\ w = [worker[t] EXCEPT !.pc = "structure", !.run = FreshRun]
        BY <1>1, <2>2 DEF FullBegins
      <3>2. w \in Worker
        BY <1>0, <3>1, FreshRunIsFresh DEF Worker
      <3>3. state' \in State
        BY <1>0, <1>1, <2>2, FreshRunIsFresh DEF FullBegins, State, SyncTypeOK
      <3> QED BY <1>1, <2>2, <3>1, <3>2, <3>3, StepTyped DEF FullBegins, SyncTypeOK
    <2> QED BY <2>1, <2>2
  <1>2. CASE StoreStructure(t)
    <2>1. PICK w : WorkerGoes(t, w) /\ w = [worker[t] EXCEPT !.pc = "files", !.page = 0]
      BY <1>2 DEF StoreStructure
    <2>2. w \in Worker
      BY <1>0, <2>1 DEF Worker
    <2>3. state' \in State
      BY <1>2 DEF StoreStructure, State, SyncTypeOK
    <2>4. folderRow' \in [Folders -> FolderRow] /\ photoRow' \in [Photos -> PhotoRow]
      <3>1. worker[t].run \in RunIds \cup {NoRun} /\ LiveFolders \in SUBSET Folders
        BY <1>0 DEF Worker, LiveFolders
      <3> QED BY <1>2, <3>1, StoredRowsTyped DEF StoreStructure
    <2> QED BY <1>2, <2>1, <2>2, <2>3, <2>4, StepTyped DEF StoreStructure, SyncTypeOK
  <1>3. CASE StorePage(t)
    <2> DEFINE p == worker[t].page + 1
               next == IF p < NPhotos THEN p ELSE 0
    <2>1. PICK w : /\ WorkerGoes(t, w)
                   /\ w = [worker[t] EXCEPT !.pc = IF next = 0 THEN "sweep" ELSE "files", !.page = next]
      BY <1>3 DEF StorePage
    <2>2. next \in 0 .. NPhotos
      BY <1>0, SyncSets DEF Worker
    <2>3. w \in Worker
      BY <1>0, <2>1, <2>2 DEF Worker
    <2>4. state' \in State
      BY <1>3, <2>2 DEF StorePage, State, SyncTypeOK
    <2>5. photoRow' \in [Photos -> PhotoRow]
      <3>1. CASE p \in Photos
        <4>1. worker[t].run \in RunIds \cup {NoRun} /\ drive.in[p] \in Folders
          BY <1>0, <3>1 DEF Worker, SyncTypeOK, Drive
        <4>2. Stored(p, drive.in[p], folderRow, worker[t].run) \in PhotoRow
          BY <3>1, <4>1, StoredRowsTyped DEF SyncTypeOK
        <4> QED BY <1>3, <4>2 DEF StorePage, SyncTypeOK
      <3>2. CASE p \notin Photos
        BY <1>3, <3>2 DEF StorePage, SyncTypeOK
      <3> QED BY <3>1, <3>2
    <2> QED BY <1>3, <2>1, <2>3, <2>4, <2>5, StepTyped DEF StorePage, SyncTypeOK
  <1>4. CASE SweepPhotos(t)
    <2>1. state' \in State
      BY <1>0, <1>4 DEF SweepPhotos, FinishFull, State, SyncTypeOK
    <2>2. photoRow' \in [Photos -> PhotoRow]
      BY <1>4 DEF SweepPhotos, PhotoRow, SyncTypeOK
    <2> QED BY <1>4, <2>1, <2>2, StepTyped DEF SweepPhotos, SyncTypeOK
  <1>5. CASE PageTokenExpired(t)
    <2>1. state' \in State
      BY <1>0, <1>5 DEF PageTokenExpired, State, SyncTypeOK
    <2>2. missed' \subseteq {"untold", "overlap", "forgotten", "adrift", "kept"}
      BY <1>5 DEF PageTokenExpired, Misses, SyncTypeOK
    <2>3. syncTrouble' \in 0 .. MaxSyncTrouble
      BY <1>5, SyncSets DEF PageTokenExpired, SyncTypeOK
    <2> QED BY <1>5, <2>1, <2>2, <2>3, StepTyped DEF PageTokenExpired, SyncTypeOK
  <1> QED BY <1>1, <1>2, <1>3, <1>4, <1>5

LEMMA FeedStepsTyped ==
    ASSUME SyncTypeOK, NEW t \in Tickers,
           \/ \E n \in 1 .. MaxChanges : ReadChanges(t, n)
           \/ NoMoreChanges(t) \/ ApplyChanges(t) \/ ChangesTokenExpired(t)
    PROVE  SyncTypeOK'
  <1> USE NoWorkerTyped
  <1>0. /\ worker[t] \in Worker /\ worker[t].run \in RunIds \cup {NoRun}
        /\ worker[t].from \in Token /\ worker[t].to \in Token
    BY DEF SyncTypeOK, Worker
  <1>1. ASSUME NEW n \in 1 .. MaxChanges, ReadChanges(t, n) PROVE SyncTypeOK'
    <2> DEFINE ids == {feed[i] : i \in worker[t].from + 1 .. n}
               there == {p \in ids \cap Photos : OnDrive(p)}
    <2>1. PICK w : /\ WorkerGoes(t, w)
                   /\ w = [worker[t] EXCEPT !.pc = "apply", !.to = n,
                               !.changed = {<< p, drive.in[p] >> : p \in there},
                               !.gone = ids \ (there \cup LiveFolders),
                               !.folders = ids \cap LiveFolders # {}, !.last = n = Len(feed)]
      BY <1>1 DEF ReadChanges
    <2>2. ids \subseteq Photos \cup Folders
      <3>1. worker[t].from \in Nat /\ n \in 1 .. Len(feed) /\ Len(feed) \in Nat
        <4>1. worker[t].from \in Nat /\ Len(feed) \in Nat
          BY <1>0, SyncSets DEF Token, SyncTypeOK
        <4>2. n \in worker[t].from + 1 .. Len(feed)
          BY <1>1 DEF ReadChanges
        <4> QED BY <4>1, <4>2
      <3>2. \A i \in 1 .. Len(feed) : feed[i] \in Photos \cup Folders
        BY DEF SyncTypeOK
      <3> QED BY <3>1, <3>2
    <2>3. {<< p, drive.in[p] >> : p \in there} \subseteq Photos \X Folders
      BY DEF SyncTypeOK, Drive
    <2>4. n \in Token
      BY SyncSets
    <2>5. w \in Worker
      <3> HIDE DEF there, ids
      <3>1. {<< p, drive.in[p] >> : p \in there} \in SUBSET (Photos \X Folders)
            /\ ids \ (there \cup LiveFolders) \in SUBSET (Photos \cup Folders)
        BY <2>2, <2>3
      <3>2. PICK c \in SUBSET (Photos \X Folders), g \in SUBSET (Photos \cup Folders), b \in BOOLEAN,
                 l \in BOOLEAN :
                w = [worker[t] EXCEPT !.pc = "apply", !.to = n, !.changed = c, !.gone = g,
                                      !.folders = b, !.last = l]
        BY <2>1, <3>1
      <3> QED BY <1>0, <2>4, <3>2 DEF Worker
    <2> QED BY <1>1, <2>1, <2>5, StepTyped DEF ReadChanges, SyncTypeOK, indexVars
  <1>2. CASE NoMoreChanges(t)
    <2>1. state' \in State
      BY <1>0, <1>2 DEF NoMoreChanges, State, SyncTypeOK
    <2> QED BY <1>2, <2>1, StepTyped DEF NoMoreChanges, SyncTypeOK
  <1>3. CASE ApplyChanges(t)
    <2> DEFINE v == worker[t]
               run == IF v.run = NoRun THEN FreshRun ELSE v.run
               rows == IF touchesStructure(v) THEN WithStructure(LiveFolders, run) ELSE folderRow
               swept == IF touchesStructure(v) THEN SweptWith(rows) ELSE photoRow
    <2>1. run \in RunIds \cup {NoRun} /\ LiveFolders \in SUBSET Folders
      BY <1>0, FreshRunIsFresh DEF LiveFolders
    <2>2. PICK w : /\ WorkerGoes(t, w)
                   /\ w = IF v.last THEN NoWorker
                          ELSE [NoWorker EXCEPT !.pc = "changes", !.mode = "incremental",
                                                !.run = run, !.from = v.to]
      BY <1>3 DEF ApplyChanges
    <2>3. w \in Worker
      <3> HIDE DEF run
      <3> QED BY <1>0, <2>1, <2>2 DEF Worker
    <2>4. rows \in [Folders -> FolderRow] /\ swept \in [Photos -> PhotoRow]
      <3> HIDE DEF run
      <3> QED BY <2>1, StoredRowsTyped DEF SyncTypeOK
    <2>5. folderRow' = rows
      BY <1>3 DEF ApplyChanges
    <2>6. photoRow' = [p \in Photos |->
              IF \E f \in Folders : << p, f >> \in v.changed
              THEN Stored(p, CHOOSE f \in Folders : << p, f >> \in v.changed, rows, run)
              ELSE IF p \in v.gone THEN [swept[p] EXCEPT !.live = FALSE] ELSE swept[p]]
      BY <1>3 DEF ApplyChanges
    <2>7. photoRow' \in [Photos -> PhotoRow]
      <3> HIDE DEF run, rows, swept, v
      <3> SUFFICES ASSUME NEW p \in Photos PROVE photoRow'[p] \in PhotoRow
        BY <2>6
      <3>1. CASE \E f \in Folders : << p, f >> \in v.changed
        <4>1. (CHOOSE f \in Folders : << p, f >> \in v.changed) \in Folders
          BY <3>1
        <4> QED BY <2>1, <2>4, <2>6, <3>1, <4>1, StoredRowsTyped
      <3>2. CASE ~\E f \in Folders : << p, f >> \in v.changed
        <4>1. swept[p] \in PhotoRow
          BY <2>4
        <4>2. photoRow'[p] = IF p \in v.gone THEN [swept[p] EXCEPT !.live = FALSE] ELSE swept[p]
          BY <2>6, <3>2
        <4> QED BY <4>1, <4>2 DEF PhotoRow
      <3> QED BY <3>1, <3>2
    <2>8. state' \in State
      <3>1. PICK full : state' = [state EXCEPT !.changes = v.to,
                                      !.lastFull = IF full THEN "never" ELSE @]
        BY <1>3 DEF ApplyChanges
      <3> QED BY <1>0, <3>1 DEF State, SyncTypeOK
    <2>9. missed' \subseteq {"untold", "overlap", "forgotten", "adrift", "kept"}
      BY <1>3 DEF ApplyChanges, SyncTypeOK
    <2> QED
      <3> HIDE DEF rows, v, run, swept
      <3> QED BY <1>3, <2>2, <2>3, <2>4, <2>5, <2>7, <2>8, <2>9, StepTyped DEF ApplyChanges, SyncTypeOK
  <1>4. CASE ChangesTokenExpired(t)
    <2>1. state' \in State
      BY <1>4, SyncSets DEF ChangesTokenExpired, State, SyncTypeOK
    <2>2. syncTrouble' \in 0 .. MaxSyncTrouble
      BY <1>4, SyncSets DEF ChangesTokenExpired, SyncTypeOK
    <2> QED BY <1>4, <2>1, <2>2, StepTyped DEF ChangesTokenExpired, SyncTypeOK
  <1> QED BY <1>1, <1>2, <1>3, <1>4

LEMMA SyncStepsTyped == ASSUME SyncTypeOK, [SyncNext]_syncVars PROVE SyncTypeOK'
  <1>1. CASE UNCHANGED syncVars
    BY <1>1 DEF SyncTypeOK, syncVars, driveVars, indexVars
  <1>2. CASE ReconcileIsDue
    <2>1. state' \in State
      BY <1>2 DEF ReconcileIsDue, State, SyncTypeOK
    <2> QED BY <1>2, <2>1 DEF ReconcileIsDue, SyncTypeOK, driveVars
  <1> QED BY <1>1, <1>2, DriveKeepsTypes, LockStepsTyped, FullStepsTyped, FeedStepsTyped
       DEF SyncNext, SyncStep

-----------------------------------------------------------------------------
(* The mirror of the Drive: one sync at a time *)

\* Only the sync that holds the lock is past it.
OneRuns == \A s, t \in Tickers :
    worker[s].pc \notin {"idle", "lock"} /\ worker[t].pc \notin {"idle", "lock"} => s = t

\* A photo is in a folder the index knows.
RowsAgree ==
    /\ \A f \in Folders : folderRow[f].live => folderRow[f].known
    /\ \A p \in Photos : photoRow[p].folder # Nowhere => folderRow[photoRow[p].folder].known

\* A full sync under way is the one the state names, at the page the state names.
FullAgrees(w) ==
    /\ w.pc \in {"structure", "files", "sweep"} =>
           state.run # NoRun /\ state.run = w.run
    /\ w.pc = "structure" => state.phase = "structure" /\ state.page = 0
    /\ w.pc \in {"files", "sweep"} => state.phase = "files" /\ state.page = w.page
    /\ w.pc = "files" => w.page < NPhotos

\* An incremental one reads on from the token of the state.
FeedAgrees(w) ==
    /\ w.pc \in {"changes", "apply"} => w.from = state.changes /\ w.from <= Len(feed)
    /\ w.pc = "apply" => w.to \in w.from + 1 .. Len(feed)

WorkersAgree == \A t \in Tickers : FullAgrees(worker[t]) /\ FeedAgrees(worker[t])

StateAgrees ==
    /\ state.page < NPhotos
    /\ state.changes # NoToken => state.changes <= Len(feed)
    /\ state.run # NoRun => state.pending <= Len(feed) /\ state.phase # "none"

SyncAgrees == SyncTypeOK /\ OneRuns /\ RowsAgree /\ WorkersAgree /\ StateAgrees

LEMMA SyncStartsAgreed == SyncInit => SyncAgrees
  <1> SUFFICES ASSUME SyncInit PROVE SyncAgrees
    OBVIOUS
  <1>1. SyncTypeOK /\ \A t \in Tickers : worker[t].pc = "idle"
    BY SyncStartsTyped, NoWorkerTyped DEF SyncInit
  <1>2. RowsAgree
    BY DEF SyncInit, RowsAgree
  <1>3. StateAgrees
    BY SyncSets DEF SyncInit, StateAgrees
  <1> QED BY <1>1, <1>2, <1>3 DEF SyncAgrees, OneRuns, WorkersAgree, FullAgrees, FeedAgrees

LEMMA OthersWait ==
    ASSUME SyncAgrees, NEW t \in Tickers, worker[t].pc \notin {"idle", "lock"}
    PROVE  \A s \in Tickers \ {t} : worker[s].pc \in {"idle", "lock"}
  BY DEF SyncAgrees, OneRuns

\* What a step of the sync t must do to the lock, the token and the page.
LEMMA AgreedAfter ==
    ASSUME SyncAgrees, SyncTypeOK', NEW t \in Tickers, NEW w, WorkerGoes(t, w),
           \/ state' = state /\ feed' = feed /\ w.pc \in {"idle", "lock"}
           \/ \A s \in Tickers \ {t} : worker[s].pc \in {"idle", "lock"},
           FullAgrees(w)', FeedAgrees(w)', RowsAgree', StateAgrees'
    PROVE  SyncAgrees'
  <1>1. \A s \in Tickers : worker'[s] = IF s = t THEN w ELSE worker[s]
    BY WorkerAfter DEF SyncAgrees
  <1>2. OneRuns'
    BY <1>1 DEF SyncAgrees, OneRuns
  <1>3. ASSUME NEW s \in Tickers PROVE (FullAgrees(worker[s]) /\ FeedAgrees(worker[s]))'
    <2>1. CASE s = t
      <3>1. worker'[s] = w
        BY <1>1, <2>1
      <3> QED BY <3>1 DEF FullAgrees, FeedAgrees
    <2>2. CASE s # t
      <3>1. worker'[s] = worker[s] /\ FullAgrees(worker[s]) /\ FeedAgrees(worker[s])
        BY <1>1, <2>2 DEF SyncAgrees, WorkersAgree
      <3>2. CASE state' = state /\ feed' = feed
        BY <3>1, <3>2 DEF FullAgrees, FeedAgrees
      <3>3. CASE worker[s].pc \in {"idle", "lock"}
        BY <3>1, <3>3 DEF FullAgrees, FeedAgrees
      <3> QED BY <2>2, <3>2, <3>3
    <2> QED BY <2>1, <2>2
  <1> QED BY <1>2, <1>3 DEF SyncAgrees, WorkersAgree

\* What the Drive may do: the feed names what changed, and a folder that comes back
\* unnoticed is one the index has hidden, while no full sync is under way.
LEMMA DriveStep ==
    ASSUME SyncTypeOK, DriveNext
    PROVE  \E id \in Photos \cup Folders :
              /\ Len(feed) < MaxChanges /\ feed' = Append(feed, id)
              /\ UNCHANGED << indexVars, worker >>
              /\ \A p \in Photos \ {id} : /\ drive'.in[p] = drive.in[p]
                                          /\ p \in drive'.live <=> p \in drive.live
              /\ \A f \in Folders \ {id} : f \in drive'.live <=> f \in drive.live
              /\ missed' = {} =>
                    /\ missed = {}
                    /\ \A f \in Folders : f \in drive'.live \ drive.live =>
                          folderRow[f].known /\ ~folderRow[f].live /\ state.run = NoRun
  <1>1. ASSUME NEW p \in Photos, NEW f \in Folders, PutPhoto(p, f)
        PROVE  /\ drive'.in = [drive.in EXCEPT ![p] = f]
               /\ drive'.live = drive.live \cup {p}
               /\ feed' = Append(feed, p)
    <2>1. /\ drive' = [in |-> [drive.in EXCEPT ![p] = f], live |-> drive.live \cup {p}]
          /\ feed' = Append(feed, p)
      BY <1>1 DEF PutPhoto, DriveChanges
    <2> QED BY <2>1
  <1> QED
    <2> USE SyncSets DEF SyncTypeOK, Drive
    <2>1. ASSUME NEW p \in Photos, NEW f \in Folders, PutPhoto(p, f)
          PROVE  /\ Len(feed) < MaxChanges /\ UNCHANGED << indexVars, worker >> /\ missed' = missed
                 /\ \A q \in Photos \ {p} : /\ drive'.in[q] = drive.in[q]
                                            /\ q \in drive'.live <=> q \in drive.live
                 /\ \A g \in Folders : g \in drive'.live <=> g \in drive.live
      BY <1>1, <2>1 DEF PutPhoto, DriveChanges
    <2>2. ASSUME NEW p \in Photos, TrashPhoto(p)
          PROVE  /\ Len(feed) < MaxChanges /\ feed' = Append(feed, p)
                 /\ UNCHANGED << indexVars, worker >> /\ missed' = missed
                 /\ drive'.in = drive.in /\ drive'.live = drive.live \ {p}
      BY <2>2 DEF TrashPhoto, DriveChanges
    <2>3. ASSUME NEW f \in Folders, TrashFolder(f)
          PROVE  /\ Len(feed) < MaxChanges /\ feed' = Append(feed, f)
                 /\ UNCHANGED << indexVars, worker >> /\ missed' = missed
                 /\ drive'.in = drive.in /\ drive'.live = drive.live \ {f}
      BY <2>3 DEF TrashFolder, DriveChanges
    <2>4. ASSUME NEW f \in Folders, RestoreFolder(f)
          PROVE  /\ Len(feed) < MaxChanges /\ feed' = Append(feed, f)
                 /\ UNCHANGED << indexVars, worker >>
                 /\ drive'.in = drive.in /\ drive'.live = drive.live \cup {f}
                 /\ missed' = {} => /\ missed = {} /\ folderRow[f].known /\ ~folderRow[f].live
                                    /\ state.run = NoRun
      BY <2>4 DEF RestoreFolder, DriveChanges, Misses
    <2>5. CASE \E p \in Photos, f \in Folders : PutPhoto(p, f)
      <3>1. PICK p \in Photos, f \in Folders : PutPhoto(p, f)
        BY <2>5
      <3> QED BY <3>1, <1>1, <2>1
    <2>6. CASE \E p \in Photos : TrashPhoto(p)
      <3>1. PICK p \in Photos : TrashPhoto(p)
        BY <2>6
      <3> QED BY <3>1, <2>2
    <2>7. CASE \E f \in Folders : TrashFolder(f)
      <3>1. PICK f \in Folders : TrashFolder(f)
        BY <2>7
      <3> QED BY <3>1, <2>3
    <2>8. CASE \E f \in Folders : RestoreFolder(f)
      <3>1. PICK f \in Folders : RestoreFolder(f)
        BY <2>8
      <3> QED BY <3>1, <2>4
    <2> QED BY <2>5, <2>6, <2>7, <2>8 DEF DriveNext

LEMMA DriveKeepsAgreed == ASSUME SyncAgrees, DriveNext PROVE SyncAgrees'
  <1>1. SyncTypeOK /\ SyncTypeOK'
    BY DriveKeepsTypes DEF SyncAgrees
  <1>2. PICK id \in Photos \cup Folders :
            Len(feed) < MaxChanges /\ feed' = Append(feed, id) /\ UNCHANGED << indexVars, worker >>
    BY <1>1, DriveStep
  <1>3. Len(feed) \in Nat /\ Len(feed') = Len(feed) + 1
    BY <1>1, <1>2, FeedGrows
  <1>4. UNCHANGED << folderRow, photoRow, state, worker >>
    BY <1>2 DEF indexVars
  <1>5. ASSUME NEW t \in Tickers PROVE (FullAgrees(worker[t]) /\ FeedAgrees(worker[t]))'
    <2>1. worker[t].from \in Nat /\ worker[t].to \in Nat
      BY <1>1, SyncSets DEF SyncTypeOK, Worker, Token
    <2> QED BY <1>3, <1>4, <2>1 DEF SyncAgrees, WorkersAgree, FullAgrees, FeedAgrees
  <1>6. StateAgrees'
    <2>1. state.changes \in Nat /\ state.pending \in Nat
      BY <1>1, SyncSets DEF SyncTypeOK, State, Token
    <2> QED BY <1>3, <1>4, <2>1 DEF SyncAgrees, StateAgrees
  <1>7. OneRuns' /\ RowsAgree'
    BY <1>4 DEF SyncAgrees, OneRuns, RowsAgree
  <1> QED BY <1>1, <1>5, <1>6, <1>7 DEF SyncAgrees, WorkersAgree

\* Folders once known stay known, and a live one is known.
LEMMA StructureKnown ==
    ASSUME SyncTypeOK, RowsAgree, NEW run, NEW S \in SUBSET Folders
    PROVE  \A f \in Folders : LET r == WithStructure(S, run)[f] IN
              /\ folderRow[f].known => r.known
              /\ r.live => r.known
              /\ f \in S => r.live
              /\ f \notin S => r.live = (folderRow[f].live /\ folderRow[f].seen = run)
              /\ f \notin S => r.known = folderRow[f].known
  <1> SUFFICES ASSUME NEW f \in Folders, NEW r, r = WithStructure(S, run)[f]
               PROVE  /\ folderRow[f].known => r.known
                      /\ r.live => r.known
                      /\ f \in S => r.live
                      /\ f \notin S => r.live = (folderRow[f].live /\ folderRow[f].seen = run)
                      /\ f \notin S => r.known = folderRow[f].known
    OBVIOUS
  <1>1. folderRow[f] \in FolderRow
    BY DEF SyncTypeOK
  <1>2. CASE f \in S
    <2>1. r = [known |-> TRUE, live |-> TRUE, seen |-> run]
      BY <1>2 DEF WithStructure
    <2>2. r.known /\ r.live
      BY <2>1
    <2> QED BY <1>2, <2>2
  <1>3. CASE f \notin S
    <2>1. r = [folderRow[f] EXCEPT !.live = @ /\ folderRow[f].seen = run]
      BY <1>3 DEF WithStructure
    <2>2. r.live = (folderRow[f].live /\ folderRow[f].seen = run) /\ r.known = folderRow[f].known
      BY <1>1, <2>1 DEF FolderRow
    <2> QED BY <1>3, <2>2 DEF RowsAgree
  <1> QED BY <1>2, <1>3

\* What a sweep of the structure leaves of a photo, and what is stored of one.
LEMMA SweptRow ==
    ASSUME SyncTypeOK, NEW rows, NEW p \in Photos
    PROVE  LET r == SweptWith(rows)[p] IN
              /\ r.folder = photoRow[p].folder /\ r.seen = photoRow[p].seen
              /\ r.live = (photoRow[p].live
                           /\ ~(/\ photoRow[p].folder # Nowhere
                                /\ rows[photoRow[p].folder].known
                                /\ ~rows[photoRow[p].folder].live))
  <1>1. photoRow[p] \in PhotoRow
    BY DEF SyncTypeOK
  <1>2. PICK r : r = SweptWith(rows)[p]
    OBVIOUS
  <1>3. CASE photoRow[p].folder # Nowhere /\ rows[photoRow[p].folder].known
             /\ ~rows[photoRow[p].folder].live
    <2>1. r = [photoRow[p] EXCEPT !.live = FALSE]
      BY <1>2, <1>3 DEF SweptWith
    <2>2. r.folder = photoRow[p].folder /\ r.seen = photoRow[p].seen /\ r.live = FALSE
      BY <1>1, <2>1 DEF PhotoRow
    <2> QED BY <1>2, <1>3, <2>2
  <1>4. CASE ~(photoRow[p].folder # Nowhere /\ rows[photoRow[p].folder].known
               /\ ~rows[photoRow[p].folder].live)
    <2>1. r = photoRow[p]
      BY <1>2, <1>4 DEF SweptWith
    <2>2. photoRow[p].live \in BOOLEAN
      BY <1>1 DEF PhotoRow
    <2> QED BY <1>2, <1>4, <2>1, <2>2
  <1> QED BY <1>3, <1>4

LEMMA StoredRow ==
    ASSUME NEW p, NEW f \in Folders, NEW rows, NEW run
    PROVE  LET r == Stored(p, f, rows, run) IN
              /\ r.live /\ r.seen = run
              /\ rows[f].live => r.folder = f
              /\ r.folder # Nowhere => r.folder = f /\ rows[f].live
  BY DEF Stored

LEMMA LockStepsAgreed ==
    ASSUME SyncAgrees, NEW t \in Tickers,
           \/ Tick(t) \/ Run(t) \/ SyncStops(t) \/ IncrementalBegins(t)
           \/ \E mode \in AdminModes : TriggerSync(t, mode)
    PROVE  SyncAgrees'
  <1> USE NoWorkerTyped DEF indexVars, driveVars
  <1>0. SyncTypeOK /\ SyncTypeOK' /\ worker[t] \in Worker
    BY LockStepsTyped DEF SyncAgrees, SyncTypeOK
  <1>1. state' = state /\ feed' = feed /\ RowsAgree' /\ StateAgrees'
    <2>1. UNCHANGED << feed, folderRow, photoRow, state >>
      BY DEF Tick, Run, SyncStops, IncrementalBegins, TriggerSync
    <2> QED BY <2>1 DEF SyncAgrees, RowsAgree, StateAgrees
  <1>2. ASSUME NEW w, WorkerGoes(t, w), w.pc \in {"idle", "lock"}
        PROVE  SyncAgrees'
    <2>1. FullAgrees(w)' /\ FeedAgrees(w)'
      BY <1>2 DEF FullAgrees, FeedAgrees
    <2> QED BY <1>0, <1>1, <1>2, <2>1, AgreedAfter
  <1>3. CASE Tick(t)
    <2>1. PICK w, mode : WorkerGoes(t, w) /\ w = [NoWorker EXCEPT !.pc = "lock", !.mode = mode]
      BY <1>3 DEF Tick
    <2>2. w.pc = "lock"
      BY <2>1 DEF NoWorker
    <2> QED BY <1>2, <2>1, <2>2
  <1>4. CASE \E mode \in AdminModes : TriggerSync(t, mode)
    <2>1. PICK w, mode : WorkerGoes(t, w) /\ w = [NoWorker EXCEPT !.pc = "lock", !.mode = mode]
      BY <1>4 DEF TriggerSync
    <2>2. w.pc = "lock"
      BY <2>1 DEF NoWorker
    <2> QED BY <1>2, <2>1, <2>2
  <1>5. CASE SyncStops(t)
    BY <1>2, <1>5 DEF SyncStops
  <1>6. CASE Run(t)
    <2>1. CASE SyncRunning
      BY <1>2, <1>6, <2>1 DEF Run
    <2>2. CASE ~SyncRunning
      <3>1. PICK w : WorkerGoes(t, w) /\ w.pc = "begin"
        BY <1>0, <1>6, <2>2 DEF Run, Worker
      <3>2. FullAgrees(w)' /\ FeedAgrees(w)'
        BY <3>1 DEF FullAgrees, FeedAgrees
      <3>3. \A s \in Tickers \ {t} : worker[s].pc \in {"idle", "lock"}
        BY <2>2 DEF SyncRunning
      <3> QED BY <1>0, <1>1, <3>1, <3>2, <3>3, AgreedAfter
    <2> QED BY <2>1, <2>2
  <1>7. CASE IncrementalBegins(t)
    <2>1. CASE state.changes = NoToken
      BY <1>2, <1>7, <2>1 DEF IncrementalBegins
    <2>2. CASE state.changes # NoToken
      <3>0. PICK w : /\ WorkerGoes(t, w)
                     /\ w = [worker[t] EXCEPT !.pc = "changes", !.from = state.changes]
        BY <1>7, <2>2 DEF IncrementalBegins
      <3>1. WorkerGoes(t, w) /\ w.pc = "changes" /\ w.from = state.changes
        BY <1>0, <3>0 DEF Worker
      <3>2. FullAgrees(w)' /\ FeedAgrees(w)'
        BY <1>1, <2>2, <3>1 DEF FullAgrees, FeedAgrees, SyncAgrees, StateAgrees
      <3>3. \A s \in Tickers \ {t} : worker[s].pc \in {"idle", "lock"}
        BY <1>7, OthersWait DEF IncrementalBegins
      <3> QED BY <1>0, <1>1, <3>1, <3>2, <3>3, AgreedAfter
    <2> QED BY <2>1, <2>2
  <1> QED BY <1>3, <1>4, <1>5, <1>6, <1>7

LEMMA FullStepsAgreed ==
    ASSUME SyncAgrees, NEW t \in Tickers,
           \/ FullBegins(t) \/ StoreStructure(t) \/ StorePage(t) \/ SweepPhotos(t)
           \/ PageTokenExpired(t)
    PROVE  SyncAgrees'
  <1> USE NoWorkerTyped
  <1>0. /\ SyncTypeOK /\ SyncTypeOK' /\ worker[t] \in Worker /\ feed' = feed
        /\ \A s \in Tickers \ {t} : worker[s].pc \in {"idle", "lock"}
    <2>1. worker[t].pc \notin {"idle", "lock"} /\ feed' = feed
      BY DEF FullBegins, StoreStructure, StorePage, SweepPhotos, PageTokenExpired, driveVars
    <2> QED BY <2>1, FullStepsTyped, OthersWait DEF SyncAgrees, SyncTypeOK
  <1>1. /\ FullAgrees(worker[t]) /\ StateAgrees /\ RowsAgree /\ state \in State
        /\ Len(feed) \in Nat /\ Len(feed) <= MaxChanges
    BY <1>0 DEF SyncAgrees, WorkersAgree, SyncTypeOK
  <1>2. CASE FullBegins(t)
    <2>1. CASE state.run # NoRun /\ state.phase = "files"
      <3>1. PICK w : /\ WorkerGoes(t, w)
                     /\ w = [worker[t] EXCEPT !.pc = "files", !.run = state.run, !.page = state.page]
        BY <1>2, <2>1 DEF FullBegins
      <3>2. w.pc = "files" /\ w.run = state.run /\ w.page = state.page
        BY <1>0, <3>1 DEF Worker
      <3>3. UNCHANGED << state, folderRow, photoRow >>
        BY <1>2, <2>1 DEF FullBegins
      <3>4. RowsAgree' /\ StateAgrees' /\ FullAgrees(w)' /\ FeedAgrees(w)'
        BY <1>0, <1>1, <2>1, <3>2, <3>3 DEF RowsAgree, StateAgrees, FullAgrees, FeedAgrees
      <3> QED BY <1>0, <3>1, <3>4, AgreedAfter
    <2>2. CASE ~(state.run # NoRun /\ state.phase = "files")
      <3>1. PICK w : /\ WorkerGoes(t, w)
                     /\ w = [worker[t] EXCEPT !.pc = "structure", !.run = FreshRun]
        BY <1>2, <2>2 DEF FullBegins
      <3>2. w.pc = "structure" /\ w.run = FreshRun
        BY <1>0, <3>1 DEF Worker
      <3>3. /\ state'.run = FreshRun /\ state'.phase = "structure" /\ state'.page = 0
            /\ state'.pending = Len(feed) /\ state'.changes = state.changes
            /\ UNCHANGED << folderRow, photoRow >>
        BY <1>1, <1>2, <2>2 DEF FullBegins, State
      <3>4. RowsAgree' /\ StateAgrees' /\ FullAgrees(w)' /\ FeedAgrees(w)'
        BY <1>0, <1>1, <3>2, <3>3, FreshRunIsFresh, SyncSets
           DEF RowsAgree, StateAgrees, FullAgrees, FeedAgrees
      <3> QED BY <1>0, <3>1, <3>4, AgreedAfter
    <2> QED BY <2>1, <2>2
  <1>3. CASE StoreStructure(t)
    <2>1. PICK w : WorkerGoes(t, w) /\ w = [worker[t] EXCEPT !.pc = "files", !.page = 0]
      BY <1>3 DEF StoreStructure
    <2>2. w.pc = "files" /\ w.run = worker[t].run /\ w.page = 0
      BY <1>0, <2>1 DEF Worker
    <2>3. /\ state'.run = state.run /\ state'.phase = "files" /\ state'.page = state.page
          /\ state'.pending = state.pending /\ state'.changes = state.changes
      BY <1>1, <1>3 DEF StoreStructure, State
    <2>4. StateAgrees' /\ FullAgrees(w)' /\ FeedAgrees(w)'
      BY <1>0, <1>1, <1>3, <2>2, <2>3, SyncSets DEF StateAgrees, FullAgrees, FeedAgrees, StoreStructure
    <2>5. RowsAgree'
      <3>1. LiveFolders \in SUBSET Folders
        BY DEF LiveFolders
      <3>2. PICK run : folderRow' = WithStructure(LiveFolders, run) /\ photoRow' = SweptWith(folderRow')
        BY <1>3 DEF StoreStructure
      <3>3. \A f \in Folders : /\ folderRow[f].known => folderRow'[f].known
                               /\ folderRow'[f].live => folderRow'[f].known
        BY <1>0, <1>1, <3>1, <3>2, StructureKnown
      <3>4. \A p \in Photos : photoRow'[p].folder = photoRow[p].folder
        BY <1>0, <3>2, SweptRow
      <3>5. \A p \in Photos : photoRow[p].folder \in Folders \cup {Nowhere}
        BY <1>0 DEF SyncTypeOK, PhotoRow
      <3> QED BY <1>1, <3>3, <3>4, <3>5 DEF RowsAgree
    <2> QED BY <1>0, <2>1, <2>4, <2>5, AgreedAfter
  <1>4. CASE StorePage(t)
    <2> DEFINE p == worker[t].page + 1
               next == IF p < NPhotos THEN p ELSE 0
    <2>1. PICK w : /\ WorkerGoes(t, w)
                   /\ w = [worker[t] EXCEPT !.pc = IF next = 0 THEN "sweep" ELSE "files", !.page = next]
      BY <1>4 DEF StorePage
    <2>2. /\ w.pc = (IF next = 0 THEN "sweep" ELSE "files") /\ w.run = worker[t].run /\ w.page = next
          /\ worker[t].page \in Nat
      BY <1>0, <2>1, SyncSets DEF Worker
    <2>3. /\ state'.run = state.run /\ state'.phase = state.phase /\ state'.page = next
          /\ state'.pending = state.pending /\ state'.changes = state.changes
      BY <1>1, <1>4 DEF StorePage, State
    <2>4. StateAgrees' /\ FullAgrees(w)' /\ FeedAgrees(w)'
      BY <1>0, <1>1, <1>4, <2>2, <2>3, SyncSets DEF StateAgrees, FullAgrees, FeedAgrees, StorePage
    <2>5. RowsAgree'
      <3>1. folderRow' = folderRow
        BY <1>4 DEF StorePage
      <3>2. ASSUME NEW q \in Photos, photoRow'[q].folder # Nowhere
            PROVE  folderRow[photoRow'[q].folder].known
        <4>1. CASE photoRow'[q] = photoRow[q]
          BY <1>1, <3>2, <4>1 DEF RowsAgree
        <4>2. CASE photoRow'[q] # photoRow[q]
          <5>1. q = p /\ photoRow'[q] = Stored(p, drive.in[p], folderRow, worker[t].run)
            BY <1>0, <1>4, <4>2 DEF StorePage, SyncTypeOK
          <5>2. drive.in[q] \in Folders
            BY <1>0 DEF SyncTypeOK, Drive
          <5>3. photoRow'[q].folder = drive.in[q] /\ folderRow[drive.in[q]].live
            BY <3>2, <5>1, <5>2, StoredRow
          <5> QED BY <1>1, <5>2, <5>3 DEF RowsAgree
        <4> QED BY <4>1, <4>2
      <3> QED BY <1>1, <3>1, <3>2 DEF RowsAgree
    <2> QED BY <1>0, <2>1, <2>4, <2>5, AgreedAfter
  <1>5. CASE SweepPhotos(t)
    <2>1. /\ state'.run = NoRun /\ state'.page = 0 /\ state'.changes = state.pending
          /\ folderRow' = folderRow /\ WorkerGoes(t, NoWorker)
      BY <1>1, <1>5 DEF SweepPhotos, FinishFull, State
    <2>2. StateAgrees' /\ FullAgrees(NoWorker)' /\ FeedAgrees(NoWorker)'
      <3>1. state.pending <= Len(feed)
        BY <1>1, <1>5 DEF StateAgrees, FullAgrees, SweepPhotos
      <3> QED BY <1>0, <2>1, <3>1, SyncSets DEF StateAgrees, FullAgrees, FeedAgrees, NoWorker
    <2>3. RowsAgree'
      <3>1. \A q \in Photos : photoRow'[q].folder = photoRow[q].folder
        BY <1>0, <1>5 DEF SweepPhotos, SyncTypeOK, PhotoRow
      <3> QED BY <1>1, <2>1, <3>1 DEF RowsAgree
    <2> QED BY <1>0, <2>1, <2>2, <2>3, AgreedAfter
  <1>6. CASE PageTokenExpired(t)
    <2>1. /\ state'.run = NoRun /\ state'.page = 0 /\ state'.changes = state.changes
          /\ UNCHANGED << folderRow, photoRow >> /\ WorkerGoes(t, NoWorker)
      BY <1>1, <1>6 DEF PageTokenExpired, State
    <2>2. RowsAgree' /\ StateAgrees' /\ FullAgrees(NoWorker)' /\ FeedAgrees(NoWorker)'
      BY <1>0, <1>1, <2>1, SyncSets DEF RowsAgree, StateAgrees, FullAgrees, FeedAgrees, NoWorker
    <2> QED BY <1>0, <2>1, <2>2, AgreedAfter
  <1> QED BY <1>2, <1>3, <1>4, <1>5, <1>6

\* What a batch of the feed does to the index, with the rows it has stored.
BatchRun(w) == IF w.run = NoRun THEN FreshRun ELSE w.run
BatchRows(w) == IF touchesStructure(w) THEN WithStructure(LiveFolders, BatchRun(w)) ELSE folderRow

LEMMA BatchFolders ==
    ASSUME SyncTypeOK, RowsAgree, NEW t \in Tickers, ApplyChanges(t), NEW v, v = worker[t],
           NEW f \in Folders
    PROVE  /\ folderRow' = BatchRows(v)
           /\ folderRow[f].known => folderRow'[f].known
           /\ folderRow'[f].live => folderRow'[f].known
           /\ touchesStructure(v) /\ f \in LiveFolders => folderRow'[f].live
           /\ f \notin LiveFolders /\ folderRow'[f].live => folderRow[f].live
           /\ ~touchesStructure(v) => folderRow'[f] = folderRow[f]
  <1>1. folderRow' = BatchRows(v)
    BY DEF ApplyChanges, BatchRows, BatchRun
  <1>2. CASE touchesStructure(v)
    <2>1. LiveFolders \in SUBSET Folders
      BY DEF LiveFolders
    <2>2. PICK run : folderRow' = WithStructure(LiveFolders, run)
      BY <1>1, <1>2 DEF BatchRows
    <2>3. LET r == WithStructure(LiveFolders, run)[f] IN
              /\ folderRow[f].known => r.known
              /\ r.live => r.known
              /\ f \in LiveFolders => r.live
              /\ f \notin LiveFolders => r.live = (folderRow[f].live /\ folderRow[f].seen = run)
              /\ f \notin LiveFolders => r.known = folderRow[f].known
      BY <2>1, StructureKnown, Zenon
    <2>4. PICK r : r = folderRow'[f]
      OBVIOUS
    <2>5. /\ folderRow[f].known => r.known
          /\ r.live => r.known
          /\ f \in LiveFolders => r.live
          /\ f \notin LiveFolders /\ r.live => folderRow[f].live
      BY <2>2, <2>3, <2>4
    <2> QED BY <1>1, <1>2, <2>4, <2>5
  <1>3. CASE ~touchesStructure(v)
    BY <1>1, <1>3 DEF BatchRows, RowsAgree
  <1> QED BY <1>2, <1>3

\* A batch stores a photo, or leaves it where it is: live, unless it left or its folder did.
BatchStores(p, v, rows) ==
    \E f \in Folders : << p, f >> \in v.changed /\ photoRow'[p] = Stored(p, f, rows, BatchRun(v))
BatchLeaves(p, v, rows) ==
    /\ ~\E f \in Folders : << p, f >> \in v.changed
    /\ photoRow'[p].folder = photoRow[p].folder
    /\ photoRow'[p].live =
          (/\ photoRow[p].live /\ p \notin v.gone
           /\ touchesStructure(v) => ~(/\ photoRow[p].folder # Nowhere
                                       /\ rows[photoRow[p].folder].known
                                       /\ ~rows[photoRow[p].folder].live))

LEMMA BatchPhotos ==
    ASSUME SyncTypeOK, NEW t \in Tickers, ApplyChanges(t), NEW v, v = worker[t],
           NEW rows, rows = folderRow', NEW p \in Photos
    PROVE  BatchStores(p, v, rows) \/ BatchLeaves(p, v, rows)
  <1> DEFINE run == BatchRun(v)
             swept == IF touchesStructure(v) THEN SweptWith(rows) ELSE photoRow
  <1>1. photoRow' = [q \in Photos |->
            IF \E f \in Folders : << q, f >> \in v.changed
            THEN Stored(q, CHOOSE f \in Folders : << q, f >> \in v.changed, rows, run)
            ELSE IF q \in v.gone THEN [swept[q] EXCEPT !.live = FALSE] ELSE swept[q]]
    BY DEF ApplyChanges, BatchRun
  <1>2. CASE \E f \in Folders : << p, f >> \in v.changed
    <2> DEFINE f == CHOOSE f \in Folders : << p, f >> \in v.changed
    <2>1. f \in Folders /\ << p, f >> \in v.changed
      BY <1>2
    <2>2. photoRow'[p] = Stored(p, f, rows, run)
      BY <1>1, <1>2
    <2> HIDE DEF f
    <2> QED BY <2>1, <2>2 DEF BatchStores
  <1>3. CASE ~\E f \in Folders : << p, f >> \in v.changed
    <2>1. photoRow[p] \in PhotoRow
      BY DEF SyncTypeOK
    <2>2. PICK r : r = swept[p]
      OBVIOUS
    <2>3. /\ r \in PhotoRow /\ r.folder = photoRow[p].folder
          /\ r.live = (/\ photoRow[p].live
                       /\ touchesStructure(v) =>
                             ~(/\ photoRow[p].folder # Nowhere
                               /\ rows[photoRow[p].folder].known
                               /\ ~rows[photoRow[p].folder].live))
      <3>1. CASE touchesStructure(v)
        <4>1. r = SweptWith(rows)[p]
          BY <2>2, <3>1
        <4>2. r = IF photoRow[p].folder # Nowhere /\ rows[photoRow[p].folder].known
                     /\ ~rows[photoRow[p].folder].live
                  THEN [photoRow[p] EXCEPT !.live = FALSE] ELSE photoRow[p]
          BY <4>1 DEF SweptWith
        <4>3. r \in PhotoRow
          BY <2>1, <4>2 DEF PhotoRow
        <4> QED BY <3>1, <4>1, <4>3, SweptRow
      <3>2. CASE ~touchesStructure(v)
        BY <2>1, <2>2, <3>2 DEF PhotoRow
      <3> QED BY <3>1, <3>2
    <2>4. photoRow'[p] = IF p \in v.gone THEN [r EXCEPT !.live = FALSE] ELSE r
      BY <1>1, <1>3, <2>2
    <2>5. photoRow'[p].folder = r.folder /\ photoRow'[p].live = (r.live /\ p \notin v.gone)
      BY <2>3, <2>4 DEF PhotoRow
    <2> QED BY <1>3, <2>3, <2>5 DEF BatchLeaves
  <1> QED BY <1>2, <1>3

LEMMA FeedStepsAgreed ==
    ASSUME SyncAgrees, NEW t \in Tickers,
           \/ \E n \in 1 .. MaxChanges : ReadChanges(t, n)
           \/ NoMoreChanges(t) \/ ApplyChanges(t) \/ ChangesTokenExpired(t)
    PROVE  SyncAgrees'
  <1> USE NoWorkerTyped
  <1>0. /\ SyncTypeOK /\ SyncTypeOK' /\ worker[t] \in Worker /\ feed' = feed
        /\ \A s \in Tickers \ {t} : worker[s].pc \in {"idle", "lock"}
    <2>1. worker[t].pc \notin {"idle", "lock"} /\ feed' = feed
      BY DEF ReadChanges, NoMoreChanges, ApplyChanges, ChangesTokenExpired, driveVars
    <2> QED BY <2>1, FeedStepsTyped, OthersWait DEF SyncAgrees, SyncTypeOK
  <1>1. /\ FeedAgrees(worker[t]) /\ StateAgrees /\ RowsAgree /\ state \in State
        /\ Len(feed) \in Nat /\ Len(feed) <= MaxChanges
    BY <1>0 DEF SyncAgrees, WorkersAgree, SyncTypeOK
  <1>2. ASSUME NEW n \in 1 .. MaxChanges, ReadChanges(t, n) PROVE SyncAgrees'
    <2> DEFINE ids == {feed[i] : i \in worker[t].from + 1 .. n}
               there == {p \in ids \cap Photos : OnDrive(p)}
    <2>1. PICK w : /\ WorkerGoes(t, w)
                   /\ w = [worker[t] EXCEPT !.pc = "apply", !.to = n,
                               !.changed = {<< p, drive.in[p] >> : p \in there},
                               !.gone = ids \ (there \cup LiveFolders),
                               !.folders = ids \cap LiveFolders # {}, !.last = n = Len(feed)]
      BY <1>2 DEF ReadChanges
    <2>2. w.pc = "apply" /\ w.from = worker[t].from /\ w.to = n
      <3> HIDE DEF ids, there
      <3> QED BY <1>0, <2>1 DEF Worker
    <2>3. UNCHANGED << feed, state, folderRow, photoRow >> /\ n \in worker[t].from + 1 .. Len(feed)
          /\ worker[t].pc = "changes"
      BY <1>2 DEF ReadChanges, indexVars, driveVars
    <2>4. RowsAgree' /\ StateAgrees' /\ FullAgrees(w)' /\ FeedAgrees(w)'
      BY <1>1, <2>2, <2>3 DEF RowsAgree, StateAgrees, FullAgrees, FeedAgrees
    <2> QED BY <1>0, <2>1, <2>4, AgreedAfter
  <1>3. CASE NoMoreChanges(t)
    <2>1. WorkerGoes(t, NoWorker) /\ state' = state /\ UNCHANGED << folderRow, photoRow >>
      BY <1>1, <1>3 DEF NoMoreChanges, FeedAgrees, State
    <2>2. RowsAgree' /\ StateAgrees' /\ FullAgrees(NoWorker)' /\ FeedAgrees(NoWorker)'
      BY <1>0, <1>1, <2>1 DEF RowsAgree, StateAgrees, FullAgrees, FeedAgrees, NoWorker
    <2> QED BY <1>0, <2>1, <2>2, AgreedAfter
  <1>4. CASE ApplyChanges(t)
    <2>1. PICK w, run : /\ WorkerGoes(t, w)
                        /\ w = IF worker[t].last THEN NoWorker
                               ELSE [NoWorker EXCEPT !.pc = "changes", !.mode = "incremental",
                                                     !.run = run, !.from = worker[t].to]
      BY <1>4 DEF ApplyChanges
    <2>2. w.pc \in {"idle", "changes"} /\ (w.pc = "changes" => w.from = worker[t].to)
      BY <2>1 DEF NoWorker
    <2>3. /\ state'.run = state.run /\ state'.phase = state.phase /\ state'.page = state.page
          /\ state'.pending = state.pending /\ state'.changes = worker[t].to
      <3>1. PICK full : state' = [state EXCEPT !.changes = worker[t].to,
                                      !.lastFull = IF full THEN "never" ELSE @]
        BY <1>4 DEF ApplyChanges
      <3> QED BY <1>1, <3>1 DEF State
    <2>4. worker[t].pc = "apply" /\ worker[t].to <= Len(feed)
      <3>1. worker[t].pc = "apply"
        BY <1>4 DEF ApplyChanges
      <3>2. worker[t].from \in Nat
        BY <1>0, SyncSets DEF Worker, Token
      <3> QED BY <1>1, <3>1, <3>2 DEF FeedAgrees
    <2>5. StateAgrees' /\ FullAgrees(w)' /\ FeedAgrees(w)'
      BY <1>0, <1>1, <2>2, <2>3, <2>4 DEF StateAgrees, FullAgrees, FeedAgrees
    <2>6. RowsAgree'
      <3>1. PICK v, rows : v = worker[t] /\ rows = folderRow'
        OBVIOUS
      <3>2. \A f \in Folders : /\ folderRow[f].known => rows[f].known
                               /\ rows[f].live => rows[f].known
        BY <1>0, <1>1, <1>4, <3>1, BatchFolders
      <3>3. ASSUME NEW p \in Photos, photoRow'[p].folder # Nowhere
            PROVE  rows[photoRow'[p].folder].known
        <4>1. BatchStores(p, v, rows) \/ BatchLeaves(p, v, rows)
          BY <1>0, <1>4, <3>1, BatchPhotos
        <4>2. ASSUME NEW f \in Folders, photoRow'[p] = Stored(p, f, rows, BatchRun(v))
              PROVE  rows[photoRow'[p].folder].known
          <5>1. photoRow'[p].folder = f /\ rows[f].live
            BY <3>3, <4>2, StoredRow
          <5> QED BY <3>2, <5>1
        <4>3. CASE photoRow'[p].folder = photoRow[p].folder
          <5>1. photoRow[p].folder \in Folders
            BY <1>0, <3>3, <4>3 DEF SyncTypeOK, PhotoRow
          <5> QED BY <1>1, <3>2, <3>3, <4>3, <5>1 DEF RowsAgree
        <4> QED BY <4>1, <4>2, <4>3 DEF BatchStores, BatchLeaves
      <3>4. \A f \in Folders : rows[f] = folderRow'[f]
        BY <3>1
      <3> QED BY <3>1, <3>2, <3>3 DEF RowsAgree
    <2> QED BY <1>0, <2>1, <2>5, <2>6, AgreedAfter
  <1>5. CASE ChangesTokenExpired(t)
    <2>1. /\ WorkerGoes(t, NoWorker) /\ UNCHANGED << folderRow, photoRow >>
          /\ state'.run = state.run /\ state'.phase = state.phase /\ state'.page = state.page
          /\ state'.pending = state.pending /\ state'.changes = NoToken
      BY <1>1, <1>5 DEF ChangesTokenExpired, State
    <2>2. RowsAgree' /\ StateAgrees' /\ FullAgrees(NoWorker)' /\ FeedAgrees(NoWorker)'
      BY <1>0, <1>1, <2>1 DEF RowsAgree, StateAgrees, FullAgrees, FeedAgrees, NoWorker
    <2> QED BY <1>0, <2>1, <2>2, AgreedAfter
  <1> QED BY <1>2, <1>3, <1>4, <1>5

LEMMA SyncStepsAgreed == ASSUME SyncAgrees, [SyncNext]_syncVars PROVE SyncAgrees'
  <1>1. SyncTypeOK'
    BY SyncStepsTyped DEF SyncAgrees
  <1>2. CASE UNCHANGED syncVars
    BY <1>1, <1>2 DEF syncVars, driveVars, indexVars, SyncAgrees, OneRuns, RowsAgree, WorkersAgree,
                      StateAgrees, FullAgrees, FeedAgrees
  <1>3. CASE ReconcileIsDue
    <2>1. /\ state'.run = state.run /\ state'.phase = state.phase /\ state'.page = state.page
          /\ state'.pending = state.pending /\ state'.changes = state.changes
          /\ UNCHANGED << feed, folderRow, photoRow, worker >>
      BY <1>3 DEF ReconcileIsDue, SyncAgrees, SyncTypeOK, State, driveVars
    <2> QED BY <1>1, <2>1 DEF SyncAgrees, OneRuns, RowsAgree, WorkersAgree,
                      StateAgrees, FullAgrees, FeedAgrees
  <1> QED BY <1>2, <1>3, DriveKeepsAgreed, LockStepsAgreed, FullStepsAgreed, FeedStepsAgreed
       DEF SyncNext, SyncStep

-----------------------------------------------------------------------------
(* The mirror of the Drive: what is still to be replayed *)

\* The feed names x after position k, or between two positions.
Since(k, x) == \E i \in k + 1 .. Len(feed) : feed[i] = x
Within(j, k, x) == \E i \in j + 1 .. k : feed[i] = x

\* A photo is on the Drive in its folder, but for what the feed names after k.
OnDriveTill(p, k) == p \in drive.live /\ (drive.in[p] \in drive.live \/ Since(k, drive.in[p]))
InPlace(p, k) == OnDriveTill(p, k) /\ photoRow[p].folder = drive.in[p]
\* It is not, or its folder came back after k, one that the index knows and hides.
HiddenTill(p, k) ==
    OnDrive(p) => /\ folderRow[drive.in[p]].known /\ ~folderRow[drive.in[p]].live
                  /\ Since(k, drive.in[p])

\* To replay the feed from k mends what the index shows of the photo.
Mended(p, k) ==
    \/ Since(k, p)
    \/ photoRow[p].live /\ InPlace(p, k)
    \/ ~photoRow[p].live /\ HiddenTill(p, k)

Unnoticed == missed = {} /\ state.run = NoRun

ReplayMends ==
    Unnoticed /\ state.lastFull # "never" /\ state.changes # NoToken
        => \A p \in Photos : Mended(p, state.changes)

\* What an incremental sync has read and not stored yet.
ReadFolder(w, f) == (f \in w.gone \/ w.folders) /\ (f \in w.gone \/ f \in drive.live \/ Since(w.to, f))
ReadPhoto(w, p) ==
    \/ Since(w.to, p)
    \/ << p, drive.in[p] >> \in w.changed /\ OnDriveTill(p, w.to)
    \/ p \in w.gone /\ HiddenTill(p, w.to)
Read(w) ==
    /\ \A p \in Photos, f \in Folders : << p, f >> \in w.changed =>
          /\ p \notin w.gone /\ Within(w.from, w.to, p)
          /\ \A g \in Folders : << p, g >> \in w.changed => g = f
    /\ \A x \in w.gone : Within(w.from, w.to, x)
    /\ \A f \in Folders : Within(w.from, w.to, f) => ReadFolder(w, f)
    /\ \A p \in Photos : Within(w.from, w.to, p) => ReadPhoto(w, p)
ReadsMend == \A t \in Tickers : worker[t].pc = "apply" /\ Unnoticed => Read(worker[t])

\* What a full sync has listed so far.
Listed(p) == p <= state.page \/ \E t \in Tickers : worker[t].pc = "sweep"
FullMends(p) ==
    IF photoRow[p].seen = state.run
    THEN photoRow[p].live /\ (Since(state.pending, p) \/ InPlace(p, state.pending))
    ELSE Listed(p) => Since(state.pending, p) \/ ~OnDrive(p)
ListingMends ==
    missed = {} /\ state.run # NoRun =>
        /\ state.phase = "structure" =>
              /\ \A f \in Folders : folderRow[f].seen # state.run
              /\ \A p \in Photos : photoRow[p].seen # state.run
        /\ state.phase = "files" =>
              /\ \A f \in LiveFolders : folderRow[f].live
              /\ \A p \in Photos : FullMends(p)

SyncInv == SyncAgrees /\ ReplayMends /\ ReadsMend /\ ListingMends

LEMMA SyncStarts == SyncInit => SyncInv
  <1>1. SyncInit => SyncAgrees
    BY SyncStartsAgreed
  <1> QED BY <1>1, NoWorkerTyped DEF SyncInit, SyncInv, ReplayMends, ReadsMend, ListingMends

\* After a change of the Drive a photo or folder it does not name is where it was.
LEMMA DriveMoves ==
    ASSUME SyncTypeOK, NEW id \in Photos \cup Folders,
           Len(feed) < MaxChanges, feed' = Append(feed, id), UNCHANGED indexVars,
           \A p \in Photos \ {id} : /\ drive'.in[p] = drive.in[p]
                                    /\ p \in drive'.live <=> p \in drive.live,
           \A f \in Folders \ {id} : f \in drive'.live <=> f \in drive.live,
           \A f \in Folders : f \in drive'.live \ drive.live =>
                                 folderRow[f].known /\ ~folderRow[f].live,
           NEW k \in Nat, k <= Len(feed)
    PROVE  /\ \A x : Since(k, x)' <=> Since(k, x) \/ x = id
           /\ \A j \in Nat : \A x : Within(j, k, x)' <=> Within(j, k, x)
           /\ \A p \in Photos \ {id} :
                 /\ OnDriveTill(p, k) => OnDriveTill(p, k)'
                 /\ InPlace(p, k) => InPlace(p, k)'
                 /\ HiddenTill(p, k) => HiddenTill(p, k)'
                 /\ Mended(p, k) => Mended(p, k)'
  <1>1. /\ Len(feed) \in Nat /\ Len(feed') = Len(feed) + 1 /\ feed'[Len(feed) + 1] = id
        /\ \A i \in 1 .. Len(feed) : feed'[i] = feed[i]
    BY FeedGrows
  <1>2. ASSUME NEW x PROVE Since(k, x)' <=> Since(k, x) \/ x = id
    <2>1. \A i \in k + 1 .. Len(feed) : i \in k + 1 .. Len(feed') /\ feed'[i] = feed[i]
      BY <1>1
    <2>2. \A i \in k + 1 .. Len(feed') : i \in k + 1 .. Len(feed) \/ i = Len(feed) + 1
      BY <1>1
    <2>3. Len(feed) + 1 \in k + 1 .. Len(feed')
      BY <1>1
    <2> QED BY <1>1, <2>1, <2>2, <2>3 DEF Since
  <1>3. ASSUME NEW j \in Nat, NEW x PROVE Within(j, k, x)' <=> Within(j, k, x)
    <2>1. \A i \in j + 1 .. k : feed'[i] = feed[i]
      BY <1>1
    <2> QED BY <2>1 DEF Within
  <1>4. UNCHANGED << folderRow, photoRow, state >>
    BY DEF indexVars
  <1>5. ASSUME NEW p \in Photos \ {id}
        PROVE  /\ OnDriveTill(p, k) => OnDriveTill(p, k)'
               /\ HiddenTill(p, k) => HiddenTill(p, k)'
    <2>1. PICK f \in Folders : f = drive.in[p]
      BY DEF SyncTypeOK, Drive
    <2>2. drive'.in[p] = f /\ (p \in drive'.live <=> p \in drive.live)
      BY <2>1
    <2>3. f \in drive.live => f \in drive'.live \/ f = id
      OBVIOUS
    <2>4. f \in drive'.live => f \in drive.live \/ (folderRow[f].known /\ ~folderRow[f].live /\ f = id)
      OBVIOUS
    <2>5. Since(k, f)' <=> Since(k, f) \/ f = id
      BY <1>2
    <2>6. Since(k, drive.in[p])' <=> Since(k, f)'
      <3>1. drive'.in[p] = f
        BY <2>2
      <3> QED BY <3>1 DEF Since
    <2>7. Since(k, drive.in[p]) <=> Since(k, f)
      BY <2>1
    <2> QED BY <1>4, <2>1, <2>2, <2>3, <2>4, <2>5, <2>6, <2>7 DEF OnDriveTill, HiddenTill, OnDrive
  <1>6. ASSUME NEW p \in Photos \ {id} PROVE InPlace(p, k) => InPlace(p, k)'
    BY <1>4, <1>5 DEF InPlace
  <1>7. ASSUME NEW p \in Photos \ {id} PROVE Mended(p, k) => Mended(p, k)'
    BY <1>2, <1>4, <1>5, <1>6 DEF Mended
  <1> QED BY <1>2, <1>3, <1>5, <1>6, <1>7

LEMMA TokensAreNat ==
    ASSUME SyncTypeOK
    PROVE  /\ state.changes \in Nat /\ state.pending \in Nat /\ Len(feed) \in Nat
           /\ \A t \in Tickers : worker[t].from \in Nat /\ worker[t].to \in Nat
  BY SyncSets DEF SyncTypeOK, State, Worker, Token

LEMMA DriveMends == ASSUME SyncInv, DriveNext PROVE ReplayMends' /\ ReadsMend' /\ ListingMends'
  <1> USE DEF SyncInv, SyncAgrees
  <1>1. PICK id \in Photos \cup Folders :
              /\ Len(feed) < MaxChanges /\ feed' = Append(feed, id)
              /\ UNCHANGED << indexVars, worker >>
              /\ \A p \in Photos \ {id} : /\ drive'.in[p] = drive.in[p]
                                          /\ p \in drive'.live <=> p \in drive.live
              /\ \A f \in Folders \ {id} : f \in drive'.live <=> f \in drive.live
              /\ missed' = {} =>
                    /\ missed = {}
                    /\ \A f \in Folders : f \in drive'.live \ drive.live =>
                          folderRow[f].known /\ ~folderRow[f].live /\ state.run = NoRun
    BY DriveStep
  <1>2. UNCHANGED << folderRow, photoRow, state, worker >>
    BY <1>1 DEF indexVars
  <1>3. SUFFICES ASSUME missed' = {} PROVE ReplayMends' /\ ReadsMend' /\ ListingMends'
    BY DEF ReplayMends, ReadsMend, ListingMends, Unnoticed
  <1>4. ASSUME NEW k \in Nat, k <= Len(feed)
        PROVE  /\ \A x : Since(k, x)' <=> Since(k, x) \/ x = id
               /\ \A j \in Nat : \A x : Within(j, k, x)' <=> Within(j, k, x)
               /\ \A p \in Photos \ {id} :
                     /\ OnDriveTill(p, k) => OnDriveTill(p, k)'
                     /\ InPlace(p, k) => InPlace(p, k)'
                     /\ HiddenTill(p, k) => HiddenTill(p, k)'
                     /\ Mended(p, k) => Mended(p, k)'
    BY <1>1, <1>3, <1>4, DriveMoves
  <1>5. ReplayMends'
    <2>1. SUFFICES ASSUME Unnoticed, state.lastFull # "never", state.changes # NoToken, NEW p \in Photos
                   PROVE  Mended(p, state.changes)'
      BY <1>1, <1>2, <1>3 DEF ReplayMends, Unnoticed
    <2>2. PICK k \in Nat : k = state.changes /\ k <= Len(feed)
      BY <2>1, TokensAreNat DEF StateAgrees
    <2>3. Mended(p, k)
      BY <2>1, <2>2 DEF ReplayMends
    <2>4. Mended(p, k)'
      <3>1. CASE p = id
        BY <1>4, <2>2, <3>1 DEF Mended
      <3>2. CASE p # id
        BY <1>4, <2>2, <2>3, <3>2
      <3> QED BY <3>1, <3>2
    <2>5. k = state'.changes
      BY <1>2, <2>2
    <2> QED BY <2>4, <2>5 DEF Mended, InPlace, HiddenTill, OnDriveTill, Since
  <1>6. ReadsMend'
    <2>1. SUFFICES ASSUME NEW t \in Tickers, worker[t].pc = "apply", Unnoticed
                   PROVE  Read(worker[t])'
      BY <1>1, <1>2, <1>3 DEF ReadsMend, Unnoticed
    <2>2. PICK w : w = worker[t]
      OBVIOUS
    <2>3. Read(w) /\ w.from \in Nat /\ w.to \in Nat /\ w.to <= Len(feed)
      BY <2>1, <2>2, TokensAreNat DEF ReadsMend, WorkersAgree, FeedAgrees
    <2>4. \A x : Within(w.from, w.to, x)' <=> Within(w.from, w.to, x)
      BY <1>4, <2>3
    <2>5. ASSUME NEW f \in Folders, ReadFolder(w, f) PROVE ReadFolder(w, f)'
      <3>1. f \in drive.live => f \in drive'.live \/ f = id
        BY <1>1
      <3> QED BY <1>4, <2>3, <2>5, <3>1 DEF ReadFolder
    <2>6. ASSUME NEW p \in Photos, ReadPhoto(w, p) PROVE ReadPhoto(w, p)'
      <3>1. CASE p = id
        BY <1>4, <2>3, <3>1 DEF ReadPhoto
      <3>2. CASE p # id
        <4>1. drive'.in[p] = drive.in[p]
          BY <1>1, <3>2
        <4> QED BY <1>4, <2>3, <2>6, <3>2, <4>1 DEF ReadPhoto
      <3> QED BY <3>1, <3>2
    <2>7. Read(w)'
      BY <2>3, <2>4, <2>5, <2>6 DEF Read
    <2>8. w = worker'[t]
      BY <1>2, <2>2
    <2> QED BY <2>7, <2>8
  <1>7. ListingMends'
    <2>1. SUFFICES ASSUME missed = {}, state.run # NoRun PROVE ListingMends'
      BY <1>1, <1>2, <1>3 DEF ListingMends
    <2>2. PICK k \in Nat : k = state.pending /\ k <= Len(feed)
      BY <2>1, TokensAreNat DEF StateAgrees
    <2>3. \A f \in Folders : f \in drive'.live => f \in drive.live
      BY <1>1, <1>3, <2>1
    <2>4. ASSUME NEW p \in Photos, FullMends(p) PROVE FullMends(p)'
      <3>1. Since(k, p) => Since(k, p)'
        BY <1>4, <2>2
      <3>2. InPlace(p, k) => Since(k, p)' \/ InPlace(p, k)'
        BY <1>4, <2>2
      <3>3. ~OnDrive(p) => Since(k, p)' \/ ~OnDrive(p)'
        <4>1. CASE p = id
          BY <1>4, <2>2, <4>1
        <4>2. CASE p # id
          <5>1. drive'.in[p] = drive.in[p] /\ drive.in[p] \in Folders
                /\ (p \in drive'.live <=> p \in drive.live)
            BY <1>1, <4>2 DEF SyncTypeOK, Drive
          <5> QED BY <2>3, <5>1 DEF OnDrive
        <4> QED BY <4>1, <4>2
      <3>4. Listed(p)' <=> Listed(p)
        BY <1>2 DEF Listed
      <3>5. (Since(k, p)' <=> Since(state.pending, p)') /\ (InPlace(p, k)' <=> InPlace(p, state.pending)')
        <4>1. k = state'.pending
          BY <1>2, <2>2
        <4> QED BY <4>1 DEF Since, InPlace, OnDriveTill
      <3> QED BY <1>2, <2>2, <2>4, <3>1, <3>2, <3>3, <3>4, <3>5 DEF FullMends
    <2>5. \A f \in LiveFolders' : f \in LiveFolders
      BY <2>3 DEF LiveFolders
    <2> QED BY <1>2, <2>1, <2>4, <2>5 DEF ListingMends
  <1> QED BY <1>5, <1>6, <1>7

\* Steps that leave the Drive, the index and what was read as they are.
LEMMA QuietMends ==
    ASSUME SyncInv, UNCHANGED << drive, feed, folderRow, photoRow, missed >>,
           state'.run = state.run, state'.phase = state.phase, state'.page = state.page,
           state'.pending = state.pending, state'.changes \in {state.changes, NoToken},
           state'.lastFull # "never" => state.lastFull # "never",
           \A t \in Tickers : worker'[t].pc = "apply" => worker'[t] = worker[t],
           \A t \in Tickers : worker'[t].pc = "sweep" => worker[t].pc = "sweep"
    PROVE  ReplayMends' /\ ReadsMend' /\ ListingMends'
  <1> USE DEF SyncInv
  <1>1. \A k, x : Since(k, x)' <=> Since(k, x)
    BY DEF Since
  <1>2. \A k : \A p \in Photos :
            /\ OnDriveTill(p, k)' <=> OnDriveTill(p, k)
            /\ InPlace(p, k)' <=> InPlace(p, k)
            /\ HiddenTill(p, k)' <=> HiddenTill(p, k)
            /\ Mended(p, k)' <=> Mended(p, k)
    BY DEF OnDriveTill, InPlace, HiddenTill, Mended, OnDrive, Since
  <1>3. ReplayMends'
    <2>1. SUFFICES ASSUME Unnoticed', state'.lastFull # "never", state'.changes # NoToken,
                          NEW p \in Photos
                   PROVE  Mended(p, state.changes)'
      BY DEF ReplayMends
    <2>2. PICK k : k = state.changes /\ k = state'.changes
      BY <2>1
    <2>3. Mended(p, k)'
      BY <1>2, <2>1, <2>2 DEF ReplayMends, Unnoticed
    <2> QED BY <2>2, <2>3
  <1>4. ReadsMend'
    <2>1. SUFFICES ASSUME Unnoticed', NEW t \in Tickers, worker'[t].pc = "apply"
                   PROVE  Read(worker[t])'
      BY DEF ReadsMend
    <2>2. PICK w : w = worker[t] /\ w = worker'[t]
      BY <2>1
    <2>3. Read(w)
      BY <2>1, <2>2 DEF ReadsMend, Unnoticed
    <2>4. \A j, k, x : Within(j, k, x)' <=> Within(j, k, x)
      BY DEF Within
    <2>5. Read(w)'
      BY <1>1, <1>2, <2>3, <2>4 DEF Read, ReadFolder, ReadPhoto
    <2> QED BY <2>2, <2>5
  <1>5. ListingMends'
    <2>1. SUFFICES ASSUME missed = {}, state.run # NoRun PROVE ListingMends'
      BY DEF ListingMends
    <2>2. ASSUME NEW p \in Photos, FullMends(p) PROVE FullMends(p)'
      <3>1. Listed(p)' => Listed(p)
        BY DEF Listed
      <3>2. (Since(state.pending, p)' <=> Since(state.pending, p))
            /\ (InPlace(p, state.pending)' <=> InPlace(p, state.pending))
        BY DEF Since, InPlace, OnDriveTill
      <3> QED BY <2>2, <3>1, <3>2 DEF FullMends, OnDrive
    <2> QED BY <2>1, <2>2 DEF ListingMends, LiveFolders
  <1> QED BY <1>3, <1>4, <1>5

LEMMA LockStepsMend ==
    ASSUME SyncInv, NEW t \in Tickers,
           \/ Tick(t) \/ Run(t) \/ SyncStops(t) \/ IncrementalBegins(t)
           \/ \E mode \in AdminModes : TriggerSync(t, mode)
    PROVE  ReplayMends' /\ ReadsMend' /\ ListingMends'
  <1>1. SyncTypeOK /\ worker[t] \in Worker
    BY DEF SyncInv, SyncAgrees, SyncTypeOK
  <1>2. UNCHANGED << drive, feed, folderRow, photoRow, missed, state >>
    BY DEF Tick, Run, SyncStops, IncrementalBegins, TriggerSync, driveVars, indexVars
  <1>3. \E w : WorkerGoes(t, w) /\ w.pc \notin {"apply", "sweep"}
    <2>1. CASE Tick(t)
      <3>1. PICK w, mode : WorkerGoes(t, w) /\ w = [NoWorker EXCEPT !.pc = "lock", !.mode = mode]
        BY <2>1 DEF Tick
      <3>2. w.pc = "lock"
        BY <3>1 DEF NoWorker
      <3> QED BY <3>1, <3>2
    <2>2. CASE \E mode \in AdminModes : TriggerSync(t, mode)
      <3>1. PICK w, mode : WorkerGoes(t, w) /\ w = [NoWorker EXCEPT !.pc = "lock", !.mode = mode]
        BY <2>2 DEF TriggerSync
      <3>2. w.pc = "lock"
        BY <3>1 DEF NoWorker
      <3> QED BY <3>1, <3>2
    <2>3. CASE SyncStops(t)
      BY <2>3, NoWorkerTyped DEF SyncStops
    <2>4. CASE Run(t)
      <3>1. [worker[t] EXCEPT !.pc = "begin"].pc = "begin"
        BY <1>1 DEF Worker
      <3> QED BY <2>4, <3>1, NoWorkerTyped DEF Run
    <2>5. CASE IncrementalBegins(t)
      <3>1. \A from : [worker[t] EXCEPT !.pc = "changes", !.from = from].pc = "changes"
        BY <1>1 DEF Worker
      <3> QED BY <2>5, <3>1, NoWorkerTyped DEF IncrementalBegins
    <2> QED BY <2>1, <2>2, <2>3, <2>4, <2>5
  <1>4. PICK w : WorkerGoes(t, w) /\ w.pc \notin {"apply", "sweep"}
    BY <1>3
  <1>5. \A s \in Tickers : worker'[s] = IF s = t THEN w ELSE worker[s]
    BY <1>1, <1>4, WorkerAfter
  <1> QED BY <1>2, <1>4, <1>5, QuietMends

LEMMA FullStepsMend ==
    ASSUME SyncInv, NEW t \in Tickers,
           \/ FullBegins(t) \/ StoreStructure(t) \/ StorePage(t) \/ SweepPhotos(t)
           \/ PageTokenExpired(t)
    PROVE  ReplayMends' /\ ReadsMend' /\ ListingMends'
  <1> USE NoWorkerTyped
  <1>0. /\ SyncTypeOK /\ worker[t] \in Worker /\ UNCHANGED << drive, feed >>
        /\ \A s \in Tickers \ {t} : worker[s].pc \in {"idle", "lock"}
        /\ FullAgrees(worker[t]) /\ StateAgrees /\ RowsAgree /\ state \in State
    <2>1. worker[t].pc \notin {"idle", "lock"} /\ UNCHANGED << drive, feed >>
      BY DEF FullBegins, StoreStructure, StorePage, SweepPhotos, PageTokenExpired, driveVars
    <2> QED BY <2>1, OthersWait DEF SyncInv, SyncAgrees, SyncTypeOK, WorkersAgree
  <1>1. ASSUME NEW w, WorkerGoes(t, w), w.pc # "apply"
        PROVE  /\ ReadsMend'
               /\ \A s \in Tickers : worker'[s].pc = "sweep" <=> s = t /\ w.pc = "sweep"
               /\ \A s \in Tickers : worker'[s].pc # "apply"
    <2>1. \A s \in Tickers : worker'[s] = IF s = t THEN w ELSE worker[s]
      BY <1>0, <1>1, WorkerAfter
    <2> QED BY <1>0, <1>1, <2>1 DEF ReadsMend
  <1>2. /\ \A k, x : Since(k, x)' <=> Since(k, x)
        /\ \A p \in Photos : OnDrive(p)' <=> OnDrive(p)
        /\ \A k : \A p \in Photos : OnDriveTill(p, k)' <=> OnDriveTill(p, k)
    BY <1>0 DEF Since, OnDriveTill, OnDrive
  <1>3. CASE FullBegins(t)
    <2>1. CASE state.run # NoRun /\ state.phase = "files"
      <3>1. PICK w : /\ WorkerGoes(t, w)
                     /\ w = [worker[t] EXCEPT !.pc = "files", !.run = state.run, !.page = state.page]
        BY <1>3, <2>1 DEF FullBegins
      <3>2. w.pc = "files"
        BY <1>0, <3>1 DEF Worker
      <3>3. UNCHANGED << state, folderRow, photoRow, missed >>
        BY <1>3, <2>1 DEF FullBegins
      <3> QED BY <1>0, <1>1, <3>1, <3>2, <3>3, QuietMends
    <2>2. CASE ~(state.run # NoRun /\ state.phase = "files")
      <3>1. PICK w : /\ WorkerGoes(t, w)
                     /\ w = [worker[t] EXCEPT !.pc = "structure", !.run = FreshRun]
        BY <1>3, <2>2 DEF FullBegins
      <3>2. w.pc = "structure"
        BY <1>0, <3>1 DEF Worker
      <3>3. /\ state'.run = FreshRun /\ state'.phase = "structure"
            /\ UNCHANGED << folderRow, photoRow >>
        BY <1>0, <1>3, <2>2 DEF FullBegins, State
      <3>4. ReplayMends'
        BY <1>0, <3>3, FreshRunIsFresh, SyncSets DEF ReplayMends, Unnoticed
      <3>5. ListingMends'
        BY <1>0, <3>3, FreshRunIsFresh DEF ListingMends
      <3> QED BY <1>1, <3>1, <3>2, <3>4, <3>5
    <2> QED BY <2>1, <2>2
  <1>4. CASE StoreStructure(t)
    <2>1. PICK w : WorkerGoes(t, w) /\ w = [worker[t] EXCEPT !.pc = "files", !.page = 0]
      BY <1>4 DEF StoreStructure
    <2>2. w.pc = "files"
      BY <1>0, <2>1 DEF Worker
    <2>3. /\ state'.run = state.run /\ state'.phase = "files" /\ state'.page = 0
          /\ missed' = missed /\ state.run # NoRun /\ state.phase = "structure"
      BY <1>0, <1>4 DEF StoreStructure, State, FullAgrees
    <2>4. ReplayMends'
      BY <2>3 DEF ReplayMends, Unnoticed
    <2>5. ListingMends'
      <3>1. SUFFICES ASSUME missed = {}
                     PROVE  /\ \A f \in LiveFolders : folderRow'[f].live
                            /\ \A p \in Photos : photoRow'[p].seen # state.run /\ ~Listed(p)'
        BY <1>0, <2>3 DEF ListingMends, FullMends, LiveFolders
      <3>2. PICK run, rows : /\ rows = WithStructure(LiveFolders, run) /\ rows = folderRow'
                             /\ photoRow' = SweptWith(rows)
        BY <1>4 DEF StoreStructure
      <3>3. LiveFolders \in SUBSET Folders
        BY DEF LiveFolders
      <3>4. \A f \in LiveFolders : rows[f].live
        <4>1. SUFFICES ASSUME NEW f \in Folders, f \in LiveFolders PROVE rows[f].live
          BY <3>3
        <4>2. WithStructure(LiveFolders, run)[f].live
          BY <1>0, <3>3, <4>1, StructureKnown
        <4> QED BY <3>2, <4>2
      <3>5. \A p \in Photos : photoRow'[p].seen = photoRow[p].seen
        BY <1>0, <3>2, SweptRow
      <3>6. \A p \in Photos : photoRow[p].seen # state.run
        BY <2>3, <3>1 DEF SyncInv, ListingMends
      <3>7. \A p \in Photos : ~Listed(p)'
        <4>1. \A s \in Tickers : worker'[s].pc # "sweep"
          BY <1>1, <2>1, <2>2
        <4>2. \A p \in Photos : ~(p <= state'.page)
          BY <2>3, SyncSets DEF Photos
        <4> QED BY <4>1, <4>2 DEF Listed
      <3> QED BY <3>2, <3>4, <3>5, <3>6, <3>7
    <2> QED BY <1>1, <2>1, <2>2, <2>4, <2>5
  <1>5. CASE StorePage(t)
    <2>0. PICK p, next : p = worker[t].page + 1 /\ next = IF p < NPhotos THEN p ELSE 0
      OBVIOUS
    <2>1. PICK w : /\ WorkerGoes(t, w)
                   /\ w = [worker[t] EXCEPT !.pc = IF next = 0 THEN "sweep" ELSE "files", !.page = next]
      BY <1>5, <2>0 DEF StorePage
    <2>2. w.pc # "apply" /\ (w.pc = "sweep" => next = 0)
      <3>1. w.pc = IF next = 0 THEN "sweep" ELSE "files"
        BY <1>0, <2>1 DEF Worker
      <3> QED BY <3>1
    <2>3. /\ state'.run = state.run /\ state'.phase = state.phase /\ state'.page = next
          /\ state'.pending = state.pending /\ folderRow' = folderRow
          /\ missed' = missed /\ state.run # NoRun /\ state.phase = "files"
          /\ worker[t].run = state.run /\ worker[t].page = state.page
          /\ worker[t].page \in Nat /\ worker[t].page < NPhotos
      <3>1. worker[t].page \in Nat
        BY <1>0, SyncSets DEF Worker
      <3> QED BY <1>0, <1>5, <2>0, <3>1 DEF StorePage, State, FullAgrees
    <2>4. p \in Photos /\ p \in Nat
      BY <2>0, <2>3, SyncSets DEF Photos
    <2>5. ReplayMends'
      BY <2>3 DEF ReplayMends, Unnoticed
    <2>6. ListingMends'
      <3>1. SUFFICES ASSUME missed = {} PROVE ListingMends'
        BY <2>3 DEF ListingMends
      <3>2. PICK k : k = state.pending /\ k = state'.pending
        BY <2>3
      <3>3. /\ \A f \in LiveFolders : folderRow[f].live
            /\ \A q \in Photos : FullMends(q)
        BY <2>3, <3>1 DEF SyncInv, ListingMends
      <3>4. ASSUME NEW q \in Photos, q # p PROVE FullMends(q)'
        <4>1. photoRow'[q] = photoRow[q]
          BY <1>0, <1>5, <2>0, <3>4 DEF StorePage, SyncTypeOK
        <4>2. Listed(q)' => Listed(q)
          <5>1. q <= state'.page => q <= state.page
            BY <2>0, <2>3, <2>4, <3>4, SyncSets DEF Photos
          <5>2. (\E s \in Tickers : worker'[s].pc = "sweep") => q <= state.page
            <6>1. (\E s \in Tickers : worker'[s].pc = "sweep") => next = 0
              BY <1>1, <2>1, <2>2
            <6>2. next = 0 => q <= state.page
              BY <2>0, <2>3, <2>4, <3>4, SyncSets DEF Photos
            <6> QED BY <6>1, <6>2
          <5> QED BY <5>1, <5>2 DEF Listed
        <4>3. /\ Since(state.pending, q)' <=> Since(state.pending, q)
              /\ InPlace(q, state.pending)' <=> InPlace(q, state.pending)
          BY <1>0, <2>3, <4>1 DEF Since, InPlace, OnDriveTill
        <4> QED BY <1>2, <2>3, <3>3, <4>1, <4>2, <4>3 DEF FullMends
      <3>5. FullMends(p)'
        <4>1. CASE OnDrive(p)
          <5>1. PICK f \in Folders : f = drive.in[p]
            BY <1>0, <2>4 DEF SyncTypeOK, Drive
          <5>2. folderRow[f].live
            BY <3>3, <4>1, <5>1 DEF OnDrive, LiveFolders
          <5>3. photoRow'[p] = Stored(p, f, folderRow, state.run)
            BY <1>0, <1>5, <2>0, <2>3, <2>4, <4>1, <5>1 DEF StorePage, SyncTypeOK
          <5>4. photoRow'[p].live /\ photoRow'[p].seen = state.run /\ photoRow'[p].folder = f
            BY <5>2, <5>3, StoredRow
          <5>5. OnDriveTill(p, state.pending)'
            BY <1>0, <4>1 DEF OnDrive, OnDriveTill
          <5>6. InPlace(p, state.pending)'
            BY <1>0, <5>1, <5>4, <5>5 DEF InPlace
          <5> QED BY <2>3, <5>4, <5>6 DEF FullMends
        <4>2. CASE ~OnDrive(p)
          <5>1. photoRow'[p] = photoRow[p]
            BY <1>0, <1>5, <2>0, <4>2 DEF StorePage, SyncTypeOK
          <5>2. /\ Since(state.pending, p)' <=> Since(state.pending, p)
                /\ InPlace(p, state.pending)' <=> InPlace(p, state.pending)
            BY <1>0, <2>3, <5>1 DEF Since, InPlace, OnDriveTill
          <5> QED BY <1>2, <2>3, <2>4, <3>3, <4>2, <5>1, <5>2 DEF FullMends
        <4> QED BY <4>1, <4>2
      <3> QED BY <1>0, <2>3, <3>3, <3>4, <3>5 DEF ListingMends, LiveFolders
    <2> QED BY <1>1, <2>1, <2>2, <2>5, <2>6
  <1>6. CASE SweepPhotos(t)
    <2>1. /\ state'.run = NoRun /\ state'.changes = state.pending /\ WorkerGoes(t, NoWorker)
          /\ folderRow' = folderRow /\ missed' = missed
          /\ worker[t].pc = "sweep" /\ worker[t].run = state.run /\ state.run # NoRun
          /\ state.phase = "files"
      BY <1>0, <1>6 DEF SweepPhotos, FinishFull, State, FullAgrees
    <2>2. ListingMends'
      BY <2>1 DEF ListingMends
    <2>3. ReplayMends'
      <3>1. SUFFICES ASSUME missed = {}, NEW p \in Photos PROVE Mended(p, state.changes)'
        BY <2>1 DEF ReplayMends, Unnoticed
      <3>2. PICK k : k = state.pending /\ k = state'.changes
        BY <2>1
      <3>3. FullMends(p)
        BY <2>1, <3>1 DEF SyncInv, ListingMends
      <3>4. photoRow[p] \in PhotoRow
        BY <1>0 DEF SyncTypeOK
      <3>5. photoRow'[p] = IF photoRow[p].seen = state.run THEN photoRow[p]
                           ELSE [photoRow[p] EXCEPT !.live = FALSE]
        BY <1>6, <2>1 DEF SweepPhotos
      <3>6. CASE photoRow[p].seen = state.run
        <4>1. photoRow'[p] = photoRow[p] /\ photoRow[p].live /\ (Since(k, p) \/ InPlace(p, k))
          BY <3>2, <3>3, <3>5, <3>6 DEF FullMends
        <4>2. photoRow'[p].live /\ (Since(k, p)' \/ InPlace(p, k)')
          BY <1>0, <1>2, <4>1 DEF InPlace
        <4>3. (Since(k, p)' <=> Since(state.changes, p)')
              /\ (InPlace(p, k)' <=> InPlace(p, state.changes)')
          BY <3>2 DEF Since, InPlace, OnDriveTill
        <4> QED BY <4>2, <4>3 DEF Mended
      <3>7. CASE photoRow[p].seen # state.run
        <4>1. ~photoRow'[p].live
          BY <3>4, <3>5, <3>7 DEF PhotoRow
        <4>2. Since(k, p) \/ ~OnDrive(p)
          BY <2>1, <3>2, <3>3, <3>7 DEF FullMends, Listed
        <4>3. Since(k, p)' \/ HiddenTill(p, k)'
          BY <1>2, <4>2 DEF HiddenTill
        <4>4. (Since(k, p)' <=> Since(state.changes, p)')
              /\ (HiddenTill(p, k)' <=> HiddenTill(p, state.changes)')
          BY <3>2 DEF Since, HiddenTill
        <4> QED BY <4>1, <4>3, <4>4 DEF Mended
      <3> QED BY <3>6, <3>7
    <2> QED BY <1>1, <2>1, <2>2, <2>3
  <1>7. CASE PageTokenExpired(t)
    <2>1. /\ state'.run = NoRun /\ state'.lastFull = state.lastFull
          /\ WorkerGoes(t, NoWorker) /\ (missed' = {} => state.lastFull = "never")
      BY <1>0, <1>7 DEF PageTokenExpired, State, Misses
    <2>2. ReplayMends' /\ ListingMends'
      BY <2>1 DEF ReplayMends, ListingMends, Unnoticed
    <2> QED BY <1>1, <2>1, <2>2
  <1> QED BY <1>3, <1>4, <1>5, <1>6, <1>7

\* A batch, from the rows that are mended up to its first position, mends up to its last.
LEMMA BatchMends ==
    ASSUME SyncInv, NEW t \in Tickers, ApplyChanges(t), NEW v, v = worker[t],
           Unnoticed, Read(v), state'.lastFull # "never", missed' = {}, NEW p \in Photos,
           Mended(p, v.from)
    PROVE  Mended(p, v.to)'
  <1> USE DEF SyncInv, SyncAgrees
  <1>0. /\ SyncTypeOK /\ RowsAgree /\ UNCHANGED << drive, feed >> /\ v \in Worker
        /\ v.from \in Nat /\ v.to \in Nat /\ v.from < v.to
    <2>1. v.to \in v.from + 1 .. Len(feed) /\ v \in Worker
      BY DEF WorkersAgree, FeedAgrees, ApplyChanges, SyncTypeOK
    <2> QED BY <2>1, TokensAreNat DEF ApplyChanges, driveVars
  <1>1. PICK rows : rows = folderRow'
    OBVIOUS
  <1>2. \A f \in Folders :
           /\ folderRow[f].known => rows[f].known
           /\ touchesStructure(v) /\ f \in LiveFolders => rows[f].live
           /\ f \notin LiveFolders /\ rows[f].live => folderRow[f].live
           /\ ~touchesStructure(v) => rows[f] = folderRow[f]
    BY <1>0, <1>1, BatchFolders
  <1>3. /\ ~\E c \in v.changed : ~rows[c[2]].live
        /\ ~\E f \in (v.gone \cap Folders) \ LiveFolders : rows[f].live
    <2>1. folderRow' = BatchRows(v)
      BY <1>0, BatchFolders, SyncSets
    <2>2. /\ {x \in {"adrift"} : \E c \in v.changed : ~BatchRows(v)[c[2]].live} = {}
          /\ {x \in {"kept"} : \E f \in (v.gone \cap Folders) \ LiveFolders : BatchRows(v)[f].live} = {}
      BY DEF ApplyChanges, BatchRows, BatchRun
    <2> QED BY <1>1, <2>1, <2>2
  <1>4. touchesStructure(v) => ~Revived(LiveFolders)
    <2>1. state' = [state EXCEPT !.changes = v.to,
                        !.lastFull = IF touchesStructure(v) /\ Revived(LiveFolders) THEN "never" ELSE @]
      BY DEF ApplyChanges
    <2> QED BY <2>1 DEF SyncTypeOK, State
  <1>5. \A f \in Folders : folderRow[f].known /\ ~folderRow[f].live /\ f \in drive.live =>
            ~touchesStructure(v) /\ rows[f].known /\ ~rows[f].live
    BY <1>2, <1>4 DEF Revived, LiveFolders
  <1>6. /\ Since(v.to, p)' <=> Since(v.to, p)
        /\ OnDriveTill(p, v.to)' <=> OnDriveTill(p, v.to)
    BY <1>0 DEF Since, OnDriveTill
  <1>7. \A x : Since(v.from, x) => Since(v.to, x) \/ Within(v.from, v.to, x)
    BY <1>0, TokensAreNat DEF Since, Within
  <1>8. PICK f \in Folders : f = drive.in[p] /\ f = drive'.in[p]
    BY <1>0 DEF SyncTypeOK, Drive
  <1>9. HiddenTill(p, v.to) => HiddenTill(p, v.to)'
    BY <1>0, <1>1, <1>5, <1>8 DEF HiddenTill, OnDrive, Since
  <1>10. BatchStores(p, v, rows) \/ BatchLeaves(p, v, rows)
    BY <1>0, <1>1, BatchPhotos
  <1>11. SUFFICES ASSUME ~Since(v.to, p) PROVE Mended(p, v.to)'
    BY <1>6 DEF Mended
  <1>12. CASE BatchStores(p, v, rows)
    <2>1. PICK g \in Folders : << p, g >> \in v.changed /\ photoRow'[p] = Stored(p, g, rows, BatchRun(v))
      BY <1>12 DEF BatchStores
    <2>2. p \notin v.gone /\ Within(v.from, v.to, p) /\ (<< p, f >> \in v.changed => f = g)
      BY <2>1 DEF Read
    <2>3. << p, f >> \in v.changed /\ OnDriveTill(p, v.to)
      BY <1>8, <1>11, <2>2 DEF Read, ReadPhoto
    <2>4. rows[f].live
      <3>1. << p, f >>[2] = f
        OBVIOUS
      <3> QED BY <1>3, <2>3, <3>1
    <2>5. photoRow'[p].live /\ photoRow'[p].folder = f
      BY <2>1, <2>2, <2>3, <2>4, StoredRow
    <2> QED BY <1>6, <1>8, <2>3, <2>5 DEF Mended, InPlace
  <1>13. CASE BatchLeaves(p, v, rows)
    <2>1. ~\E g \in Folders : << p, g >> \in v.changed
      BY <1>13 DEF BatchLeaves
    <2>2. CASE p \in v.gone
      <3>1. ~photoRow'[p].live
        BY <1>13, <2>2 DEF BatchLeaves
      <3>2. Within(v.from, v.to, p)
        BY <2>2 DEF Read
      <3>3. HiddenTill(p, v.to)
        BY <1>8, <1>11, <2>1, <3>2 DEF Read, ReadPhoto
      <3> QED BY <1>9, <3>1, <3>3 DEF Mended
    <2>3. CASE p \notin v.gone
      <3>1. ~Within(v.from, v.to, p)
        BY <1>8, <1>11, <2>1, <2>3 DEF Read, ReadPhoto
      <3>2. ~Since(v.from, p)
        BY <1>7, <1>11, <3>1
      <3>3. CASE photoRow[p].live /\ InPlace(p, v.from)
        <4>1. p \in drive.live /\ photoRow[p].folder = f /\ folderRow[f].known
          BY <1>0, <1>8, <3>3, SyncSets DEF InPlace, OnDriveTill, RowsAgree
        <4>2. photoRow'[p].folder = f
          BY <1>13, <4>1 DEF BatchLeaves
        <4>3. CASE f \in drive.live
          <5>1. photoRow'[p].live
            <6>1. touchesStructure(v) => rows[f].live
              BY <1>2, <4>3 DEF LiveFolders
            <6> QED BY <1>13, <2>3, <3>3, <4>1, <6>1 DEF BatchLeaves
          <5>2. OnDriveTill(p, v.to)
            BY <1>8, <4>1, <4>3 DEF OnDriveTill
          <5> QED BY <1>6, <1>8, <4>2, <5>1, <5>2 DEF Mended, InPlace
        <4>4. CASE f \notin drive.live
          <5>1. ~OnDrive(p)'
            BY <1>0, <1>8, <4>4 DEF OnDrive
          <5>2. HiddenTill(p, v.to)'
            BY <5>1 DEF HiddenTill
          <5>3. CASE Since(v.to, f)
            <6>1. OnDriveTill(p, v.to)
              BY <1>8, <4>1, <5>3 DEF OnDriveTill
            <6>2. InPlace(p, v.to)'
              BY <1>6, <1>8, <4>2, <6>1 DEF InPlace
            <6>3. photoRow'[p].live \in BOOLEAN
              BY <1>13 DEF BatchLeaves
            <6> QED BY <5>2, <6>2, <6>3 DEF Mended
          <5>4. CASE ~Since(v.to, f)
            <6>1. Since(v.from, f)
              BY <1>8, <3>3, <4>4 DEF InPlace, OnDriveTill
            <6>2. ReadFolder(v, f)
              BY <1>7, <5>4, <6>1 DEF Read
            <6>3. f \in v.gone
              BY <4>4, <5>4, <6>2 DEF ReadFolder
            <6>4. touchesStructure(v) /\ ~rows[f].live /\ rows[f].known
              BY <1>2, <1>3, <4>1, <4>4, <6>3 DEF touchesStructure, LiveFolders
            <6>5. ~photoRow'[p].live
              BY <1>13, <4>1, <6>4, SyncSets DEF BatchLeaves
            <6> QED BY <5>2, <6>5 DEF Mended
          <5> QED BY <5>3, <5>4
        <4> QED BY <4>3, <4>4
      <3>4. CASE ~photoRow[p].live /\ HiddenTill(p, v.from)
        <4>1. ~photoRow'[p].live
          BY <1>13, <3>4 DEF BatchLeaves
        <4>2. HiddenTill(p, v.to)
          <5>1. SUFFICES ASSUME OnDrive(p)
                         PROVE  folderRow[f].known /\ ~folderRow[f].live /\ Since(v.to, f)
            BY <1>8 DEF HiddenTill
          <5>2. folderRow[f].known /\ ~folderRow[f].live /\ Since(v.from, f) /\ f \in drive.live
            BY <1>8, <3>4, <5>1 DEF HiddenTill, OnDrive
          <5>3. ~touchesStructure(v)
            BY <1>5, <5>2
          <5>4. ~Within(v.from, v.to, f)
            <6>1. SUFFICES ASSUME ReadFolder(v, f) PROVE FALSE
              BY DEF Read
            <6> QED BY <5>2, <5>3, <6>1 DEF ReadFolder, touchesStructure
          <5> QED BY <1>7, <5>2, <5>4
        <4> QED BY <1>9, <4>1, <4>2 DEF Mended
      <3> QED BY <3>2, <3>3, <3>4 DEF Mended
    <2> QED BY <2>2, <2>3
  <1> QED BY <1>10, <1>12, <1>13

LEMMA FeedStepsMend ==
    ASSUME SyncInv, NEW t \in Tickers,
           \/ \E n \in 1 .. MaxChanges : ReadChanges(t, n)
           \/ NoMoreChanges(t) \/ ApplyChanges(t) \/ ChangesTokenExpired(t)
    PROVE  ReplayMends' /\ ReadsMend' /\ ListingMends'
  <1> USE NoWorkerTyped
  <1>0. /\ SyncTypeOK /\ worker[t] \in Worker /\ UNCHANGED << drive, feed >>
        /\ \A s \in Tickers \ {t} : worker[s].pc \in {"idle", "lock"}
        /\ FeedAgrees(worker[t]) /\ StateAgrees /\ state \in State
    <2>1. worker[t].pc \notin {"idle", "lock"} /\ UNCHANGED << drive, feed >>
      BY DEF ReadChanges, NoMoreChanges, ApplyChanges, ChangesTokenExpired, driveVars
    <2> QED BY <2>1, OthersWait DEF SyncInv, SyncAgrees, SyncTypeOK, WorkersAgree
  <1>1. ASSUME NEW w, WorkerGoes(t, w)
        PROVE  \A s \in Tickers : worker'[s] = IF s = t THEN w ELSE worker[s]
    BY <1>0, <1>1, WorkerAfter
  <1>2. ASSUME NEW n \in 1 .. MaxChanges, ReadChanges(t, n)
        PROVE  ReplayMends' /\ ReadsMend' /\ ListingMends'
    <2> DEFINE ids == {feed[i] : i \in worker[t].from + 1 .. n}
               there == {p \in ids \cap Photos : OnDrive(p)}
    <2>1. PICK w : /\ WorkerGoes(t, w)
                   /\ w = [worker[t] EXCEPT !.pc = "apply", !.to = n,
                               !.changed = {<< p, drive.in[p] >> : p \in there},
                               !.gone = ids \ (there \cup LiveFolders),
                               !.folders = ids \cap LiveFolders # {}, !.last = n = Len(feed)]
      BY <1>2 DEF ReadChanges
    <2>2. /\ w.pc = "apply" /\ w.from = worker[t].from /\ w.to = n
          /\ w.changed = {<< p, drive.in[p] >> : p \in there}
          /\ w.gone = ids \ (there \cup LiveFolders) /\ w.folders = (ids \cap LiveFolders # {})
      <3> HIDE DEF ids, there
      <3> QED BY <1>0, <2>1 DEF Worker
    <2>3. UNCHANGED << state, folderRow, photoRow, missed >>
      BY <1>2 DEF ReadChanges, indexVars
    <2>4. \A x : x \in ids <=> Within(w.from, w.to, x)
      BY <2>2 DEF Within
    <2>5. Read(w)
      <3> HIDE DEF ids
      <3>1. ASSUME NEW p \in Photos, NEW f \in Folders, << p, f >> \in w.changed
            PROVE  p \in there /\ f = drive.in[p]
        BY <2>2, <3>1
      <3>2. ASSUME NEW f \in Folders, f \in ids PROVE ReadFolder(w, f)
        BY <2>2, <3>2, SyncSets DEF ReadFolder, LiveFolders
      <3>3. ASSUME NEW p \in Photos, p \in ids PROVE ReadPhoto(w, p)
        <4>1. CASE OnDrive(p)
          BY <2>2, <3>3, <4>1 DEF ReadPhoto, OnDriveTill, OnDrive
        <4>2. CASE ~OnDrive(p)
          BY <2>2, <3>3, <4>2, SyncSets DEF ReadPhoto, HiddenTill, LiveFolders
        <4> QED BY <4>1, <4>2
      <3> QED BY <2>2, <2>4, <3>1, <3>2, <3>3 DEF Read
    <2> HIDE DEF ids, there
    <2>6. Read(w)'
      BY <1>0, <2>3, <2>5
         DEF Read, ReadFolder, ReadPhoto, Within, Since, OnDriveTill, HiddenTill, OnDrive
    <2>7. ReadsMend'
      <3>1. SUFFICES ASSUME NEW s \in Tickers, worker'[s].pc = "apply" PROVE Read(worker[s])'
        BY DEF ReadsMend
      <3>2. worker'[s] = w
        BY <1>0, <1>1, <2>1, <3>1
      <3> QED BY <2>6, <3>2
    <2>8. PICK v : v = worker[t] /\ v.pc = "changes"
      BY <1>2 DEF ReadChanges
    <2>9. \A k : \A p \in Photos : Mended(p, k)' <=> Mended(p, k)
      BY <1>0, <2>3 DEF Mended, InPlace, OnDriveTill, HiddenTill, OnDrive, Since
    <2>10. ReplayMends'
      <3>1. PICK k : k = state.changes /\ k = state'.changes
        BY <2>3
      <3>2. ASSUME NEW p \in Photos, Mended(p, state.changes) PROVE Mended(p, state.changes)'
        <4>1. Mended(p, k)'
          BY <2>9, <3>1, <3>2
        <4> QED BY <3>1, <4>1
      <3> QED BY <2>3, <3>2 DEF SyncInv, ReplayMends, Unnoticed
    <2>11. ListingMends'
      <3>1. \A p \in Photos : Listed(p)' => Listed(p)
        <4>1. \A s \in Tickers : worker'[s].pc = "sweep" => worker[s].pc = "sweep"
          <5>1. \A s \in Tickers : worker'[s] = IF s = t THEN w ELSE worker[s]
            BY <1>1, <2>1
          <5>2. w.pc # "sweep"
            BY <2>2
          <5> QED BY <5>1, <5>2
        <4> QED BY <2>3, <4>1 DEF Listed
      <3>2. \A p \in Photos : FullMends(p) => FullMends(p)'
        BY <1>0, <2>3, <3>1 DEF FullMends, InPlace, OnDriveTill, OnDrive, Since
      <3> QED BY <1>0, <2>3, <3>2 DEF SyncInv, ListingMends, LiveFolders
    <2> QED BY <2>7, <2>10, <2>11
  <1>3. CASE NoMoreChanges(t)
    <2>1. WorkerGoes(t, NoWorker) /\ state' = state /\ UNCHANGED << folderRow, photoRow, missed >>
      BY <1>0, <1>3 DEF NoMoreChanges, FeedAgrees, State
    <2> QED BY <1>0, <1>1, <2>1, QuietMends
  <1>4. CASE ApplyChanges(t)
    <2>1. PICK v : v = worker[t] /\ v.pc = "apply" /\ v.from = state.changes
      BY <1>0, <1>4 DEF ApplyChanges, FeedAgrees
    <2>2. /\ state'.run = state.run /\ state'.changes = v.to
          /\ (state'.lastFull # "never" => state.lastFull # "never")
      <3>1. PICK full : state' = [state EXCEPT !.changes = worker[t].to,
                                      !.lastFull = IF full THEN "never" ELSE @]
        BY <1>4 DEF ApplyChanges
      <3> QED BY <1>0, <2>1, <3>1 DEF State
    <2>3. missed' = {} => missed = {} /\ state.run = NoRun
      <3>1. missed' = {} => missed = {} /\ {x \in {"overlap"} : state.run # NoRun} = {}
        BY <1>4 DEF ApplyChanges
      <3> QED BY <3>1
    <2>4. ListingMends'
      BY <2>2, <2>3 DEF ListingMends
    <2>5. ReadsMend'
      <3>1. PICK w, run : /\ WorkerGoes(t, w)
                          /\ w = IF worker[t].last THEN NoWorker
                                 ELSE [NoWorker EXCEPT !.pc = "changes", !.mode = "incremental",
                                                       !.run = run, !.from = worker[t].to]
        BY <1>4 DEF ApplyChanges
      <3>2. w.pc # "apply"
        BY <3>1 DEF NoWorker
      <3> QED BY <1>0, <1>1, <3>1, <3>2 DEF ReadsMend
    <2>6. ReplayMends'
      <3>1. SUFFICES ASSUME missed' = {}, state'.lastFull # "never", NEW p \in Photos
                     PROVE  Mended(p, state.changes)'
        BY DEF ReplayMends, Unnoticed
      <3>2. Unnoticed /\ Read(v) /\ state.lastFull # "never"
        BY <2>1, <2>2, <2>3, <3>1 DEF SyncInv, ReadsMend, Unnoticed
      <3>3. state.changes # NoToken
        BY <1>0, <2>1, TokensAreNat, SyncSets DEF FeedAgrees, SyncTypeOK, NoToken
      <3>4. Mended(p, v.from)
        BY <2>1, <3>2, <3>3 DEF SyncInv, ReplayMends
      <3>5. Mended(p, v.to)'
        BY <1>4, <2>1, <3>1, <3>2, <3>4, BatchMends
      <3>6. PICK k : k = v.to /\ k = state'.changes
        BY <2>2
      <3> QED BY <3>5, <3>6
    <2> QED BY <2>4, <2>5, <2>6
  <1>5. CASE ChangesTokenExpired(t)
    <2>1. /\ WorkerGoes(t, NoWorker) /\ UNCHANGED << folderRow, photoRow, missed >>
          /\ state'.run = state.run /\ state'.phase = state.phase /\ state'.page = state.page
          /\ state'.pending = state.pending /\ state'.changes = NoToken
          /\ state'.lastFull = state.lastFull
      BY <1>0, <1>5 DEF ChangesTokenExpired, State
    <2> QED BY <1>0, <1>1, <2>1, QuietMends
  <1> QED BY <1>2, <1>3, <1>4, <1>5

LEMMA SyncSteps == SyncInv /\ [SyncNext]_syncVars => SyncInv'
  <1> SUFFICES ASSUME SyncInv, [SyncNext]_syncVars PROVE SyncInv'
    OBVIOUS
  <1>1. SyncAgrees'
    BY SyncStepsAgreed DEF SyncInv
  <1>2. CASE UNCHANGED syncVars
    <2>1. ReplayMends' /\ ReadsMend' /\ ListingMends'
      BY <1>2, QuietMends DEF syncVars, driveVars, indexVars
    <2> QED BY <1>1, <2>1 DEF SyncInv
  <1>3. CASE ReconcileIsDue
    <2>1. /\ state'.run = state.run /\ state'.phase = state.phase /\ state'.page = state.page
          /\ state'.pending = state.pending /\ state'.changes = state.changes
          /\ state.lastFull = "recent"
          /\ UNCHANGED << drive, feed, folderRow, photoRow, worker, missed >>
      BY <1>3 DEF ReconcileIsDue, SyncInv, SyncAgrees, SyncTypeOK, State, driveVars
    <2>2. ReplayMends' /\ ReadsMend' /\ ListingMends'
      BY <2>1, QuietMends
    <2> QED BY <1>1, <2>2 DEF SyncInv
  <1>4. CASE SyncNext
    <2>1. (ReplayMends' /\ ReadsMend' /\ ListingMends') \/ ReconcileIsDue
      BY <1>4, DriveMends, LockStepsMend, FullStepsMend, FeedStepsMend DEF SyncNext, SyncStep
    <2> QED BY <1>1, <1>3, <2>1 DEF SyncInv
  <1> QED BY <1>2, <1>4

LEMMA CaughtUpIsMirrored == SyncInv => IndexCatchesUp
  <1> SUFFICES ASSUME SyncInv, CaughtUp, missed = {}, NEW p \in Photos PROVE Mirrored(p)
    BY DEF IndexCatchesUp
  <1>1. SyncTypeOK /\ photoRow[p] \in PhotoRow /\ Len(feed) \in Nat /\ Len(feed) <= MaxChanges
    BY DEF SyncInv, SyncAgrees, SyncTypeOK
  <1>2. Mended(p, Len(feed))
    <2>1. state.changes = Len(feed) /\ state.changes # NoToken
      BY <1>1, SyncSets DEF CaughtUp
    <2> QED BY <2>1 DEF SyncInv, ReplayMends, Unnoticed, CaughtUp
  <1>3. \A x : ~Since(Len(feed), x)
    BY <1>1 DEF Since
  <1> QED BY <1>1, <1>2, <1>3 DEF Mended, InPlace, OnDriveTill, HiddenTill, OnDrive, Mirrored, PhotoRow

\* The type invariant of the mirror.
THEOREM SyncStaysTyped == SyncSpec => []SyncTypeOK
  <1>1. SyncInit => SyncTypeOK
    BY SyncStartsTyped
  <1>2. SyncTypeOK /\ [SyncNext]_syncVars => SyncTypeOK'
    BY SyncStepsTyped
  <1> QED BY <1>1, <1>2, PTL DEF SyncSpec

\* An index that has caught up shows what the Drive holds, for any files, folders and
\* tickers (IndexCatchesUp; sync.go:165).
THEOREM IndexAlwaysCatchesUp == SyncSpec => []IndexCatchesUp
  <1>1. SyncInit => SyncInv
    BY SyncStarts
  <1>2. SyncInv /\ [SyncNext]_syncVars => SyncInv'
    BY SyncSteps
  <1>3. SyncInv => IndexCatchesUp
    BY CaughtUpIsMirrored
  <1> QED BY <1>1, <1>2, <1>3, PTL DEF SyncSpec
====
