--------------------------- MODULE RestaurantMenu ---------------------------
(***************************************************************************)
(* The restaurant menu (handlers/restaurant): every ten minutes, and in    *)
(* every replica, a check reads the caterer's page, compares the names of  *)
(* its dishes with those of the latest stored day, rewrites today's meals  *)
(* when they differ and announces a menu that is new enough.  Checks may   *)
(* overlap.  A step is one statement, or the reading of the page.          *)
(***************************************************************************)
EXTENDS Naturals, FiniteSets

CONSTANTS
    Dishes,          \* normalised names
    Counters,        \* grill, buffet, ... for noon and evening
    Codes,           \* allergen and marker codes
    Checkers,        \* checks that may be under way together
    LastDay,         \* bound: days
    MaxMenuChanges,  \* bound: edits of the caterer's page
    MaxMenuTrouble   \* bound: failing statements and checks that stop

ASSUME MenuAssumption ==
    LastDay \in Nat \ {0} /\ MaxMenuChanges \in Nat /\ MaxMenuTrouble \in Nat

VARIABLES
    source,       \* what the caterer's page lists
    sourceCodes,  \* and the codes it gives there
    menuDay,      \* [no, hour]: the date in Paris and the part of the day
    meals,        \* rows of restaurant_meals by date_served
    codeRows,     \* rows of allergens
    links,        \* rows of restaurant_article_allergens
    recorded,     \* days with a row in restaurant_notifications
    menuPushes,   \* by day, announcements stored in the push queue
    checker,      \* checks under way
    lostLinks,    \* history: links a check gave up
    storedWith,   \* history: the codes the page had given when a check stored the meal
    menuChanges, menuTrouble

pageVars == << source, sourceCodes >>
allergenHistory == << lostLinks, storedWith >>
menuVars == << pageVars, menuDay, meals, codeRows, links, recorded, menuPushes, checker,
               allergenHistory, menuChanges, menuTrouble >>

-----------------------------------------------------------------------------
(* State *)

MenuDays == 1 .. LastDay
MenuItems == Counters \X Dishes
Names(items) == {i[2] : i \in items}

\* left: fetched items not stored yet; page: the codes fetched with them; at, codes: the
\* one being stored and its codes not seen to yet; code: the one in hand; far: less than
\* 80% of the names are those of the latest stored day.
Checker == [pc : {"idle", "latest", "compare", "items", "codes", "create", "link", "meal",
                  "obsolete", "decide", "announce", "record"},
            fetched : SUBSET MenuItems, left : SUBSET MenuItems, at : SUBSET MenuItems,
            page : SUBSET (MenuItems \X Codes),
            codes : SUBSET Codes, code : SUBSET Codes, done : SUBSET Dishes,
            latest : 0 .. LastDay, far : BOOLEAN]
NoChecker == [pc |-> "idle", fetched |-> {}, left |-> {}, at |-> {}, page |-> {}, codes |-> {},
              code |-> {}, done |-> {}, latest |-> 0, far |-> FALSE]

MenuTypeOK ==
    /\ source \subseteq MenuItems /\ sourceCodes \subseteq MenuItems \X Codes
    /\ menuDay \in [no : MenuDays, hour : {"early", "late"}]
    /\ meals \in [MenuDays -> SUBSET MenuItems]
    /\ codeRows \subseteq Codes
    /\ links \subseteq Dishes \X Codes /\ lostLinks \subseteq Dishes \X Codes
    /\ storedWith \subseteq MenuItems \X Codes
    /\ recorded \subseteq MenuDays
    /\ menuPushes \in [MenuDays -> 0 .. 2]
    /\ checker \in [Checkers -> Checker]
    /\ menuChanges \in 0 .. MaxMenuChanges
    /\ menuTrouble \in 0 .. MaxMenuTrouble

MenuInit ==
    /\ source \in {{i} : i \in MenuItems} /\ sourceCodes \in SUBSET (source \X Codes)
    /\ menuDay = [no |-> 1, hour |-> "early"]
    /\ meals = [d \in MenuDays |-> {}]
    /\ codeRows = {} /\ links = {} /\ recorded = {}
    /\ menuPushes = [d \in MenuDays |-> 0]
    /\ checker = [c \in Checkers |-> NoChecker]
    /\ lostLinks = {} /\ storedWith = {}
    /\ menuChanges = 0 /\ menuTrouble = 0

Today == menuDay.no
CheckerGoes(c, k) == checker' = [checker EXCEPT ![c] = k]
MenuTrouble == menuTrouble < MaxMenuTrouble /\ menuTrouble' = menuTrouble + 1

-----------------------------------------------------------------------------
(* The caterer and the calendar *)

\* The page lists other items, or gives other codes with them.  A page without items is
\* an error of FetchRawMenuItems and ends the check; one whose items are at no counter
\* that is known is not, and gives an empty menu.
EditPage ==
    /\ menuChanges < MaxMenuChanges
    /\ source' \in SUBSET MenuItems /\ sourceCodes' \in SUBSET (source' \X Codes)
    /\ pageVars' # pageVars
    /\ menuChanges' = menuChanges + 1
    /\ UNCHANGED << menuDay, meals, codeRows, links, recorded, menuPushes, checker,
                    allergenHistory, menuTrouble >>

\* Checks start from 8 to 19 h (isScheduledTimeAllowed) and are over before midnight.
DayGoesBy ==
    /\ \/ /\ menuDay.hour = "early"
          /\ menuDay' = [menuDay EXCEPT !.hour = "late"]
       \/ /\ menuDay.hour = "late" /\ menuDay.no < LastDay
          /\ \A c \in Checkers : checker[c].pc = "idle"
          /\ menuDay' = [no |-> menuDay.no + 1, hour |-> "early"]
    /\ UNCHANGED << pageVars, meals, codeRows, links, recorded, menuPushes, checker,
                    allergenHistory, menuChanges, menuTrouble >>

-----------------------------------------------------------------------------
(* CheckAndUpdateMenuCron *)

\* FetchRawMenuItems, BuildFetchedItems: what the page lists now.
FetchMenu(c) ==
    /\ checker[c].pc = "idle"
    /\ CheckerGoes(c, [NoChecker EXCEPT !.pc = "latest", !.fetched = source,
                                    !.page = sourceCodes])
    /\ UNCHANGED << pageVars, menuDay, meals, codeRows, links, recorded, menuPushes,
                    allergenHistory, menuChanges, menuTrouble >>

\* SELECT MAX(date_served); 0 is NULL.
LatestDay == IF \A d \in MenuDays : meals[d] = {} THEN 0
             ELSE CHOOSE d \in MenuDays : meals[d] # {} /\ \A e \in MenuDays : e > d => meals[e] = {}

FindLatest(c) ==
    /\ checker[c].pc = "latest"
    /\ CheckerGoes(c, [checker[c] EXCEPT !.pc = "compare", !.latest = LatestDay])
    /\ UNCHANGED << pageVars, menuDay, meals, codeRows, links, recorded, menuPushes,
                    allergenHistory, menuChanges, menuTrouble >>

\* CalculateSimilarity below 0.8: five times what is common, against the union.
IsFar(a, b) == 5 * Cardinality(a \cap b) < 4 * Cardinality(a \cup b)

\* SyncTodaysMenu: the same names as the latest day, whichever it is: nothing is stored,
\* other codes included.
CompareMenus(c) ==
    LET k == checker[c]
        new == Names(k.fetched)
        old == IF k.latest = 0 THEN {} ELSE Names(meals[k.latest])
    IN /\ k.pc = "compare"
       /\ CheckerGoes(c, IF new = old THEN NoChecker
                         ELSE [k EXCEPT !.pc = IF k.fetched = {} THEN "obsolete" ELSE "items",
                                        !.left = k.fetched, !.fetched = {},
                                        !.latest = 0, !.far = IsFar(new, old)])
       /\ UNCHANGED << pageVars, menuDay, meals, codeRows, links, recorded, menuPushes,
                       allergenHistory, menuChanges, menuTrouble >>

\* The codes that came with item i.
CodesOf(k, i) == {x \in Codes : << i, x >> \in k.page}

\* The meals S are inserted by a check that fetched the codes k.page.
InsertsMeals(k, S) ==
    /\ meals' = [meals EXCEPT ![Today] = @ \cup S]
    /\ storedWith' = storedWith \cup {p \in k.page : p[1] \in S}

\* Faulty variant: the meal is inserted together with its article.
MealWithArticle(c, i) ==
    /\ checker[c].pc = "items" /\ i \in checker[c].left
    /\ InsertsMeals(checker[c], {i})
    /\ CheckerGoes(c, [checker[c] EXCEPT !.pc = "codes", !.left = @ \ {i}, !.at = {i},
                           !.codes = CodesOf(checker[c], i), !.done = @ \cup {i[2]}])
    /\ UNCHANGED << pageVars, menuDay, codeRows, links, recorded, menuPushes, lostLinks,
                    menuChanges, menuTrouble >>

\* The article is stored; the page gives the order of the items.
UpsertArticle(c, i) ==
    /\ checker[c].pc = "items" /\ i \in checker[c].left
    /\ CheckerGoes(c, [checker[c] EXCEPT !.pc = "codes", !.left = @ \ {i}, !.at = {i},
                           !.codes = CodesOf(checker[c], i), !.done = @ \cup {i[2]}])
    /\ UNCHANGED << pageVars, menuDay, meals, codeRows, links, recorded, menuPushes,
                    allergenHistory, menuChanges, menuTrouble >>

\* Next code of the article, or its meal when there is none left.
LookUpCode(c) ==
    LET k == checker[c] IN
    /\ k.pc = "codes"
    /\ \/ \E x \in k.codes :
            CheckerGoes(c, [k EXCEPT !.pc = IF x \in codeRows THEN "link" ELSE "create",
                                     !.codes = @ \ {x}, !.code = {x}])
       \/ k.codes = {} /\ CheckerGoes(c, [k EXCEPT !.pc = "meal"])
    /\ UNCHANGED << pageVars, menuDay, meals, codeRows, links, recorded, menuPushes,
                    allergenHistory, menuChanges, menuTrouble >>

LinksAt(k) == Names(k.at) \X k.code

\* The code is created; another check that created it first makes the insert fail,
\* and the article goes without it.
CreateCode(c) ==
    LET k == checker[c] IN
    /\ k.pc = "create"
    /\ \/ /\ k.code \cap codeRows = {}
          /\ codeRows' = codeRows \cup k.code
          /\ CheckerGoes(c, [k EXCEPT !.pc = "link"])
          /\ UNCHANGED lostLinks
       \/ /\ k.code \subseteq codeRows
          /\ lostLinks' = lostLinks \cup LinksAt(k)
          /\ CheckerGoes(c, [k EXCEPT !.pc = "codes", !.code = {}])
          /\ UNCHANGED codeRows
    /\ UNCHANGED << pageVars, menuDay, meals, links, recorded, menuPushes, storedWith,
                    menuChanges, menuTrouble >>

LinkCode(c) ==
    /\ checker[c].pc = "link"
    /\ links' = links \cup LinksAt(checker[c])
    /\ CheckerGoes(c, [checker[c] EXCEPT !.pc = "codes", !.code = {}])
    /\ UNCHANGED << pageVars, menuDay, meals, codeRows, recorded, menuPushes, allergenHistory,
                    menuChanges, menuTrouble >>

\* The statement of a code fails: a warning, and the next one.
CodeFails(c) ==
    /\ checker[c].pc \in {"create", "link"} /\ MenuTrouble
    /\ lostLinks' = lostLinks \cup LinksAt(checker[c])
    /\ CheckerGoes(c, [checker[c] EXCEPT !.pc = "codes", !.code = {}])
    /\ UNCHANGED << pageVars, menuDay, meals, codeRows, links, recorded, menuPushes, storedWith,
                    menuChanges >>

AfterItem(k) ==
    [k EXCEPT !.pc = IF k.left = {} THEN "obsolete" ELSE "items", !.at = {},
              !.page = IF k.left = {} THEN {} ELSE @]

InsertMeal(c) ==
    /\ checker[c].pc = "meal"
    /\ InsertsMeals(checker[c], checker[c].at)
    /\ CheckerGoes(c, AfterItem(checker[c]))
    /\ UNCHANGED << pageVars, menuDay, codeRows, links, recorded, menuPushes, lostLinks,
                    menuChanges, menuTrouble >>

\* An article that cannot be stored is skipped, and its dish counts as obsolete; a
\* meal that cannot be inserted is logged.
ItemFails(c) ==
    LET k == checker[c] IN
    /\ MenuTrouble
    /\ \/ k.pc = "items" /\ \E i \in k.left :
            CheckerGoes(c, AfterItem([k EXCEPT !.left = @ \ {i}]))
       \/ k.pc = "meal" /\ CheckerGoes(c, AfterItem(k))
    /\ UNCHANGED << pageVars, menuDay, meals, codeRows, links, recorded, menuPushes,
                    allergenHistory, menuChanges >>

-----------------------------------------------------------------------------
(* Obsolete meals and the notification *)

\* Faulty variant: what an earlier version of today's menu listed stays.
KeepObsolete(c) ==
    /\ checker[c].pc = "obsolete"
    /\ CheckerGoes(c, [checker[c] EXCEPT !.pc = "decide"])
    /\ UNCHANGED << pageVars, menuDay, meals, codeRows, links, recorded, menuPushes,
                    allergenHistory, menuChanges, menuTrouble >>

\* The DELETE of today's other dishes; it may fail, which is logged.
RemoveObsolete(c) ==
    /\ checker[c].pc = "obsolete"
    /\ \/ /\ meals' = [meals EXCEPT ![Today] = {i \in @ : i[2] \in checker[c].done}]
          /\ UNCHANGED menuTrouble
       \/ MenuTrouble /\ UNCHANGED meals
    /\ CheckerGoes(c, [checker[c] EXCEPT !.pc = "decide"])
    /\ UNCHANGED << pageVars, menuDay, codeRows, links, recorded, menuPushes, allergenHistory,
                    menuChanges >>

\* shouldSendMenuNotification: new enough, before 16 h, and not recorded today.
DecideNotification(c) ==
    LET k == checker[c] IN
    /\ k.pc = "decide"
    /\ CheckerGoes(c, IF /\ k.far /\ k.done # {} /\ menuDay.hour = "early"
                         /\ Today \notin recorded
                      THEN [NoChecker EXCEPT !.pc = "announce"] ELSE NoChecker)
    /\ UNCHANGED << pageVars, menuDay, meals, codeRows, links, recorded, menuPushes,
                    allergenHistory, menuChanges, menuTrouble >>

\* Faulty variant: the key of the push does not name the day.
QueueMenuAgain(d) == menuPushes' = [menuPushes EXCEPT ![d] = IF @ < 2 THEN @ + 1 ELSE @]

\* Announce: the key names the day, so that a second row is not stored.
QueueMenu(d) == menuPushes' = [menuPushes EXCEPT ![d] = IF @ = 0 THEN 1 ELSE @]

\* sendMenuUpdateNotification, first statement: stored, or refused, or stored and
\* reported as refused.
AnnounceMenu(c) ==
    /\ checker[c].pc = "announce"
    /\ \/ /\ QueueMenu(Today)
          /\ CheckerGoes(c, [checker[c] EXCEPT !.pc = "record"])
          /\ UNCHANGED menuTrouble
       \/ /\ MenuTrouble
          /\ QueueMenu(Today) \/ UNCHANGED menuPushes
          /\ CheckerGoes(c, NoChecker)
    /\ UNCHANGED << pageVars, menuDay, meals, codeRows, links, recorded, allergenHistory, menuChanges >>

\* Second statement: the day is recorded.
RecordNotification(c) ==
    /\ checker[c].pc = "record"
    /\ recorded' = recorded \cup {Today}
    /\ CheckerGoes(c, NoChecker)
    /\ UNCHANGED << pageVars, menuDay, meals, codeRows, links, menuPushes, allergenHistory,
                    menuChanges, menuTrouble >>

\* A query of the comparison fails, or the process dies anywhere.
CheckStops(c) ==
    /\ checker[c].pc # "idle" /\ MenuTrouble
    /\ CheckerGoes(c, NoChecker)
    /\ UNCHANGED << pageVars, menuDay, meals, codeRows, links, recorded, menuPushes, allergenHistory,
                    menuChanges >>

-----------------------------------------------------------------------------
(* Specification *)

CheckerStep(c) ==
    \/ FetchMenu(c) \/ FindLatest(c) \/ CompareMenus(c)
    \/ \E i \in MenuItems : UpsertArticle(c, i)
    \/ LookUpCode(c) \/ CreateCode(c) \/ LinkCode(c) \/ InsertMeal(c)
    \/ RemoveObsolete(c) \/ DecideNotification(c) \/ AnnounceMenu(c) \/ RecordNotification(c)

MenuNext ==
    \/ EditPage \/ DayGoesBy
    \/ \E c \in Checkers :
        \/ CheckerStep(c) \/ CodeFails(c) \/ ItemFails(c) \/ CheckStops(c)

MenuSpec == MenuInit /\ [][MenuNext]_menuVars

-----------------------------------------------------------------------------
(* What the application shows, and what must hold *)

\* GetTodaysMenuCategorized, and the codes GetDishDetails gives for a dish.
ShownToday == meals[Today]
ShownCodes(d) == {x \in codeRows : << d, x >> \in links}

\* A dish that is shown comes with every code the page gave it when a check stored it: a
\* meal is stored after its codes, and one is missing only where its statement failed or two
\* checks created it together (menu_repository.go:467).  Codes that the page gives later to
\* a menu of the same names are not stored at all, as only names are compared (:423).
AllergensShown ==
    \A i \in ShownToday : \A x \in Codes :
        << i, x >> \in storedWith => << i[2], x >> \in lostLinks \/ x \in ShownCodes(i[2])

\* Overlapping checks and lost answers make one announcement a day, and a day is
\* recorded only once it has its announcement (menu_repository.go:274).
MenuAnnouncedOnce ==
    \A d \in MenuDays : menuPushes[d] <= 1 /\ (d \in recorded => menuPushes[d] = 1)

\* The announcement of a day's menu, seen from outside.
MenuStanding(d) == IF d \in recorded THEN "sent" ELSE IF d > Today THEN "unknown" ELSE "waiting"
MenuBox == INSTANCE Outbox WITH
               Items <- MenuDays, told <- menuPushes,
               standing <- [d \in MenuDays |-> MenuStanding(d)]

\* The checks keep the promise of Outbox: the menu of a day is announced once, on that day or
\* later, and recorded only when it was (menu_repository.go:274).
MenuKeepsTheOutbox == MenuBox!OutboxSpec

\* Whatever overlapping checks wrote, in any order, the latest stored menu ends up with the
\* names the page lists, once the page stays as it is; and where it ends up with no dish at
\* a known counter, nothing is shown any more (menu_repository.go:423-601).
StoredMenuCatchesUp ==
    <>[](IF source = {} THEN ShownToday = {}
         ELSE LatestDay # 0 /\ Names(meals[LatestDay]) = Names(source))

=============================================================================
