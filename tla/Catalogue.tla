----------------------------- MODULE Catalogue -----------------------------
(***************************************************************************)
(* The catalogue of what can be reserved: categories, items and the tree   *)
(* the administration shows (handlers/reservation, handlers/admin).  Every *)
(* call is a few statements without a transaction: what one of them checks *)
(* another call may undo before the next one.                              *)
(***************************************************************************)
EXTENDS Naturals, FiniteSets

CONSTANTS
    Houses,       \* clubs
    Editors,      \* calls that may be under way at the same time
    MaxRows       \* bound: categories and items created

ASSUME CatalogueAssumption == Houses # {} /\ MaxRows \in Nat

VARIABLES
    houses,       \* live rows of clubs
    categories,   \* rows of reservation_category
    items,        \* rows of reservation_element, with their open reservations
    edit,         \* calls between two of their statements
    tree,         \* the tree being built: what its statements have read
    rowsMade

catalogueVars == << houses, categories, items, edit, tree, rowsMade >>

-----------------------------------------------------------------------------
(* State *)

TopLevel == 0
Ids == 1 .. MaxRows

Category == [id : Ids, parent : 0 .. MaxRows, house : Houses]

\* open: the kind of the open reservations of an item, as they were made.
Kinds == {"none", "loan", "slot"}
Item == [id : Ids, parent : 0 .. MaxRows, house : Houses, kind : Kinds \ {"none"},
         open : Kinds]

Edit == [op : {"none", "category", "item", "dropcategory", "dropitem", "switch"},
         row : 0 .. MaxRows, house : Houses]
NoEdit == [op |-> "none", row |-> TopLevel, house |-> CHOOSE h \in Houses : TRUE]

\* short: the items without a category could not be read.
TreeEnds == {"shown", "short"}
NoTree == [step |-> "none", categories |-> {}, placed |-> {}, loose |-> {}, since |-> {}]

IdsOf(rows) == {r.id : r \in rows}
Present == IdsOf(categories) \cup IdsOf(items)

CatalogueTypeOK ==
    /\ houses \subseteq Houses
    /\ categories \subseteq Category
    /\ items \subseteq Item
    /\ edit \in [Editors -> Edit]
    /\ tree \in [step : {"none", "categories", "items"} \cup TreeEnds,
                 categories : SUBSET Category, placed : SUBSET Item, loose : SUBSET Item,
                 since : SUBSET Ids]
    /\ rowsMade \in 0 .. MaxRows

CatalogueInit ==
    /\ houses = Houses
    /\ categories = {} /\ items = {}
    /\ edit = [e \in Editors |-> NoEdit]
    /\ tree = NoTree
    /\ rowsMade = 0

EditIdle(e) == edit[e].op = "none"
EditStep(e, op, row, house) ==
    edit' = [edit EXCEPT ![e] = [op |-> op, row |-> row, house |-> house]]
EditEnds(e) == edit' = [edit EXCEPT ![e] = NoEdit]

-----------------------------------------------------------------------------
(* handlers/reservation *)

CheckClubExists(h) == h \in houses
CheckCategoryExists(k) == k \in IdsOf(categories)

\* The request names a club, a category, or both, which are not compared.  A club not
\* named is the one of the category.
Creates(e, op) ==
    /\ EditIdle(e)
    /\ \/ \E h \in Houses : CheckClubExists(h) /\ EditStep(e, op, TopLevel, h)
       \/ \E k \in categories : EditStep(e, op, k.id, k.house)
       \/ \E k \in categories, h \in Houses :
             CheckClubExists(h) /\ CheckCategoryExists(k.id) /\ EditStep(e, op, k.id, h)
    /\ UNCHANGED << houses, categories, items, tree, rowsMade >>

CreateReservationCategory(e) == Creates(e, "category")
CreateReservationItem(e) == Creates(e, "item")

\* The insert: clubs are referenced by a foreign key, id_parent_category is not one.
CreateCategory(e) ==
    /\ edit[e].op = "category" /\ rowsMade < MaxRows
    /\ IF edit[e].house \in houses
       THEN /\ categories' = categories \cup
                  {[id |-> rowsMade + 1, parent |-> edit[e].row, house |-> edit[e].house]}
            /\ rowsMade' = rowsMade + 1
       ELSE UNCHANGED << categories, rowsMade >>
    /\ EditEnds(e)
    /\ UNCHANGED << houses, items, tree >>

\* The category of an item is referenced by a foreign key.
CreateItem(e) ==
    /\ edit[e].op = "item" /\ rowsMade < MaxRows
    /\ IF edit[e].house \in houses /\ edit[e].row \in IdsOf(categories) \cup {TopLevel}
       THEN /\ \E k \in Kinds \ {"none"} :
                  items' = items \cup {[id |-> rowsMade + 1, parent |-> edit[e].row,
                                        house |-> edit[e].house, kind |-> k, open |-> "none"]}
            /\ rowsMade' = rowsMade + 1
       ELSE UNCHANGED << items, rowsMade >>
    /\ EditEnds(e)
    /\ UNCHANGED << houses, categories, tree >>

\* Somebody books the item, or the last open reservation ends.
Book(i) ==
    /\ i \in items
    /\ items' = (items \ {i}) \cup {[i EXCEPT !.open = IF @ = "none" THEN i.kind ELSE "none"]}
    /\ UNCHANGED << houses, categories, edit, tree, rowsMade >>

-----------------------------------------------------------------------------
(* handlers/admin *)

\* A category without subcategories and items is deleted, unless it got an item meanwhile;
\* a subcategory it got meanwhile loses its parent.
DeleteReservationCategory(e) ==
    \/ /\ EditIdle(e)
       /\ \E k \in categories : /\ \A r \in categories \cup items : r.parent # k.id
                                /\ EditStep(e, "dropcategory", k.id, k.house)
       /\ UNCHANGED << houses, categories, items, tree, rowsMade >>
    \/ /\ edit[e].op = "dropcategory"
       /\ categories' = {c \in categories :
                            \/ c.id # edit[e].row
                            \/ \E i \in items : i.parent = edit[e].row}
       /\ EditEnds(e)
       /\ UNCHANGED << houses, items, tree, rowsMade >>

\* An item without open reservations is deleted, with the reservation it got meanwhile.
DeleteReservationItem(e) ==
    \/ /\ EditIdle(e)
       /\ \E i \in items : i.open = "none" /\ EditStep(e, "dropitem", i.id, i.house)
       /\ UNCHANGED << houses, categories, items, tree, rowsMade >>
    \/ /\ edit[e].op = "dropitem"
       /\ items' = {i \in items : i.id # edit[e].row}
       /\ EditEnds(e)
       /\ UNCHANGED << houses, categories, tree, rowsMade >>

Other(kind) == IF kind = "slot" THEN "loan" ELSE "slot"

\* An item changes between loan and slots when no open reservation forbids it, whatever
\* is booked before the update.
UpdateReservationItem(e) ==
    \/ /\ EditIdle(e)
       /\ \E i \in items : i.open = "none" /\ EditStep(e, "switch", i.id, i.house)
       /\ UNCHANGED << houses, categories, items, tree, rowsMade >>
    \/ /\ edit[e].op = "switch"
       /\ items' = {IF i.id = edit[e].row THEN [i EXCEPT !.kind = Other(@)] ELSE i : i \in items}
       /\ EditEnds(e)
       /\ UNCHANGED << houses, categories, tree, rowsMade >>

\* A club nothing of the catalogue refers to is deleted.
DeleteHouse(h) ==
    /\ h \in houses
    /\ \A r \in categories \cup items : r.house # h
    /\ houses' = houses \ {h}
    /\ UNCHANGED << categories, items, edit, tree, rowsMade >>

\* The tree is read in three statements: the categories, ...
TreeCategories ==
    /\ tree.step \in {"none"} \cup TreeEnds
    /\ tree' = [NoTree EXCEPT !.step = "categories", !.categories = categories,
                              !.since = Present]
    /\ UNCHANGED << houses, categories, items, edit, rowsMade >>

\* ... the items, each put into its category, ...
TreeItems ==
    /\ tree.step = "categories"
    /\ tree' = [tree EXCEPT !.step = "items",
                            !.placed = {i \in items : i.parent \in IdsOf(tree.categories)}]
    /\ UNCHANGED << houses, categories, items, edit, rowsMade >>

\* ... and the items without a category, shown by club.
TreeLoose ==
    /\ tree.step = "items"
    /\ tree' = [tree EXCEPT !.step = "shown", !.loose = {i \in items : i.parent = TopLevel}]
    /\ UNCHANGED << houses, categories, items, edit, rowsMade >>

\* That statement may fail, and the tree is answered without what it would have read.
LooseFails ==
    /\ tree.step = "items"
    /\ tree' = [tree EXCEPT !.step = "short"]
    /\ UNCHANGED << houses, categories, items, edit, rowsMade >>

\* Faulty variant: a category whose parent is gone has no place.
RootIfFirst(k, known) == k.parent = TopLevel

\* A category whose parent is gone is shown as a root.
IsRoot(k, known) == k.parent = TopLevel \/ k.parent \notin IdsOf(known)

\* The categories shown: the roots, and with a category its children.
categoryToMap(known) ==
    {k \in known : \A S \in SUBSET known :
        (\A c \in known : IsRoot(c, known) \/ c.parent \in IdsOf(S) => c \in S) => k \in S}

CatalogueNext ==
    \/ \E e \in Editors :
          \/ CreateReservationCategory(e) \/ CreateReservationItem(e)
          \/ CreateCategory(e) \/ CreateItem(e)
          \/ DeleteReservationCategory(e) \/ DeleteReservationItem(e)
          \/ UpdateReservationItem(e)
    \/ \E i \in items : Book(i)
    \/ \E h \in houses : DeleteHouse(h)
    \/ TreeCategories \/ TreeItems \/ TreeLoose \/ LooseFails

CatalogueSpec == CatalogueInit /\ [][CatalogueNext]_catalogueVars

-----------------------------------------------------------------------------
(* Properties *)

\* The tree of the administration shows every category and every item that was there when
\* it began and still is when it ends, each in one place, though it is read in three
\* statements and a category may have lost its parent (GetReservationTree); it lacks the
\* items without a category, and no other, when the statement that reads them failed.
TreeShowsEverything ==
    tree.step \in TreeEnds =>
        LET shown == categoryToMap(tree.categories)
            inside == {i \in tree.placed : i.parent \in IdsOf(shown)}
            unread == {i \in items : tree.step = "short" /\ i.parent = TopLevel}
        IN  /\ tree.since \cap Present \subseteq
                  IdsOf(shown) \cup IdsOf(inside) \cup IdsOf(tree.loose) \cup IdsOf(unread)
            /\ IdsOf(inside) \cap IdsOf(tree.loose) = {}
=============================================================================
