---------------------------- MODULE MCCommunity ----------------------------
(***************************************************************************)
(* The parts people and the administration act on, on small instances.     *)
(* A behaviour runs one of them, chosen at the start, and the state spaces *)
(* add up.  What two of them share, the rows of newf_roles, each of the    *)
(* two writes as both do: the other's writers are actions of it.           *)
(***************************************************************************)
EXTENDS Reminders, PhotoSync, PhotoGallery, Events, Clubs, Accounts, Devices, BusDepartures,
        Catalogue, TLC

VARIABLE area   \* the part that runs

Areas == {"reminders", "sync", "gallery", "events", "clubs", "accounts", "devices", "buses",
          "catalogue"}

\* Initial states that do not matter elsewhere are only told apart where they do.
CommunityInit ==
    /\ area \in Areas
    /\ RemindersInit /\ SyncInit /\ GalleryInit /\ EventsInit /\ ClubsInit /\ AccountsInit
    /\ DevicesInit /\ BusInit /\ CatalogueInit
    /\ area # "gallery" => \A p \in PhotoIds : index[p].album = 0
    /\ area # "buses" => feeds[1].says = CHOOSE s \in Announcements : TRUE

Only(a) ==
    /\ area = a /\ UNCHANGED area
    /\ a # "reminders" => UNCHANGED reminderVars
    /\ a # "sync" => UNCHANGED syncVars
    /\ a # "gallery" => UNCHANGED galleryVars
    /\ a # "events" => UNCHANGED eventVars
    /\ a # "clubs" => UNCHANGED clubVars
    /\ a # "accounts" => UNCHANGED accountVars
    /\ a # "devices" => UNCHANGED deviceVars
    /\ a # "buses" => UNCHANGED busVars
    /\ a # "catalogue" => UNCHANGED catalogueVars

CommunityNext ==
    \/ Only("reminders") /\ RemindersNext
    \/ Only("sync") /\ SyncNext
    \/ Only("gallery") /\ GalleryNext
    \/ Only("events") /\ EventsNext
    \/ Only("clubs") /\ ClubsNext
    \/ Only("accounts") /\ AccountsNext
    \/ Only("devices") /\ DevicesNext
    \/ Only("buses") /\ BusNext
    \/ Only("catalogue") /\ CatalogueNext

communityVars == << area, reminderVars, syncVars, galleryVars, eventVars, clubVars, accountVars,
                    deviceVars, busVars, catalogueVars >>

CommunitySpec == CommunityInit /\ [][CommunityNext]_communityVars

\* Every variable keeps its type; those of the parts that do not run keep their value.
TypesOK ==
    CASE area = "reminders" -> RemindersTypeOK
      [] area = "sync" -> SyncTypeOK
      [] area = "gallery" -> GalleryTypeOK
      [] area = "events" -> EventsTypeOK
      [] area = "clubs" -> ClubsTypeOK
      [] area = "accounts" -> AccountsTypeOK
      [] area = "devices" -> DevicesTypeOK
      [] area = "buses" -> BusTypeOK
      [] area = "catalogue" -> CatalogueTypeOK

-----------------------------------------------------------------------------
(* Clubs: one role, two spellings of the name that gives it. *)

TwoSpellings == { << "a", "x" >>, << "a", "y" >> }

-----------------------------------------------------------------------------
(* Buses: line C6 towards direction 1, stop q.  Trip a runs every day but   *)
(* day 2, trip b leaves on day 0 after midnight, trip c goes the other way. *)

Trips ==
    { [trip |-> "a", route |-> "C6", direction |-> 1, service |-> "week"],
      [trip |-> "b", route |-> "C6", direction |-> 1, service |-> "night"],
      [trip |-> "c", route |-> "C6", direction |-> 0, service |-> "week"] }
Stops ==
    { [trip |-> "a", stop |-> "p", at |-> 2], [trip |-> "a", stop |-> "q", at |-> 3],
      [trip |-> "b", stop |-> "q", at |-> 6], [trip |-> "c", stop |-> "q", at |-> 2] }
Weeks == { [service |-> "week", weekdays |-> 0 .. 6, start |-> 0, end |-> 3] }
Holidays == { [service |-> "week", day |-> 2, type |-> 2],
              [service |-> "night", day |-> 0, type |-> 1] }
TheLine == [route |-> "C6", direction |-> 1, stops |-> {"q"}]

a0 == [trip |-> "a", day |-> 0, time |-> 3]
a1 == [trip |-> "a", day |-> 1, time |-> 7]
a3 == [trip |-> "a", day |-> 3, time |-> 15]
b0 == [trip |-> "b", day |-> 0, time |-> 6]
TheRuns == {a0, a1, a3, b0}

At(stop, rel, at, delay) == [stop |-> stop, rel |-> rel, at |-> at, delay |-> delay]
Says(updates, delay, dated, leaves, late) ==
    [rel |-> "scheduled", updates |-> updates, delay |-> delay, dated |-> dated,
     named |-> TRUE, means |-> [leaves |-> leaves, late |-> late]]

\* The ways a feed puts it.
Cancelled == [Says(<< >>, None, TRUE, FALSE, None) EXCEPT !.rel = "canceled"]
Skipped == Says(<< At("p", "scheduled", None, 1), At("q", "skipped", None, None) >>,
                None, TRUE, FALSE, None)
Timed == Says(<< At("q", "scheduled", 1, 1) >>, None, FALSE, TRUE, 1)
Delayed == Says(<< At("p", "scheduled", None, 2), At("q", "scheduled", None, None) >>,
                None, TRUE, TRUE, 2)
Inherited == Says(<< At("p", "scheduled", 1, 1), At("o", "skipped", None, None) >>,
                  None, TRUE, TRUE, 1)
Whole == Says(<< >>, 1, TRUE, TRUE, 1)
Unknown == Says(<< At("p", "scheduled", None, 1), At("o", "no_data", None, None),
                   At("q", "scheduled", None, None) >>, None, TRUE, TRUE, None)

\* Ahead of the plan; by a name the timetable lacks, where only a time can be
\* matched: such a cancellation tells nothing.
EarlyTimed == Says(<< At("q", "scheduled", -1, -1) >>, None, FALSE, TRUE, -1)
EarlyDelayed == Says(<< At("p", "scheduled", None, -1) >>, None, TRUE, TRUE, -1)
Renamed == [Timed EXCEPT !.dated = TRUE, !.named = FALSE]
RenamedEarly == [EarlyTimed EXCEPT !.dated = TRUE, !.named = FALSE]
RenamedCancelled == [Cancelled EXCEPT !.named = FALSE, !.means = Unknown.means]

Announced ==
    { (a0 :> Delayed) @@ (b0 :> Timed) @@ (a1 :> Cancelled),
      (a0 :> Cancelled) @@ (b0 :> Unknown) @@ (a1 :> EarlyDelayed),
      (a0 :> Timed) @@ (b0 :> Skipped) @@ (a1 :> RenamedEarly),
      (a0 :> Inherited) @@ (b0 :> Renamed) @@ (a1 :> Whole),
      (b0 :> EarlyTimed) @@ (a1 :> Renamed),
      (b0 :> RenamedCancelled) @@ (a1 :> Skipped) }

\* The last of them comes without a timestamp.
NoStamp == { (b0 :> RenamedCancelled) @@ (a1 :> Skipped) }
=============================================================================
