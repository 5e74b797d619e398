----------------------------- MODULE MCServices -----------------------------
(***************************************************************************)
(* The services that work by themselves, on small instances: the mails of  *)
(* photo reports, the album notifier and the menu of the day.  They share  *)
(* no state, so a behaviour runs one of them, chosen at the start, and the *)
(* state spaces add up instead of multiplying.  For the same reason photo  *)
(* reports are run twice: racing submissions that are not mailed, and the  *)
(* mails of one report; and the menu twice: a day with failures, and days  *)
(* without.  The page comes to list other items, or to give other codes    *)
(* for the same ones.                                                      *)
(***************************************************************************)
EXTENDS PhotoReports, AlbumNotifier, RestaurantMenu

VARIABLE area   \* the service that runs

allVars == << area, reportVars, mailVars, albumVars, noticeVars, menuVars >>

\* One first menu, with all codes: the dishes are alike.
ServicesInit ==
    /\ area \in {"submissions", "mails", "albums", "menu", "days"}
    /\ ReportsInit /\ AlbumsInit /\ MenuInit
    /\ source = {CHOOSE i \in MenuItems : TRUE} /\ sourceCodes = source \X Codes

InReports(A) ==
    /\ area \in {"submissions", "mails"} /\ A
    /\ area = "submissions" => UNCHANGED mailVars
    /\ area = "mails" => Len(reports') <= 1
    /\ UNCHANGED << area, albumVars, noticeVars, menuVars >>
InAlbums(A) == area = "albums" /\ A /\ UNCHANGED << area, reportVars, mailVars, menuVars >>
InMenu(A) ==
    /\ area \in {"menu", "days"} /\ A
    /\ area = "menu" => menuDay'.no = 1
    /\ area = "days" => UNCHANGED menuTrouble
    /\ source' = source \/ sourceCodes' = source' \X Codes
    /\ UNCHANGED << area, reportVars, mailVars, albumVars, noticeVars >>

ServicesNext == InReports(ReportsNext) \/ InAlbums(AlbumsNext) \/ InMenu(MenuNext)

\* Goroutines and tickers go on running, and time passes.
ServicesFairness ==
    /\ \A p \in Senders : WF_allVars(InReports(SenderStep(p)))
    /\ \A k \in MailRows : WF_allVars(InReports(RetryDelayEnds(k) \/ LeaseEnds(k)))
    /\ \A n \in Notifiers : WF_allVars(InAlbums(NotifierStep(n)))
    /\ \A a \in Albums : WF_allVars(InAlbums(AlbumClock(a)))
    /\ \A c \in Checkers : WF_allVars(InMenu(CheckerStep(c)))

ServicesSpec == ServicesInit /\ [][ServicesNext]_allVars /\ ServicesFairness

\* Every variable of the three services keeps its type.
TypesOK == ReportsTypeOK /\ AlbumsTypeOK /\ MenuTypeOK

\* Where the menu is checked, what is stored ends up being what the caterer publishes
\* (RestaurantMenu!StoredMenuCatchesUp: SyncTodaysMenu).
MenuCatchesUp == area \in {"menu", "days"} => StoredMenuCatchesUp
=============================================================================
