# Verification of transat-backend

TLA+ models of the Transat backend (Go, Fiber, PostgreSQL), the TLC
configurations that check them, and the theorems that TLAPS proves about them.

## The system

| component | state | operations | interacts with |
|---|---|---|---|
| push pipeline (`services/push`) | `push_messages`, `push_deliveries`, what a worker holds in memory | Enqueue; a worker's RunOnce: fan out, dispatch, receipts, completion, purge | devices, Expo, every producer of notifications |
| devices (`services/devices`) | `devices`, the legacy mirror `user_notification_tokens` | Register, SignOut, InvalidateToken, RegisterLegacyToken | the app's heartbeat, the pipeline |
| reservations (`services/reservations`, `handlers/reservation`) | items, bookings, loans, cancellations | book, borrow, return, cancel, admin operations | waiting list, notifications |
| waiting list and reminders | `reservation_waitlist` with the turn (`notified_at`, `turn_expires_at`), reminder marks | Join, Remove, Reserve, notifyNext, turn expiry, reminders | reservations, Announce/CanReach |
| notification façade (`services/notification*.go`) | preferences | Announce, CanReach, the legacy direct path | push pipeline |
| photo sync (`services/photos`) | checkpoint, change tokens, folders and photos | full run (resumable), incremental run, sweep | Google Drive, album notifier |
| album notifier | album state and attempts | baseline, observe, claim, announce | photo sync, façade |
| photo reports (`services/photoreport`) | outbox of reports | Submit, deliver, retry | e-mail |
| gallery cache (`handlers/photos/cache.go`) | cached answers with the library version | get, put, version | photo sync |
| schedulers (`scheduler`, `handlers/restaurant`) | sent marks, today's menu | event reminders, menu check, reservation tick | façade |
| accounts (`handlers/auth`, `middlewares/JWT.go`) | `newf`, verification codes | register, verify, login, change password | devices (revocation) |
| events (`handlers/event`, `scheduler`) | `events`, attendees, sent marks | create, join, leave, delete, the reminder an hour before | clubs, façade |
| clubs (`handlers/club`) | `clubs`, members, roles by name | create, rename, add and remove responsibles, join, leave | events, accounts |
| reservation catalogue (`handlers/reservation`, `handlers/admin`) | categories, items | create, update, delete, the administration's tree | reservations, clubs |
| traq, planning, files, bassine | one table each | CRUD handlers | façade |
| bus departures (`services/gtfs*.go`) | timetable, realtime snapshot | refresh loop, shared fetch, merge | HTTP feeds |
| web administration (`admin/`) | none of its own | calls the API | API |

What is hard here is what happens between two statements. The database pool has
no limit and several replicas of the server may run, so each worker and each
request interleaves with all the others at every statement; notifications,
e-mails and provider calls are made outside the transactions that decide them;
leases replace locks across those calls, and a worker may be slower than its
lease. PROJECT.json lists each such hazard at its line.

What makes each component correct:

* *push*: a push is repeated only when nobody could know that it had been taken;
  evidence (ticket, receipt) is never invented; an outcome is never revised; a
  message completes exactly when all its deliveries are settled; only tokens
  confirmed dead are disabled; every message ends.
* *devices*: one token belongs to one installation; the mirror agrees.
* *reservations and waiting list*: an item has one booking at a time; one person
  holds the turn; the turn moves on; the order of the queue is kept.
* *photo sync*: a library that has caught up shows what Drive holds, whatever crashed,
  resumed or expired in between; nothing alive is swept.
* *gallery*: an answer kept under a version is not older than it; a walk through the pages
  sees each photo once.
* *outboxes (reports, albums)*: sent once, unless nobody could know, and everything settles.
* *menu*: what is stored ends up being what is published; one announcement a day; a dish
  is never shown without the allergens that came with it when it was stored.
* *events*: one reminder per event; a creator can always delete their event.
* *clubs*: a responsible is a member, unless the administration or a role older than the club says otherwise.
* *accounts*: a code is used once; an account waits for verification or has a standing, never
  both.
* *buses*: each answer is the timetable corrected by a feed that is not too old.
* *catalogue*: the administration's tree shows every row once.

## Modules

| module | what it is |
|---|---|
| `DeliveryLog` | abstract specification: what the pipeline promises to senders and to the readers of the delivery log |
| `Outbox` | abstract specification: what whoever announces something promises; the albums, the menu and the events implement it |
| `WaitingLine` | abstract specification: what a waiting list promises to the people in it; `Waitlist` implements it |
| `TokenRegistry` | abstract specification: what the registrations of devices promise to whoever sends pushes; `Devices` implements it |
| `PushPipeline` | the pipeline: producers, workers, receipts, completion, retention, faults, time, devices around it |
| `MCPushPipeline` | model values and small audiences for TLC |
| `PushPipelineProofs` | theorems of `PushPipeline`: types, the refinement of `DeliveryLog`, completion |
| `PushEvidenceProofs` | what the log says was answered, and no working token is disabled |
| `PushClaimsProofs` | a claim is sent once; a push is taken once |
| `Waitlist` | one reservable resource, its bookings and its waiting list: requests, the scheduler, the hand-over of the baton, faults, outside changes |
| `MCWaitlist` | model values and symmetry for TLC |
| `WaitlistProofs` | theorems of `Waitlist`: types, bookings, turns, the baton, the refinement of `WaitingLine` |
| `Reminders` | the milestones of slots and loans: claimed, queued, released by racing schedulers |
| `PhotoSync` | Drive and its changes feed, the index, resumable full runs, incremental runs, the lock |
| `PhotoGallery` | the pages of the gallery and the versioned cache of each replica |
| `AlbumNotifier` | baseline, settling, leases and announcement of new albums |
| `PhotoReports` | submissions under the reporter's lock, and the outbox of mails |
| `RestaurantMenu` | overlapping checks of the menu, the announcement, the days |
| `Events` | events, attendance, the reminder and its mark |
| `Clubs` | clubs, members and responsibles |
| `Accounts` | one address: codes, verification, passwords, the administration |
| `AccountsProofs` | theorems of `Accounts` |
| `Devices` | installations, the heartbeat's transaction, the mirror of tokens |
| `BusDepartures` | timetable, feed, snapshot, merge, against what the operator runs |
| `Catalogue` | categories, items and the tree read in three statements |
| `CommunityProofs` | theorems of `Reminders`, `Events`, `Clubs`, `Devices`, `Catalogue` and `BusDepartures`, and of `MCCommunity` as a whole |
| `PhotoLibraryProofs` | theorems of `PhotoGallery` and `PhotoSync` |
| `ServicesProofs` | theorems of `AlbumNotifier`, `PhotoReports` and `RestaurantMenu`, and of `MCServices` as a whole |
| `MCServices` | `PhotoReports`, `AlbumNotifier` and `RestaurantMenu` on small instances, with fairness |
| `MCCommunity` | the other nine on small instances |

`PushPipeline` and `Waitlist` are large and have runs of their own. The others hardly share
state, so `MCServices` and `MCCommunity` put several of them in one
specification with a variable `area`, chosen at the start: a behaviour steps one part and
leaves the variables of the rest alone, and the state spaces add up instead of multiplying.
One table is shared: `newf_roles` holds the roles of accounts and the responsibles of clubs.
Each of the two modules has its own view of the rows and, as actions, everything the other's
code does to them: the administration's lists of roles are in `Clubs` (`AdminSetRoles`), and the
responsibles that clubs name and remove in `Accounts` (`GrantRespo`, `RemoveRespo`).
That a behaviour of the whole is one of each part is a theorem (`PartsRunAlone`,
`ServicesRunAlone`), so that what is proved of a part holds of what the run checks.
What a part needs of another one appears in it as what that other one may do: Announce
stores a push once by its key, refuses it, or stores it and answers with an error.

### How `PushPipeline` corresponds to the code

`message` and `delivery` are the two tables: `delivery` holds, for each message
and device, the columns the pipeline reads back. `phase`, `rounds` and `hand` are
a worker's program counter and its Go slices; an element of `hand` carries the
value of `attempts` its claim returned, the token it read and the provider's
answer, so that a worker acts on what it *read*, however old. `device` is what the
eligibility query returns.

Each action is one SQL statement, one transaction, or one call of the provider.
`FanOutOne` is a transaction; `Claim`, `Settle`, `RecordResult`,
`CollectReceipts`, `ApplyReceipt`, `Complete` and `Purge` are statements; `Process`
is the recheck query; `SendChunk` is one request. Two workers interleave between
any two of these. `FOR UPDATE SKIP LOCKED` makes a worker miss rows that another
one's statement holds: a claim takes any subset of the rows that qualify, and a step may
find nothing while another worker is in the same step (`Busy`).

Time is not counted. A deadline compared with `now()` is a flag that an action of
its own raises (`MessageExpires`, `BecomesDue`, `LeaseRunsOut`, `TicketAges`), so
every order of deadlines and steps is explored, the slow worker included.
The provider may take a message, refuse it, refuse the request for good or for now, take it and lose
the answer, or answer without tickets. A request of several messages that is refused for good
(`Isolate`) is sent again in two halves under the same claim (`RefuseChunk`, worker.go:437-442):
`part` is the size of the largest request an item may still go out in. The code halves the chunk in
its order, and answers the first half before it sends the second; in the model any two
messages may be together. `Crash` and `StepFails` lose what is in
memory; when a statement of fan-out fails its loop ends and dispatch begins (`FanOutFails`), and when the
first statement of dispatch fails the receipts follow. The start of a message that is to go out later
(`not_before`) is left out, since no producer sets it. `sends`, `taken`, `recorded` and `doubt` are history variables: no guard
reads them.

`DeliveryLog` keeps of this the status of a message and one entry per delivery:
open, or its outcome. `Public` maps a row to its entry; `KeepsTheLog` is the
refinement.

### How `Waitlist` corresponds to the code

One instance is one lockable resource: an item on loan (`slot` is false) or one slot
of a slot item; both kinds are initial states. `holders` are the rows of `reservation`
that keep it from being free (`isFree`), `queue` its rows of `reservation_waitlist` by id,
each with the rows `ahead` of it in `ORDER BY id` (a set, so that the order can be reasoned
about without recursion; a deletion takes the row out of the others' sets), `call` the program counter and the local variables of each
goroutine, `reach` what `CanReach` would answer, `past` whether the slot has begun.

An action is one statement, one transaction or one announcement. What runs under
`pg_advisory_xact_lock` is one action (`Join`, `Reserve`, `CreateReservation`,
`notifyNext`, `expireTurn`); what the code reads before is an action of its own
(`Begin` reads the status of the item and checks the slot; `LoadTurn` the entry), so a
call acts on a status that may be old. The hand-over is what the code makes it: the
release commits (`Cancel`, `Revoke`, `EndReservation`, `Remove`, `AdminRemove`,
`SkipFirst`, `expireTurn`), `notifyNext` gives the turn in another transaction, and
`announceAvailable` queues the push after that; `AnnounceFails` and `TakeBack` are the error
path, which clears the turn by id. `ForgetInterest` follows a direct booking as a
statement of its own. The scheduler is `Tick`, `ExpireWaitlistTurns`, then `LoadTurn`
and `expireTurn` for each listed entry. A loan has no start, `past` stays false for it.

`turn` is `notified_at` and `turn_expires_at` together; `TurnRunsOut` is the deadline. An id
that no entry and no call refers to is given again, which keeps the model finite
without any bound on requests, turns or bookings. `excuse` and `told` are history. `ErrQueueFull`
(a user has too many entries elsewhere) is the answer of `Join` when no id is left.
`Join`, `Reserve` and the administrator's hand-over reject a slot that has begun;
the direct booking does not, and so does the model.

`WaitingLine` keeps of this who has the resource, who waits, who came before whom, who is asked
and who can be reached: no rows, locks, expirations or half-done hand-overs. Its steps are what may
happen to people: one joins behind everybody, some leave, one takes what is free (from the
line, or past it), it is released, the first who can be reached is asked, somebody is no longer
asked. `Line` maps the rows to it (`Waiting`, `Order`, `Asked`); `KeepsTheLine` is the refinement. Asking
is one moment in it and in `notifyNext`: the code calls `CanReach` for one person after the other
while it holds the lock, so a device that comes or goes in these milliseconds may be seen by
one of these calls and not by another.

### How the other modules correspond to the code

In all of them an action is one SQL statement, one transaction or one call of another
service; a request that checks in one statement and writes in another is two actions with
a record of what it read in between, and two of them interleave. A lock is a guard on
the records of the calls that hold it. Deadlines are flags with an action that
raises them. History variables are marked as such where they are declared.

* **`Reminders`** (`reminders.go`). `booking` carries an age per milestone, `claimed` is
  `reservation_reminders`, `tick` a call of `SendDueReminders` in each replica: `claim`
  inserts with `ON CONFLICT DO NOTHING`, `sendReminder` queues, `PushRefused` and `release`
  are the error path. A claim of a loan that fails returns at once and leaves the claims
  made before it unsent (reminders.go:115-117); a release uses the tick's own context and so
  fails with its deadline (docs/notifications.md:161). `lostClaims` names both.
* **`PhotoSync`** (`services/photos`). `drive` and `feed` are external. `Tick` reads the state
  and decides, `Run` takes the advisory lock, `StoreStructure`, `StorePage`, `SweepPhotos` and
  `ApplyChanges` are the transactions. An expired page token makes the run forget its
  checkpoint and no more (sync.go:226-229). `missed` names what the code cannot see, and is empty
  again when a full run starts afresh: a folder that comes back, with files the feed does not
  name, when the index did not know that it was gone or while a full run was listing
  (`untold`); an incremental run inside an interrupted full one (`overlap`); a forgotten full
  run, after an earlier one (`forgotten`); a folder that leaves while a batch that changes one
  of its files is applied (`adrift`), or between two batches of one run (`kept`). The sweep of
  the folders goes by the run that stored a row, as the statement does.
* **`PhotoGallery`** (`handlers/photos`). `get` reads the kept version, `build` is the query,
  `put` stores under the version read before it; `photosResponse` is the page after a
  cursor, cut by the `WHERE` (`Precedes`) and ordered by the `ORDER BY` (`Follows`), which are two
  clauses in the code and two definitions here. `bumpVersion` is the end of a synchronisation.
* **`AlbumNotifier`**. One action per statement of `Run`: `ensureBaseline`, `registerNew`,
  `trackGrowth`, `closeExpired`, `claimAlbums`, `announce`, `recordOutcome`. The index
  changes around it (`AlbumChanges`, `FullSyncBegins`, `FullSyncEnds`).
* **`PhotoReports`**. `Submit`, `CheckSubmission`, `StoreReport` are one transaction under the
  reporter's advisory lock. `CloseInterrupted`, `claimDue`, the sending,
  `RecordSent` or `RecordFailed` are `DeliverDue`; the outcome is recorded by key, whoever
  holds the row by then, as the code does. `SendEmail` asks Brevo and then two SMTP servers
  (`via`): each may take the mail (`SendAccepted`), refuse it (`SendRefused`), or take it and
  answer with an error all the same (`AnswerLost`: an answer that is lost, an error after
  `DATA`), whereupon the next one is asked, or the row is recorded as failed and tried again.
  `mailDoubt` names the rows to which that happened, or whose lease ran out.
* **`RestaurantMenu`**. `FetchMenu` to `RecordNotification` are `CheckAndUpdateMenuCron`
  statement by statement, from `CompareMenus`, which compares names only and with the
  latest stored day, to the announcement. The page lists items and gives codes with them
  (`sourceCodes`), and an edit may change either: codes that come later to a menu of the same names
  are not stored, so `storedWith` keeps what the page gave when a meal was inserted. A page whose
  items are at no counter that is known gives an empty menu, which clears the day
  (menu_service.go:133-148). A code that another check created first makes
  the insert fail and the article goes without it (`lostLinks`).
* **`Events`**. `CreatorAsks` and `FinishDelete`, `JoinEvent` and `FinishJoin` and so on are
  the two halves of a request. `FindEvents`, `RemindEvent` and `markNotificationSent` are a
  tick; an event is looked at only for two minutes around one hour before it.
* **`Clubs`**. `RoleOf` gives the role a name leads to, and two spellings lead to one role
  (`TwoSpellings`). Roles are created and never deleted, a rename leaves the holders behind;
  the administration writes any list of roles to an account, those of responsibles included, and
  does not look at the members (`AdminSetRoles`).
  `adopted` and `crossed` name the clubs and roles the code lets out of step; a role taken away is
  no longer excused.
* **`Accounts`**. `account` is the row of `newf` with its roles, `visit` the transactions that
  hold a lock or have read something. `VerifyAccount` locks the role and then the account,
  `ValidateUser` the account and then the role: each waits for the other, and `Rollback` is
  what PostgreSQL does about it, and also what a failing statement does, since an
  aborted transaction cannot commit. A club makes any account that exists a responsible, also one
  that waits for its verification (`GrantRespo`): `respo` stands for these roles, and the `Standing` of
  an account is its others.
* **`Devices`**. A registration is `RegisterDevice`, `TakeToken`, `Write`, with the row locks
  (`LockedByOther`), the collision of two inserts (`Collides`) and the retry. The mirror is
  changed by the difference between what a device was and is (`MirrorAfter`). `TokenRegistry` has
  a registration as one step that takes the token from every other installation and every
  other account; `Registry` maps to it the active rows (`InUse`) and the rows of the mirror that
  registrations wrote. `patched`, the rows that only an older app version wrote
  (`PATCH /newf/me` writes them whoever holds the token), are not its business.
* **`BusDepartures`**. `findNextDepartures`, `predictConfiguredStop`, `matchScheduledIndex` and
  `mergeDepartures` are operators over small timetables; `Ask`, `ShareFetch`, `FetchEnds`,
  `FetchFails`, `FallBack` are requests around one fetch and one snapshot. `Truth` says
  independently what the operator runs, and each answer is compared with it. A row of the feed names
  its trip as the timetable does or otherwise, and then only a time close to the plan of its day
  finds it (`MatchWindow`, 20 min in the code). A feed without a timestamp is never too old
  (`Unstamped`). A fetch may last a
  tick and no more, since it has a deadline of 5 s (gtfs_realtime.go:19 and 126); a snapshot is
  new for `TTL` (20 s) and usable for `MaxStale` (5 min).
* **`Catalogue`**. Checks and writes apart, foreign keys with their cascades, and
  `TreeCategories`, `TreeItems`, `TreeLoose` with `categoryToMap` building the tree, which is
  answered without the third part when that statement fails (`LooseFails`).

## Runs

| run | instance | shows |
|---|---|---|
| `push_safety` | 2 workers, 1 message, 1 device, 2 tokens, one dead, 2 attempts, 1 fault, 1 change of the device | `TypeOK`, `SentOnceUnlessInDoubt`, `EvidenceIsReal`, `CompletedMeansSettled`, `KeepsTheLog`, `OnlyDeadTokensDisabled` |
| `push_batch` | 2 workers, 1 message, 2 devices of 2 users, batches of 2, 2 attempts, 1 fault, no receipts | `ClaimsAreAnsweredOnce` |
| `push_live` | 1 worker, 2 messages with one dedupe key, 1 device, 2 attempts, 1 fault, fairness | `EveryMessageEnds` |
| `push_owners` | 2 workers, 3 attempts | violated: `OwnersRecordsStand` |
| `push_expired` | 2 workers, 2 attempts, 1 fault | violated: `ExpiredMeansNotSent` |
| `waitlist_safety` | 3 users, 1 request, 1 scheduler, 1 trouble | `TypeOK`, `NobodyForgotten`, `TurnsAreHeardOf`, `RunningTurnsAreKept` |
| `waitlist_races` | 2 users, 2 requests, 1 scheduler, no trouble | `OneTurn`, `KeepsTheLine` |
| `waitlist_live` | 2 users, 1 request, 1 scheduler, 1 trouble, fairness | `EveryTurnEnds` |
| `waitlist_turns` | 3 users, 2 requests, 1 scheduler, 1 trouble | violated: `OneTurnAtATime` |
| `services` | two senders, two submitters, two notifiers, two menu checks; one trouble (two for albums); 3 reports, 2 days, fairness | `TypesOK`, `ReportsInOrder`, `MailedOnce`, `FirstAlbumsStayQuiet`, `AllergensShown`, `AlbumsKeepTheOutbox`, `MenuKeepsTheOutbox`, `EveryMailSettles`, `EveryAlbumIsSettled`, `MenuCatchesUp` |
| `community` | two concurrent calls everywhere; 2 photos, 2 clubs, 2 people, 2 codes, a day of 4 ticks | `TypesOK`, `RemindedOnce`, `AnswersAreCurrent`, `WalkSeesEachOnce`, `CreatorsCanDelete`, `EventsKeepTheOutbox`, `ResponsiblesAreMembers`, `OneStanding`, `CodesAreUsedOnce`, `HeartbeatsCount`, `RegistrationsAreAtomic`, `AnswersAreFresh`, `AnswersAreRight`, `TreeShowsEverything`, `IndexCatchesUp` |
| `sync_overlap` | two tickers, 2 photos, 2 changes, 1 trouble | violated: `OverlapIsHarmless` |

Bounds. Races over a row need two workers and one row: deliveries do not interact
except inside a batch, in completion and through tokens. A batch that is refused and sent
again in halves is what `push_batch` has two devices for; receipts come after all sending and are left to the
other runs (`MaxReceiptRounds` is 0 there). Completion and tokens meet what
another worker holds in `push_safety`, whose device changes hands. Two attempts give a first claim, a
takeover and the exhausted limit; the third of `push_owners` is what an overwrite
across a give-back needs. `MaxFaults` and `MaxChurn` bound the failures and outside changes in one
behaviour; `MaxFanOut`, `MaxRounds` and otherwise `MaxReceiptRounds` are 1, so that running out
of rounds happens (the code has 20, 20 and 5). `SYMMETRY` is used over workers, and only in runs
without liveness.

In the waiting list, three users are a holder and two people in line, which the order of
the queue needs; two requests and the scheduler are three concurrent actors on one
queue. `MaxTrouble` counts the calls that stop half-way or cannot announce and the
changes of the item, of a user's devices and of accounts; a property that a trouble legitimately
breaks says so in its own statement and is checked in full when there was none.
`SYMMETRY` is over users and requests, never with liveness.

In `services` and `community`, two calls are what every race of these parts needs: one
that has read, and one that changes what was read. The `Max...` constants bound what
comes from outside (changes of Drive, edits of a page, codes, registrations, renames) and
the failures in one behaviour; when they are used up, nothing is left to do, so deadlock
is not checked in these runs (`CHECK_DEADLOCK FALSE`). In `services` reports are run
twice, submissions without mails and the mails of one report, and so is the menu, one day
with failures and two without: nothing of one half reads the other. Two photos on one date
and a page of one are the smallest walk that can skip or repeat. Two codes and two
registrations give a code that outlives an account. The buses' instance has a trip of each
kind (after midnight, of the other direction, on an exception day) and each way a feed
speaks of a trip (cancelled, skipped, timed, delayed, inherited, unknown; late and early; by a name the
timetable lacks, which only a `MatchWindow` above zero can match); one feed bears no
timestamp, and the first one is two ticks old when the clock starts, so that one gets too old.

Fairness (`push_live`). `WF` of a worker's next step: `Start` loops on a ticker for as
long as the process lives and `runSafely` recovers from panics. `WF` of the clock's
actions: time passes. `SF` of `ReceiptsAnswered`: asked again and again, the receipts
endpoint answers once; without it a message may stay accepted for ever, since a row
is declared `unconfirmed` only by an answer that lacks its ticket. No fairness is assumed of faults,
producers, devices or of the deadline of a message.


Fairness (`waitlist_live`). `WF` of each scheduler's next step: its loop ticks every minute
and each tick ends within 45 seconds. `WF` of the end of a running turn: time passes. None
is assumed of requests, users or faults: a person may never answer.

Fairness (`services`). `WF` of each sender's, notifier's and checker's next step: they run on
tickers for as long as a process lives, and recover from panics; `WF` of the end of a lease
or of a delay: time passes. None of submissions, edits or failures, which are bounded. A send
may be refused again and again until the attempts are used up.

### What the violations say

* `worker.go:517`: "a worker whose lease was taken over must not overwrite what
  the new owner recorded". The updates check `status = 'sending'` and nothing that
  identifies the claim. When the new owner gives the row back (`pending`) and a third
  claim takes it, the first worker's late update passes the check. Guarding with the
  claimed `attempts` would make the comment true.
* `00039_push_pipeline.sql:45`: "expired: the message expired before it was sent".
  A worker that stops between the provider's answer and its own update leaves a row that the
  next claim logs as `expired`, although the push was taken.
* `00041_reservation_reminders_waitlist.sql:22`: "notified_at is set while the user
  holds the baton". `notifyNext` gives the turn to the first person who can be reached
  *now* and does not look for a turn that is running. When somebody ahead becomes
  reachable between two hand-overs, two people hold it. `OneTurn` shows that this
  change of reach is the only way to get there.

* `setup.go:46`: "Overlapping ticks (also across instances) are harmless: the advisory lock turns
  them into no-ops". A tick reads the state and chooses the kind of run before it takes the
  lock. When another tick's full run stops half-way in between, the incremental run goes
  ahead and stamps what it stores with its own id; the resumed full run sweeps these rows,
  and a photo is missing until the next reconciliation.

Two orders lose the baton and are excused by name in `NobodyForgotten`: a process that stops between a
release and its `notifyNext`, and a `ForgetInterest` that runs after its booking was already given back
and the turn was offered to its author. In both, a free resource has a queue that nobody is
asked about until the next release.

Smaller differences have no run: `worker.go:550` says that `retryOrFail` gives up
when the message has expired, which it leaves to the next recheck; a
`dedupe_key` is free again once its message is purged; `00036:47` ("a retry never repeats a
mail that already left") does not hold for a provider that takes a mail and answers with an error, nor
for a sender whose lease runs out because it stopped or is slow, which `MailedOnce` excludes by name; and
`admin_handlers.go:170` ("CASCADE will handle dependent rows automatically") is not so for
accounts that clubs or reviews name.

Met while modelling, in the code and in the models, and left out of the properties by
name: a reminder of an event is retried only within its two minutes, and an event moved after it
is not reminded of again; an event created by an administrator has no attendee, so nobody
but an administrator deletes it; the creator of an event, or a responsible, may leave when
the query that keeps them fails; deleting a club keeps its role, so that a club of the same
name cannot be created again; a verification clears a newer code than the one it used; a code
set by an administrator has no expiration and is never accepted; a failed announcement of the
menu, or a menu stored too late in the day, is not announced later; a menu equal to
yesterday's leaves today's empty; allergen codes that the caterer adds to a menu without
changing a name are not stored (menu_repository.go:423-438); a page with no dish at a known counter
empties the day; an administrator can make somebody responsible who is not a member; a bus that
leaves early is shown as planned until its planned time (gtfs_realtime.go:111, 281); when the
third statement of the tree fails the items without a category are missing and the answer is a
success; a booking made between the check and the deletion of an
item is cascaded away; a subcategory created while its parent is deleted is an orphan, which
the tree shows at its root.

## Proofs

`PushPipelineProofs` proves, for all sets of workers, messages, devices and tokens and
all bounds:

* `TypeCorrect`: `Spec => []TypeOK`. Not inductive alone: `attempts` stays within
  `MaxAttempts` because `Claimable` checks it in the same statement that counts, but the
  status a worker settles with comes from its hand, so the invariant adds
  `VerdictsSettle`: an item whose next step is to settle carries one of the two
  statuses that `process` chose.
* `LogKept`: `Spec => KeepsTheLog`, the refinement of `DeliveryLog`: each action maps to an abstract
  action or to a stutter.
* `CompletedSettled`: `Spec => []CompletedMeansSettled`.

`PushEvidenceProofs`, over the same invariant:

* `EvidenceKept`: `Spec => []EvidenceIsReal`. A worker records long after it asked, so the
  invariant speaks of the hands as well (`HandsTellTheTruth`): an item that is going to record
  an acceptance names a claim whose push was taken.
* `WorkingTokensStay`: `Spec => OnlyDeadTokensDisabled`, from `NewsIsTrue`: an item that says a
  token is dead, at whatever step it is, names a dead one. A token that died never works again.

`PushClaimsProofs`:

* `ClaimsAnsweredOnce`: `Spec => ClaimsAreAnsweredOnce`: what was in a request that was not refused whole
  is not sent again under its claim, and a request that was refused comes again smaller. The invariant has four parts. A row counts every
  claim there was (`ClaimsAreCounted`), so that a new claim has a number nobody holds; a claim
  is in one hand, once, and has not been sent while it is to be sent (`ClaimsAreHeldOnce`); no
  row is worked on before its message is fanned out (`WorkIsQueued`), so that a row inserted
  late does not meet old work; and the recheck of a batch finds nothing but fresh claims
  (`Uniform`). A refusal changes the sizes and nothing the invariant speaks of (`RefusedItems`), and is the
  only step that brings an item to be sent back (`ItemsToSend`).

and over all of these

* `TakenOnce`: `Spec => []SentOnceUnlessInDoubt`. For a delivery beyond doubt (`Calm`): one
  worker has work on it, under a running lease; a row that may be claimed has never been
  taken; and what is taken is taken of the claim in hand. The three doubts of the code (an
  answer lost, a lease that ran out, a receipt that asks for another try) are exactly the
  steps that break `Calm`.

`WaitlistProofs` proves, for all users, requests and schedulers:

* `BookedOnce`: `Spec => []OneBooking`. The invariant is inductive: the two transactions that
  book (`Reserve`, `CreateReservation`) read `isFree` under the lock and insert one
  holder, the three statements that release only remove, and no other step touches the
  reservations. The run does not check `OneBooking` by itself: a line whose resource two people
  hold is none of `WaitingLine`, so `KeepsTheLine` says it.
* `LineKept`: `Spec => KeepsTheLine`, the refinement of `WaitingLine`, from the types, `InLine` and
  `OneBooking`. A row is deleted, marked or inserted, and a lemma for each says what becomes of the
  people (`WithoutLine`, `MarkedLine`, `NewcomerLine`): a row that goes takes its place with it and
  leaves the others where they are, a new one is behind all. From these, four lemmas make a step of the
  line of whatever the code does to the rows (`StepStays`, `StepLeaves`, `StepMarks`, `StepAsks`). A
  statement that acts on what it read long before (`TakeBack`, `expireTurn`, `announceAvailable`) is
  the step that stops asking, lets somebody leave, or none: it never asks anybody.
* `PeopleStayInOrder`: `Spec => []Line!LineOK /\ Line!NobodyOvertakes`, by way of `LineKept`: what the abstract
  line promises (one total order of who waits, which only arrivals and departures change) is proved
  of its steps, and so holds of the rows.
* `WaitlistTyped`: `Spec => []TypeOK`, with the unique key of the table and the fact that a row
  that was deleted leaves nothing. Three lemmas say what an `UPDATE`, a `DELETE` and an
  `INSERT` do to the queue (`MarkedIs`, `WithoutIs`, `NewcomerIs`); all proofs below go
  through them.
* `OnePersonAsked`: `Spec => []OneTurn`. `InLine` says that the rows are totally ordered by
  what is ahead of them, that no row is behind one that is gone (else a new row that takes
  its number would be ahead of it), and that, while nobody's devices changed, a turn is held
  by the first person who can be reached only. Two first persons cannot be: one is ahead of the
  other.
* `TurnsAnnounced`: `Spec => []TurnsAreHeardOf`, inductive with the types: a step either keeps
  the turns and the announcements under way (`TurnsKept`, `CallsKept`) or is one of the four
  that hand the baton over, announce it, fail to, and take it back.
* `RunningTurnsStay`: `Spec => RunningTurnsAreKept`: of the steps of a scheduler at `expireTurn`
  none but the guarded one touches its entry.
* `BatonNotLost`: `Spec => []NobodyForgotten`. What makes it inductive is `OpenOK`: a call that is on
  its way to hand the baton over has read an active item. Without it, a hand-over could end
  at a stale status and leave a free resource to a queue nobody asks.

`AccountsProofs` proves, for all clients, codes and registrations:

* `AccountsTyped`: `AccountsSpec => []AccountsTypeOK`.
* `StandingKept`: `AccountsSpec => []OneStanding`, inductive with the types.
* `CodesSpentOnce`: `AccountsSpec => []CodesAreUsedOnce`. That a counter stays at one says
  nothing of the next step, so the invariant `SpentCodes` adds why: a code that was used was
  made and is none the account has (`CodeSpent`), so neither the compare-and-clear of a
  password nor the first statement of a verification can find it; and the role lock lets one
  verification at a time through, whose code is still unspent (`OneVerification`), although by
  then the account may have a newer one.

`CommunityProofs` proves, for all replicas, bookings, people, events, clubs, devices, tokens and
administrators:

* `RemindersStayTyped`, `EventsStayTyped`, `ClubsStayTyped`, `DevicesStayTyped`, `BusesStayTyped`: the
  type invariants of these modules.
* `RemindersSentOnce`: `RemindersSpec => []RemindedOnce`, inductive with the types of the ticks.
* `EventsRemindedOnce`: `EventsSpec => []EventRemindedOnce`. The mark is written from a list in
  the scheduler's memory, so the invariant says it of that list too (`MarksAreReminded`). The run does
  not check `EventRemindedOnce` by itself: it is part of what `EventsKeepTheOutbox` says.
* `EventsImplementTheOutbox`: `EventsSpec => EventsKeepTheOutbox`. The refinement also needs that
  a mark belongs to an event that is there (`MarkedIsLive`: the cascade of a deletion takes it), and
  that no scheduler holds an event that was never created (`PendingIsCreated`), or it could remind of
  an item that is still unknown to the outbox.
* `CreatorsKeepTheirEvents`: `EventsSpec => []CreatorsCanDelete`. The invariant `CreatorsStay`
  names who attends: the creator, who has no departure under way; and an event that is not
  created yet is not being left, so that it inherits no request.
* `ResponsiblesStayMembers`: `ClubsSpec => []ResponsiblesAreMembers`, the lists of the administration
  included. A role is found by a name, so
  the invariant says which names lead to roles that exist: a club that did not take over its role
  made it and is alone with it, and no role that was not made has a holder (`RolesAreMade`), so
  that a new club meets no old responsibles; and whoever is between the check and the statement
  of a departure is not responsible, or was made so in the sight of `crossed` (`LeaversAreFree`).
* `HeartbeatsAlwaysCount`: `DevicesSpec => []HeartbeatsCount`, inductive with the types: the only
  steps that could make an answered device revoked or expired are those that take it out of
  `answered`, and a heartbeat writes nothing only when `Fresh` says that the session is proven.
* `MirrorNamesTheOwner`: `DevicesSpec => []MirrorHasNoStranger`. The difference that a registration
  applies to the mirror was computed when its rows were locked, and it is applied later. So the
  invariant speaks of the caller in between: rows are locked by one caller and stay while they are
  (`LocksAreHeld`), and whatever entry of another account has the token that a caller is about to
  write is deleted with its write, or is owed to a row that this caller does not hold
  (`OthersAreDoomed`) - in which case the unique key makes the write collide. Each token has one
  holder (`TokensAreHeldOnce`), and each entry of the mirror a row that is why it is there
  (`MirrorIsAttached`). The run checks the refinement below instead, which implies it.
* `RegistrationsActAtOnce`: `DevicesSpec => RegistrationsAreAtomic`, the refinement of `TokenRegistry`,
  from the same invariant and one more: what a registration will delete is another account's, of its
  token (`DoomedAreOthers`). A registration takes effect at its commit. What it then deletes was found
  earlier; the lemma `WriteIsRegistration` shows that it is what a registration at that moment would
  delete. An entry it did not find is owed to a row it has not locked (`OthersAreDoomed`): that
  row holds the token, so it would be one of `Others`, which a write that does not collide has locked; or it is
  the row written, which a write that does not collide has locked when there is one. An older
  version's report (`LegacyIsAdopted`) meets no entry of its token, because entries are owed to
  installations (`MirrorIsAttached`) and none holds it.
* `RegistryStaysRight`: `DevicesSpec => []Registry!RegistryOK`, by way of `RegistrationsActAtOnce`: in the abstract
  registry, where a registration is one step, one look at each step is enough to see that a token has one
  installation and that nobody is named with a token they do not use.
* `TreesShowEverything`: `CatalogueSpec => []TreeShowsEverything`, and `CatalogueStaysTyped`. Rows are numbered as
  they are made, a category is below an older one, and an item is in a category that is there
  (`RowsAreOrdered`: the foreign key); so a category that was read and is left was read as it is,
  and the category of an item that was there at the start was read with it
  (`CategoriesAreRead`, `ItemsAreRead`, `LooseAreRead`), even when another call deletes it after. When the
  third statement fails, what is missing has no category, and nothing else is missing.
  That the recursion from the roots reaches all categories is the lemma
  `EveryCategoryHasAPlace`: the oldest one it left out would have a parent that it left out, and
  that is older still. It needs the order of the numbers, since a cycle of categories would be in no
  place.
* `AnswersStayFresh`: `BusSpec => []AnswersAreFresh`. An answer is given from the snapshot, which another
  request's fetch may have written while this one waited; the invariant (`FeedsAreRecent`) bounds the
  age of what may be read by whoever: a snapshot follows a feed that was recent, or bore no timestamp, when it was
  fetched, a fetch under way began a tick ago at most, and no request is of the future.
* `PartsRunAlone`, `CommunityStaysTyped` and `CommunityIsSafe`: `CommunitySpec` implies the specification
  of each of its nine parts, hence `[]TypesOK`, both refinements and every safety property of the run
  but `AnswersAreRight`, as one theorem, for all values of all constants.

`ServicesProofs` proves, for all albums, reports, reporters, replicas, senders, checks and dishes:

* `AlbumsStayTyped`, `ReportsStayTyped` and `MenuTyped`: the type invariants.
* `AlbumsAnnouncedOnce` and `FirstSyncIsQuiet`: `AlbumsSpec => []AnnouncedOnce` and
  `[]FirstAlbumsStayQuiet`. Before the baseline nothing is registered, held or stored, and what
  the first full sync showed is still shown (`QuietBefore`, `BaselineIsLate`); after it, these
  albums are in a state that no notifier picks up (`QuietAfter`); a notifier about to record
  `sent` has stored the push (`QueuedIsStored`).
* `AlbumsImplementTheOutbox`: `AlbumsSpec => AlbumsKeepTheOutbox`. What a notifier holds is in a row that was
  claimed once (`HeldIsKnown`), however long ago its lease ran out: so a late `announce` meets an
  item that is waiting or ended, never one that is new or part of the baseline, and a late outcome is
  a stutter or an ending of a waiting item.
* `ReportsMailedOnce`: `ReportsSpec => []MailedOnce`. A row whose lease never ran out, and that no provider
  took and denied (`Calm`), is in
  one sender's hands at most, and only while it is `sending`; while it waits, or is about to be
  mailed, or was refused, no mail of it has left. The rows of a report that is not stored yet
  do not exist (`RowsOfReports`), so that storing it overwrites none.
* `ReportsStayInOrder`: `ReportsSpec => []ReportsInOrder`. The check and the insert are two statements,
  so the invariant says that what was checked still holds (`StoresAreChecked`), which it does because one
  submission of a reporter is past the lock at a time (`OneSubmission`) and reports only grow
  older.
* `MenuOncePerDay`: `MenuSpec => []MenuAnnouncedOnce`. A check that is about to record has
  queued the menu of the day or met it there (`RecordsWhatIsQueued`).
* `MenuImplementsTheOutbox`: `MenuSpec => MenuKeepsTheOutbox`. A day enters the outbox when the calendar
  reaches it; that none of the days to come is recorded (`RecordedIsPast`) makes it enter as
  unknown.
* `DishesShowAllergens`: `MenuSpec => []AllergensShown`. A check has seen to every code its item came
  with but those left and the one in its hand (`CodesSeenTo`), and what is seen to stays so: codes,
  links and what was given up only grow (`NothingForgotten`). So no other check can undo it before
  the meal is stored.
* `ServicesRunAlone`, `ServicesStayTyped` and `ServicesAreSafe`: the composition implies its parts,
  `[]TypesOK` and every safety property of the run, the two refinements included.

`PhotoReports` is an outbox too and does not implement `Outbox`, rightly: a refused mail is tried
again from the row that says so, and a sender whose lease ran out may revise what another one
recorded. What holds instead is `MailedOnce`, whose exception is the lease that ran out, and the
liveness property `EveryMailSettles`.

`PhotoLibraryProofs` proves, for all photos, folders, replicas, readers and tickers:

* `AnswersStayCurrent` and `WalksSeeEachOnce`: `GallerySpec => []AnswersAreCurrent` and `[]WalkSeesEachOnce`, and
  `GalleryStaysTyped`. The invariant gives each kept answer its meaning (`AnswerRight`): of the photos that
  did not change since its version it has exactly those between its cursor and the next. A walk
  composes answers of several versions and replicas; it has seen, once, what is before its cursor
  and did not change since the oldest (`SeenRight`). That a page ends where the next begins are lemmas about
  `Precedes` and `Follows`, which are proved to be one total order, and about the first and the
  last of a finite set of rows.
* `IndexAlwaysCatchesUp`: `SyncSpec => []IndexCatchesUp`, and `SyncStaysTyped`. The property speaks of the end of a
  synchronisation; the invariant says of every moment what is still to be done, as long as
  `missed` is empty. Between two runs, to replay the feed from the token kept mends every photo
  (`ReplayMends`): it is right, or the feed names it, or its folder, which the index knows to be hidden,
  is named. Between reading a batch and storing it, what was read mends what
  the feed named in it (`ReadsMend`). During a full run, what was listed was right when the run began or has
  been named since (`ListingMends`), whatever crashes and resumptions there were, so that the sweep
  removes none that is alive. Under these lies `SyncAgrees`: one run is past the lock, its checkpoint is that
  of the state, and a fresh run is one nobody used (a pigeonhole lemma over the run numbers).

The proofs assume the named assumptions of their modules only: bounds and limits that are natural
numbers, some of them not zero; sets of people, events, reporters, subjects, clubs and
installations that are not empty, and finite sets of photos; markers (`None`, `NoName`,
`NoPushToken`) that are none of the values they stand in for; `AudienceOf` that gives users;
and, for the buses, `TTL <= MaxStale` (20 s and 5 min, gtfs_realtime.go:20-21). TLC evaluates each of
them on the instance it checks. That a fresh run number is left for each run of the synchronisation
is no assumption: `RunIds` is defined by the numbers of photos and folders, and a pigeonhole
lemma does the rest.

Model-checked only: `EveryMessageEnds`, `EveryTurnEnds`, `EveryMailSettles`, `EveryAlbumIsSettled`
and `MenuCatchesUp` (liveness under fairness, and `ENABLED`, are out of the prover's reach), and
`AnswersAreRight` of `BusDepartures`. It compares two computations of an answer, of which one is a fold
over the rows of a feed, and what a fold returns for every input needs an induction over data, which
the installed provers cannot do. Nor is it true of every instance: only the next
`3 * MaxDepartures` trips are looked at, and a row that names no trip of the timetable may be matched to
another one's plan (both below).

The proof about the buses found an error in the property: it asked of an answer that its feed be
published less than `2 * MaxStale` before, which holds on the instance of the run and not for all
bounds, since a fetch may cross a tick; it is "at most" now. And it showed that `TTL <= MaxStale` is needed:
with a longer `TTL`, a snapshot that is new would be too old to use.

The proof of the synchronisation found two things about the model that the run is too small to show.
The `seen` of a folder was set by listings only and compared with the listing; the statement
(`store.go:154`) compares with the run, so that "folders and albums absent from the latest structure
listing" (`store.go:150`) is not what it sweeps when one incremental run lists twice: a folder stored
by the first listing outlives its absence from the second, until the next run. And a photo stored into a folder that left
between the reading and the storing stays shown. Both are in the model now, as `kept` and
`adrift`, and excused by name until the next full run.

## Not modelled

In the pipeline: the texts of a message and how they are made to fit (`fitContent`), the
length of the delays, the summaries for administrators, metrics and logs, a message whose
stored content cannot be decoded. In the waiting list: the log of cancellations, e-mails,
positions and lists, a `DELETE` at the start of a tick that fails while the rest of the tick
goes on.

In the photo library: how a folder is classified as an album (regular expressions over names,
which unit tests cover better), duplicates, thumbnails, the Drive client's retries. In the
menu: reviews and the caterer's HTML; `http.Get` without a deadline (menu_service.go:33) may
hold a check for ever, which the fairness of `services` excludes. For the buses: downloading
and the CSV, the renewal of a timetable and the change of clocks; only the next `3 * MaxDepartures` trips are
looked at, so that many cancellations can empty an answer, and the instance stays below that. A row that
names no trip of the timetable takes the plan nearest to its time on its day, within 20 minutes, so
with two buses close to each other it can take the other one's; the rows of the instance of this
kind say their day, and no other bus of that day is near. The same holds for a bus that is later than the two hours the
plan looks back.
For accounts: login, the content of tokens, hashes. In `Devices`: platform, permission and version.

Components without a module are listed in PROJECT.json with the reason. They are wrappers of
external services, reads, or single statements without an invariant between them: the bassine
game, traq, planning, files, weather, washing machines, the middlewares, translation, the
start-up wiring and the web interface.

## Plan

What a next step would add, in this order:

1. `PhotoSync` with albums: a folder's classification as a function, and duplicates.
2. The direct dispatch that replaces the pipeline where it is switched off.
3. What the merge of `BusDepartures` promises that needs no induction: that an answer holds
   each run once, and none that the feed cancels.
4. `Outbox` for the milestones of `Reminders`, where the code takes an announcement back and
   claims it again.
