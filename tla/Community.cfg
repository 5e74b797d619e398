SPECIFICATION CommunitySpec
CONSTANTS
    SlotBookings = {"s"}
    LoanBookings = {"l"}
    Replicas = {"r1", "r2"}
    MaxReminderTrouble = 1
    NPhotos = 2
    NFolders = 1
    Tickers = {"t1"}
    AdminModes = {"full"}
    MaxChanges = 3
    MaxSyncTrouble = 1
    PhotoIds = {1, 2}
    AlbumIds = {1}
    LastSort = 1
    Servers = {"s1", "s2"}
    Readers = {"r1"}
    PageLimit = 1
    MaxCacheSize = 2
    MaxVersion = 2
    MaxCommits = 1
    MaxWalks = 1
    EventIds = {"e"}
    People = {"p", "q"}
    Schedulers = {"s1", "s2"}
    MaxEventMoves = 1
    MaxEventTrouble = 1
    ClubIds = {1, 2}
    ClubNames <- TwoSpellings
    Folk = {"p", "q"}
    ClubAdmins = {"p"}
    MaxRenames = 1
    Clients = {"c1", "c2"}
    TargetRole = "ACADEMICS"
    MaxCodes = 2
    MaxRegistrations = 2
    Installations = {"i", "j"}
    LegacyIds = {"g"}
    Owners = {"a", "b"}
    PushTokens = {"t"}
    Callers = {"c1", "c2"}
    MaxRegisterAttempts = 2
    MaxRegisterCalls = 2
    MaxDeviceEvents = 2
    TripRows <- Trips
    StopRows <- Stops
    Calendar <- Weeks
    Exceptions <- Holidays
    Line <- TheLine
    Running <- TheRuns
    Announcements <- Announced
    Unstamped <- NoStamp
    Riders = {"r1", "r2"}
    DayLength = 4
    Lookback = 2
    MatchWindow = 1
    TTL = 1
    MaxStale = 2
    MaxDepartures = 2
    FirstTick = 4
    LastTick = 7
    FirstFeed = 2
    MaxFeeds = 2
    MaxFetchTrouble = 1
    Houses = {"h"}
    Editors = {"e1", "e2"}
    MaxRows = 2
INVARIANTS
    TypesOK
    RemindedOnce
    AnswersAreCurrent
    WalkSeesEachOnce
    CreatorsCanDelete
    ResponsiblesAreMembers
    OneStanding
    CodesAreUsedOnce
    HeartbeatsCount
    AnswersAreFresh
    AnswersAreRight
    TreeShowsEverything
    IndexCatchesUp
PROPERTIES
    RegistrationsAreAtomic
    EventsKeepTheOutbox
CHECK_DEADLOCK FALSE
