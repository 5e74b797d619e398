SPECIFICATION ServicesSpec
CONSTANTS
    Reporters = {"w1"}
    Subjects = {"a", "b"}
    Recipients = {"x"}
    Submitters = {"p1", "p2"}
    Senders = {"s1", "s2"}
    MaxReports = 3
    MaxMailTrouble = 1
    MaxAttempts = 2
    BatchSize = 1
    BurstLimit = 1
    DayLimit = 2
    Albums = {"a"}
    Notifiers = {"n1", "n2"}
    MaxPhotoCount = 2
    MaxAlbumChanges = 2
    MaxAlbumTrouble = 2
    MaxAnnounceAttempts = 2
    Dishes = {"d", "e"}
    Counters = {"k"}
    Codes = {"x"}
    Checkers = {"c1", "c2"}
    LastDay = 2
    MaxMenuChanges = 1
    MaxMenuTrouble = 1
INVARIANTS
    TypesOK
    ReportsInOrder
    MailedOnce
    FirstAlbumsStayQuiet
    AllergensShown
PROPERTIES
    AlbumsKeepTheOutbox
    MenuKeepsTheOutbox
    EveryMailSettles
    EveryAlbumIsSettled
    MenuCatchesUp
CHECK_DEADLOCK FALSE
