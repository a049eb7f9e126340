SPECIFICATION PartsSpec
CONSTANTS
    MaxSent = 2
    MaxJoins = 1
    MaxOpens = 2
    MaxSlips = 1
    Take = 1
    Unknown = Unknown
    Hosts = {h1, h2}
    Creator = h1
    Plain = {p1}
    Commands = {c1}
    MaxMade = 2
    MaxMoves = 1
    Names = {n1, n2}
    MaxTime = 2
    Edits <- McEdits
    Fresh = Fresh
    Gone = Gone
    NoDate = NoDate
    Keep = Keep
    Nobody = Nobody
    MaxItems = 2
    Days = {d1, d2}
    NoDay = NoDay
    MaxCalls = 2
    MaxOutside = 1
    Tabs = {t1, t2}
    Debounce = 2
    ShowFor = 3
    MaxWire = 2
    Off = Off
    People = {u1, u2}
    Google = Google
    NoOne = NoOne
    MaxLogin = 2
    Window = 2
    Attempts = {a1, a2}
    SignUps = {s1, s2}
    Clicks = {k1, k2}
    MaxPages = 2
    MaxHasty = 1
    MaxFaults = 1
    Editors = {e1, e2}
    Texts = {x, y}
    Hours <- McHours
    Offset = 9
    Blank = Blank
    Closed = Closed
    MaxSaves = 2
    MaxEditFaults = 1
    h1 = h1
    h2 = h2
    p1 = p1
    c1 = c1
    n1 = n1
    n2 = n2
    d1 = d1
    d2 = d2
    t1 = t1
    t2 = t2
    u1 = u1
    u2 = u2
    a1 = a1
    a2 = a2
    s1 = s1
    s2 = s2
    k1 = k1
    k2 = k2
    e1 = e1
    e2 = e2
    x = x
    y = y
INVARIANTS PartsTypeOK ReadToTheEnd ReadWasShown UnreadNoticed
    TargetAsSeen NoScheduleWithoutRoom MatchIsClosest CalendarAgrees PopupAgrees
    TypistShown NoGhostTypist AtMostTwiceTheLimit RefusedForCause ToldOwnsAccount
    OneRoomEach EditsKept
CHECK_DEADLOCK FALSE
PROPERTY TypingEnds
