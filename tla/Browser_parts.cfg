CONSTANTS
    Sockets = {s1, s2, s3}
    NoSocket = NoSocket
    None = None
    Names <- MCNames
    Me = "me"
    Departments <- MCDepartments
    OrgKind <- MCOrgKind
    ByHeart <- MCByHeart
    Officers <- MCOfficers
    Docs = {"doc1", "doc2"}
    WindowWidth = 12
    WindowHeight = 10
    Backdrops = {"b1", "b2", "b3", "b4"}
    MaxDue = 3
    BodyWidths = {12, 16}
    BodyHeight = 14
    ElementWidth = 2
    ElementHeight = 2
    TipWidth = 6
    TipHeight = 4
    Step = 2
    LastSlide = 2
    MaxQueued = 2
    Panels <- MCNumbers
    Menus <- MCNumbers
    LastItem = 1
    Tabs = {"t1", "t2", "t3"}
    Layouts <- MCLayouts
    SpyOffset = 1
    Heights = {20, 24}
    Height = 2
    Natural = 4
    Pinned = 1
    Tops = {0, 3}
    Bottoms = {0, 8}
SPECIFICATION BrowserSpec
INVARIANTS TypesOK LockMeansRetry HeartRuns SentWhereTyped UnseenMarked FormRight ModalWhole
    TipRight CarouselAgrees PanelsAgree MenusAgree TabShowsPane SpyFollows AffixSettles
PROPERTIES NeverGivesUp
