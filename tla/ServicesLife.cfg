SPECIFICATION ServicesSpec
CONSTANTS
    u1 = u1 u2 = u2 x1 = x1 x2 = x2 x3 = x3 i1 = i1 i2 = i2 i3 = i3

    Users = {u1, u2}
    Opening = 1
    Purchases = {x1}
    Buyer <- MCBuyer
    Bought <- MCBought
    Generations = {x1}
    Author <- MCAuthor
    Price <- MCPrice
    Auths = {x1, x2, x3}
    Payer <- MCPayer
    Entity <- MCEntity
    Budget <- MCBudget
    Holds = {x1, x2, x3}
    AuthOf <- MCAuthOf
    Days = {1, 2}
    MonthOf <- MCMonthOf
    DailyReward = 1
    MonthlyReward = 1
    Gift = 1
    MaxGiven = 2

    Contracts = {x1, x2}
    NoContract = NoContract
    Admins = {u1}
    MaxPayments = 2
    MaxMonths = 2
    MaxCompensations = 1

    Sessions = {i1, i2, i3}
    NoSession = NoSession
    Idle = 1
    Absolute = 2
    MaxSessions = 1
    LastTime = 3

    Pairings = {x1, x2}
    Owners = {u1, u2}
    Nobody = Nobody
    KeyIds = {i1, i2, i3}
    MaxKeys = 2

    Guest = Guest
    Members = {u1, u2}
    Skins = {x1, x2}
    NoSkin = NoSkin
    SkinOwner <- MCSkinOwner
    SkinIsPublic <- MCSkinIsPublic
    Shelves = {x1, x2}
    ShelfOwner <- MCSkinOwner
    ShelfIsPublic <- MCSkinIsPublic
    ItemIds = {i1, i2}
    NoItem = NoItem
    MaxItems = 1
    MaxShelves = 1
    MaxRows = 2
    Servers = {i3}
    Background = Background
    LocalAge = 1
    RedisAge = 2
    RefreshTime = 1
    LastTick = 4

    Posters = {u1, u2}
    Posts = {x1, x2}
    PostAuthor <- MCPostAuthor
    PostHasImage <- MCPostHasImage
    CommentIds = {i1, i2}
    NoComment = NoComment
    NoticeIds = {i1, i2}
    NoNotice = NoNotice
    MaxLikes = 2

    Accounts = {u1, u2}
    Unbound = Unbound
    Codes = {x1, x2}
    NoCode = NoCode
    AsBound = AsBound
    LegacyCode = x1
    Deals = {x1, x2}
    LegacyDeal = x1
    NoDeal = NoDeal
    Terms = {1, 2}
    MaxVersion = 2
    MaxClick = 1
INVARIANTS
    HostingIsCovered BalanceIsExplained AgentKeysAreSound
    HiddenStaysHidden LikesAddUp CommentsAreShown OrdersFollowOffers
PROPERTIES
    PaymentGivesItsDue SettlementIsFinal SessionsAreSound SourcesAreKept
CONSTRAINT MCConstraint
SYMMETRY MCSymmetry
CHECK_DEADLOCK FALSE
