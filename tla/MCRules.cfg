\* Each rule is done when its text is read.
SPECIFICATION MCSpec
CHECK_DEADLOCK FALSE
CONSTANTS
    Literals = {"/", ".", "a", "%"}
    Escapes = {"/", "%", "FF"}
    MaxLength = 5
    Deviations <- MCDeviations
    RequestPaths <- MCRequestPaths
    TransactionTypes = {"SELL", "PURCHASE"}
    Trades <- MCTrades
    ShipTexts <- MCShipTexts
    TypeTexts <- MCTypeTexts
    LimitTexts <- MCLimitTexts
    Collated <- MCCollated
    DEFAULT_TRANSACTION_LIMIT = 1
    MAX_TRANSACTION_LIMIT = 2
    Int64Max = 12
    MaxPairs = 2
    MaxRows = 3
    Int64s = {"0", "1"}
    NotInt64s = {"1.5"}
    Strings = {}
    Keys = {"UNITS", "inventory"}
    InnerKeys = {"units"}
    MaxMembers = 3
    MaxInnerMembers = 1
    MaxItems = 2
    FinePerNano = 2
    NanosPerMicro = 2
    MicrosPerMilli = 2
    MillisPerSecond = 2
    SecondsPerMinute = 1
    MinutesPerHour = 2
    HoursPerDay = 2
    ZERO_SECONDS <- MCZeroSeconds
    LastSecond = 12
    FirstStored = 1
    LastStored = 9
    Stamps <- MCStamps
    Clocks = {3, 18}
    Events = {1, 2}
    Homes <- MCHomes
    References <- MCReferences
    MaxHops = 2
    JsonStrings = {"s"}
    JsonScalars = {"0"}
    MAX_DEPTH = 2
    MaxTokens = 9
    Bytes = {97, 128, 144, 160, 193, 194, 224, 237, 240, 244, 245}
    Units = {97, 55357, 56320}
    MaxString = 4
INVARIANTS
    RoutedWhereAsked
    VariableIsSegment
    ServedAsVerified
    CorsOnMatchedOnly
    VariableAsRouted
    AnswersTheQuery
    DecodesWhatIsWritten
    HistoryKeepsTime
    GoesWhereItSays
    ReadsWhatIsJson
    SaysWhatGoReads
