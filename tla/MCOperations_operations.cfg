SPECIFICATION MCSpec
CONSTANTS
    Browsers = {"b1", "b2"}
    OwnAccounts = {"a1"}
    ForeignAccounts = {"a9"}
    BaseChoices <- MCBaseChoices
    ExtraChoices <- MCExtraChoices
    GrantedBy <- MCGrantedBy
    PageBodies <- MCPageBodies
    MaxChoices = 2
    MaxStarts = 2
    MaxForms = 2
    MaxUnderWay = 2
    KeyringClients = {"default", "work"}
    DefaultClient = "default"
    KeyringEmails = {"e1"}
    KeyringTokens = {"t1", "t2"}
    MaxKeys = 2
    Corrupt = "corrupt"
    OwnAddress = "own"
    SettingsStates <- MCSettingsStates
    Sources <- MCSources
    EmailRequests <- MCEmailRequests
    MaxEmails = 2
    FileIds = {"f1"}
    DefaultBytes = 1
    MaxBytes = 2
    ByteLimits = {0, 2, 3}
    MaxSize = 3
    MaxVersion = 2
    MaxTransfers = 2
    Documents <- MCDocuments
    Presentations <- MCPresentations
    Spreadsheets <- MCSpreadsheets
    MaxCreations = 2
    MailAccounts = {"a1"}
    Lists <- MCLists
    CacheLimit = 1
    LabelTTL = 2
    Concurrency = 1
    MaxMessages = 1
    MaxTime = 2
    MaxSearches = 2
    MaxRenames = 1
    MaxGeneration = 2
    MessageParts <- MCMessageParts
    BodyLimits <- MCBodyLimits
    DefaultBodyBytes = 3
    MaxBodyBytes = 4
    MaxAttachments = 1
    Subjects <- MCSubjects
    MaxHeaderBytes = 2
    Recipes <- MCRecipes
    FactValues <- MCFactValues
    MaxKnownFactKeys = 5
    MaxRecipeSteps = 8
INVARIANTS
    SignInBound
    KeyringKept
    WrittenAsSeen
    CreatedAsReported
    ReadAsThere
    RecipeHonest
CHECK_DEADLOCK FALSE
