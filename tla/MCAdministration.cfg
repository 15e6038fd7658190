CONSTANTS
    Editors = {r1, r2}
    TokenNames = {"default", "x"}
    Groups = {"g"}
    MaxEdits = 4
    MaxTokens = 3
    SettingsFaults = {{"read", "write", "crash"}}
    NoEdit = NoEdit
    NodeNames = {"a", "b"}
    Clerks = {r1, r2}
    Reporters = {r1}
    Pages <- MCPages
    MaxPages = 2
    MaxReports = 1
    MaxUpheavals = 1
    Stores = {"valkey", "memory"}
    Overlapping = {"memory"}
    NoPage = NoPage
    Visitors = {r1, r2}
    Addrs = {"ip"}
    MaxSessions = 2
    MaxCsrf = 3
    MaxVisits = 5
    maxLoginAttempts = 2
    SessionFaults = {{"hash"}}
    NoVisit = NoVisit
    Managers = {"m1", "m2"}
    Operators = {r1, r2}
    ProviderNames = {"p"}
    MaxSaves = 3
    MaxStarts = 1
    ProviderFaults = {{"save", "list"}}
    NoSave = NoSave
    HookIds = {"wh1"}
    HookPages = {r1, r2}
    MaxHookPages = 2
    MaxSends = 1
    MaxHookStarts = 1
    HookFaults = {{"save", "list", "post"}}
    NoHook = NoHook
    NoHookPage = NoHookPage
SPECIFICATION AdministrationSpec
INVARIANTS
    AdministrationTypeOK
    RevokedStaysRevoked
    NamesAgree
    FormsStayValid
    LockoutBounded
    ProvidersFollowConfigs
    DeletedStaysDeleted
    SlackNotLost
PROPERTIES
    NoLockout
    EveryHookTried
    ChangeIsAnnounced
CHECK_DEADLOCK FALSE
