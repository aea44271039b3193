SPECIFICATION Spec
CONSTANTS
    Clients = {c1}
    Flows = {f1, f2}
    Connectors = {k1}
    c1 = c1
    f1 = f1
    f2 = f2
    k1 = k1
    None = None
    Setups = {s1, s2}
    Inferred = s1
    Answers <- MCAnswers
    NoId = NoId
    PageSize = 1
    MaxWorkflows = 2
    Unsound = {s2}
    Tidings <- MCTidings
    MaxContracts = 2
    MaxChannels = 1
    Begun = 2
    MaxCalls = 5
    Tabs = {t1, t2}
    MaxRestarts = 1
CHECK_DEADLOCK FALSE
INVARIANTS
    QuietOnceRemoved
    WizardIsWhole
    BoardIsHonest
PROPERTIES
    RosterSpec
