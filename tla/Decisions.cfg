SPECIFICATION Spec
CONSTANTS
    None = None
    Absent = Absent
    Unanswered = Unanswered
    MaxFindings = 5
    McpPath = 9
    MaxDocuments = 2
    MaxOwn = 1
    MaxSteps = 5
    MaxAge = 1000
    PublicHosts = {"github.com"}
    MaxRecords = 2
    Rejected = Rejected
    MaxPrefill = 2
    Sources <- MCSources
    Subjects <- MCSubjects
    Revisions <- MCRevisions
    InstallPolicies <- MCInstallPolicies
    Authored <- MCAuthored
    Inputs <- MCInputs
    Policies <- MCPolicies
    Configurations <- MCConfigurations
    Snapshots <- MCSnapshots
    Fetched <- MCFetched
    Baskets <- MCBaskets
INVARIANTS
    CheckTellsContent
    ClosureSound
    DangerIsTold
    UnmergeRestores
    CapabilitiesDeclared
    WrittenIsReadable
    ReportsStayHome
\* Every topic comes to an end: a recipe is run once, and the edits are bounded.
CHECK_DEADLOCK FALSE
