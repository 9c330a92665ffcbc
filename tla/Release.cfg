SPECIFICATION ReleaseSpec
CONSTANTS
    Known <- Targets
    Repos <- FacadeRepos
    Remote <- Server
    Peel <- Commits
    Signed <- Trusted
    PlainTags <- Plain
    FirstInputs <- Examples
    LaterInputs <- MoreExamples
    Streamed <- WithStreams
    None = None
    MaxRuns = 3
    MaxKills = 1
    MaxEdits = 1
    Artifacts <- PublicToolchain
    Archives <- Unpack
    Pieces = 2
    MaxTools = 3
    MaxToolKills = 2
    Catalog <- Plants
    Outcomes <- GoTest
    NoLog = NoLog
    MaxHarness = 2
    MaxHarnessKills = 1
    Inputs <- Schemas
    Selectors <- TargetSelections
    Memories <- StreamMemory
    Sims <- Coordinates
    Extra <- NoGeneration
    NoReport = NoReport
    MaxParity = 2
    MaxParityKills = 1
INVARIANTS AdmittedIsReleased PreparedComposes
           NothingUnverified ToolchainComplete
           KillsBacked SuccessAttestsAll ReportVouches PlantNoticed
CHECK_DEADLOCK FALSE
