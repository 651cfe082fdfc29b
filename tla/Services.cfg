\* Every service beside the bulk job, each on its own small instance.
CONSTANTS
    a1 = a1
    a2 = a2
    b1 = b1
    b2 = b2
    t1 = t1
    t2 = t2
    HrRequests = {t1}
    HrTabs = {t2}
    HrRows = {b1, b2}
    HrMaxCalls = 2
    HrMaxEvents = 1
    RcCalls = {t1}
    RcSlots = 2
    RcVersions = 2
    RcTables = {1, 2, 3}
    RcForeignKeys <- ForeignKeys
    RcCoQueries <- CoQueries
    ApCalls = {a1, a2}
    ApModels = {b1, b2}
    ApRetries = 1
    ApMaxFaults = 1
    AgWaves = {1}
    AgTables <- AgentTables
    AgKeep = 14
    AgSteps = 12
    AgBefore = 4
    AgMaxAsks = 1
    AgMaxClicks = 1
    GtTables = {1, 2}
    GtMaxTexts = 4
    LvJobs = {a1, a2}
    LvSlots = 2
    LvFaults = 1
    MdColumns = {"a", "b"}
    MdHebrew = {"a", "b"}
    MdGlossary = {"b"}
    MdTables = 2
    MdAttempts = 3
    PlSize = 3
    PlGhosts = 1
    PlScores = {0, 1}
    PlDomains = {1, 2}
    PlListings <- Listings
    PlCaps <- Caps
    SgCalls = {b1, b2}
    SgTables = {a1, a2}
    SgRows <- Rows
    SgGates <- Gates
    SgMinBatch = 2
    DbTables = {a1, a2}
    DbJobs = {b1, b2}
    DbMaxClicks = 5
    LgTables <- LogTables
    LgScope <- AO
    LgColumns <- LogColumns
    LgDdl <- Ddl
    LgGlossary <- Glossary
    LgRtl = {"g", "h"}
    LgGuess <- Guesses
    LgRecords <- LogRecords
    LgFiles = 2
    LgLines = 4
    LgMerge = 2
    LgMaxEdges = 1
    BsCalls = {a1, a2}
    BsNames <- SourceNames
    BsLower <- Parts
    BsModels = {"m1", "m2"}
    BsSql <- ModelSql
    BsReport <- ReportColumns
    BsMaxStarts = 2
    BsMaxFaults = 1
    XtTables = {"T", "t", "v"}
    XtBare = {"v"}
    XtStatements <- Remembered
    XtDatabases <- Databases
    XtCap = 2
    XtFactor = 2
    XtPool = 3
    XtMaxFaults = 2
    SqDatabases = {"pg", "ms", "ora", "db"}
    SqDialect <- Kinds
    SqTables <- TablesOf
    SqReadable = {"t"}
    SqUpper <- Upper
    SqEnvs <- Envs
    SqMaxSteps = 1
    CkCalls = {a1, a2}
    CkFixes = {t1}
    CkMaxTime = 2
    CkMaxRuns = 1
    SxTables = {"s.a", "s.b", "z"}
    SxQualified = {"s.a", "s.b"}
    SxShort <- Shorts
    SxStatements <- Statements
SPECIFICATION SvSpec
SYMMETRY Symmetry
INVARIANTS
    SvTypeOK
    HrDecisionsKept
    RcServesOwnReport
    ApAnswerTrue
    AgQuestionSeen
    GtLineageKept
    LvReportOwn
    MdUnflaggedSound
    PlPlanSound
    SgVerdictsAgree
    DbBulkAccounted
    LgUsageKept
    BsColumnsKept
    XtNothingMissed
    SqOwnDatabase
    CkKept
    SxCredited
CHECK_DEADLOCK FALSE
