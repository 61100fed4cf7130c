SPECIFICATION Spec
CONSTANTS
    Words = {"word", "other"}
    Items = {"i1", "i2"}
    PriorityOf <- MCPriorityOf
    UnitSuite = "word"
    LongStems = {"long"}
    MaxSteps = 2
    MaxAsked = 1
    MaxPerFile = 2
    Limits = {0, 1, 2}
    Answers <- MCAnswers
    Raws <- MCRaws
INVARIANTS
    TypeOK
    ObedientCasesSurvive
    SuiteHasTheSelected
    CoverageReachesTheSuite
PROPERTY NothingCompleteIsLost
