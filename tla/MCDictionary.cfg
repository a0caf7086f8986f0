SPECIFICATION ProgramSpec
CONSTANTS
    Parts <- TableOnly
    MaxLength = 4
    Low <- MinusTwenty
    High = 127
    LongMax = 127
    Configs <- ManyConfigs
    IPv4 = {"lan", "other"}
    HostNames = {"name"}
    Keys <- ThreeKeys
    Vals <- OneValue
    NULL = "null"
    Hash <- Colliding
    MinSize = 2
    MaxSize = 4
    Failures <- AllFail
    Files <- StartFiles
    Names <- Settable
    Texts <- PlainTexts
    MaxLosses = 2
    ValueSets <- Dependent
    Scenarios <- BothScenarios
    PwmWorks = TRUE
    Refusable <- SomeRefused
    Options <- AllOptions
    FailingCalls <- AllCalls
    Width = 24
    Height = 14
    Objects <- Boxes
    MaxObjects = 2
    Ink <- Font
    Writings <- SomeWritings
    MaxUnits = 3
    Payloads <- ShortAndEscaped
    Threads = {t1, t2}
    Tags = {main, osd}
    TableSize = 2
    Levels <- TwoLevels
    LogLimit = 3
    Sizes <- LineSizes
    Legacy = 5
    MaxWritten = 7
    Threshold = 257944
    TextMax = 4096
    Prefix = 32
    RecoveryLimit = 262144
    Lengths <- LongText
PROPERTIES
    IsKeyMap
CHECK_DEADLOCK FALSE
