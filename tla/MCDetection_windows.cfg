\* Every window of up to four events, without a model and with any of four scores.
SPECIFICATION DetectionSpec
CONSTANTS
    Events <- SomeEvents
    Known = {"good"}
    Proxies = {"proxy"}
    NoDestination = "none"
    Large = 10
    Threshold = 70
    WindowSize = 4
    Scores = {0, 50, 99, 100}
    NoModel = NoModel
    Answers <- SomeAnswers
INVARIANTS
    DetectionTypeOK
    ThreeKindsOfEvidence
    RulesStayAuthoritative
    SplitTransferIsSeen
