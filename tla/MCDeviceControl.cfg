SPECIFICATION Spec
CONSTANTS
    AreaSets <- MCAreaSets
    Payloads <- MCPayloads
    OddPayloads <- MCOddPayloads
    Contents <- MCContents
    MaxInstances = 2
    Listener = {l1, l2}
    TopologyRequests <- MCTopologyRequests
INVARIANTS
    ListenersHear
    AnswersAreTrue
    InternalMeansDown
    RequestsAreSound
    ResponsesFit
